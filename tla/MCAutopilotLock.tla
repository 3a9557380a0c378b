-------------------------- MODULE MCAutopilotLock --------------------------
(* Instances of AutopilotLock for TLC.  The processes are interchangeable  *)
(* and so are the pids: no action compares or orders them.                 *)
EXTENDS AutopilotLock, TLC

Symmetry == Permutations(Proc) \cup Permutations(Pid)
=============================================================================
