---------------------------- MODULE AutopilotLock ----------------------------
(***************************************************************************)
(* The single-instance lock of tools/run_s25u_autopilot.sh: acquire_lock   *)
(* and the EXIT trap cleanup, one action per file-system call, so that two *)
(* processes interleave between any two of them.  A process may be killed  *)
(* (SIGKILL, the Android low-memory killer, or a signal that arrives       *)
(* before line 222 installs the traps) at every step, and leaves the lock  *)
(* directory as it was.                                                    *)
(*                                                                         *)
(* The shell writes the pid file by creating it and filling it; a reader   *)
(* between the two sees an empty file, which acquire_lock treats like a    *)
(* missing one, so both are NoPid here.                                    *)
(***************************************************************************)
CONSTANTS Proc,       \* autopilot processes that may be started
          Pid,        \* process identifiers of the kernel
          NoPid,      \* no pid file, an empty one, or no process
          Overlap,    \* may one process start or exit while another does?
          PidReuse,   \* may the kernel hand out the pid a stale lock names?
          Kills       \* may processes be killed?

ASSUME ConstantsAssumption ==
    /\ NoPid \notin Pid
    /\ Overlap \in BOOLEAN
    /\ PidReuse \in BOOLEAN
    /\ Kills \in BOOLEAN

VARIABLES lockDir,    \* does $state_dir/lock exist?
          pidFile,    \* content of $state_dir/lock/pid
          pc,         \* next step of each process
          pid,        \* $$ of each process, NoPid when it is not alive
          seen,       \* existing_pid, or lock_owner in cleanup
          foreign     \* pids in use by programs that are not the autopilot

vars == <<lockDir, pidFile, pc, pid, seen, foreign>>

Acquiring == {"mkdir", "write", "read", "probe", "unlink", "rmdir", "remkdir", "rewrite"}
Exiting   == {"readOwner", "unlinkOwn", "rmdirOwn"}
Transit   == Acquiring \cup Exiting

TypeOK ==
    /\ lockDir \in BOOLEAN
    /\ pidFile \in Pid \cup {NoPid}
    /\ pc \in [Proc -> {"idle", "running", "refused"} \cup Transit]
    /\ pid \in [Proc -> Pid \cup {NoPid}]
    /\ seen \in [Proc -> Pid \cup {NoPid}]
    /\ foreign \in SUBSET Pid

Init ==
    /\ lockDir = FALSE
    /\ pidFile = NoPid
    /\ pc = [p \in Proc |-> "idle"]
    /\ pid = [p \in Proc |-> NoPid]
    /\ seen = [p \in Proc |-> NoPid]
    /\ foreign = {}

-----------------------------------------------------------------------------
OwnPids == {pid[p] : p \in Proc} \ {NoPid}

\* kill -0 succeeds for every live process of the Termux user, whatever it runs.
Live(n) == n \in OwnPids \cup foreign

\* A pid the kernel may give to a new process.
Fresh(n) == ~Live(n) /\ (PidReuse \/ n # pidFile)

\* Nobody else is starting or exiting; required unless Overlap is set.
Quiet(p) == Overlap \/ \A q \in Proc \ {p} : pc[q] \notin Transit

Goto(p, step) == pc' = [pc EXCEPT ![p] = step]

\* The process is gone; how it ended stays visible in pc.
Vanish(p, end) ==
    /\ Goto(p, end)
    /\ pid' = [pid EXCEPT ![p] = NoPid]
    /\ seen' = [seen EXCEPT ![p] = NoPid]

\* acquire_lock answers 3 and the script exits before the traps are set.
Refused(p) == Vanish(p, "refused") /\ UNCHANGED <<lockDir, pidFile, foreign>>

-----------------------------------------------------------------------------
(* acquire_lock *)

Start(p, n) ==
    /\ pc[p] \in {"idle", "refused"}
    /\ Quiet(p)
    /\ Fresh(n)
    /\ Goto(p, "mkdir")
    /\ pid' = [pid EXCEPT ![p] = n]
    /\ UNCHANGED <<lockDir, pidFile, seen, foreign>>

MakeDir(p) ==
    /\ pc[p] = "mkdir"
    /\ IF lockDir THEN Goto(p, "read") ELSE Goto(p, "write")
    /\ lockDir' = TRUE
    /\ UNCHANGED <<pidFile, pid, seen, foreign>>

\* The redirection fails when the directory has gone again; acquire_lock
\* returns 0 all the same.
WritePid(p) ==
    /\ pc[p] = "write"
    /\ pidFile' = IF lockDir THEN pid[p] ELSE pidFile
    /\ Goto(p, "running")
    /\ UNCHANGED <<lockDir, pid, seen, foreign>>

ReadPid(p) ==
    /\ pc[p] = "read"
    /\ seen' = [seen EXCEPT ![p] = pidFile]
    /\ Goto(p, "probe")
    /\ UNCHANGED <<lockDir, pidFile, pid, foreign>>

\* Planted fault: any pid in the file counts as live.
ProbeLiveAlways(p) ==
    /\ pc[p] = "probe"
    /\ seen[p] # NoPid
    /\ Refused(p)

ProbeLive(p) ==
    /\ pc[p] = "probe"
    /\ seen[p] # NoPid
    /\ Live(seen[p])
    /\ Refused(p)

ProbeStale(p) ==
    /\ pc[p] = "probe"
    /\ seen[p] = NoPid \/ ~Live(seen[p])
    /\ Goto(p, "unlink")
    /\ UNCHANGED <<lockDir, pidFile, pid, seen, foreign>>

UnlinkPid(p) ==
    /\ pc[p] = "unlink"
    /\ pidFile' = NoPid
    /\ Goto(p, "rmdir")
    /\ UNCHANGED <<lockDir, pid, seen, foreign>>

\* rmdir fails on a missing and on a non-empty directory.
RemoveDir(p) ==
    /\ pc[p] = "rmdir"
    /\ \/ /\ lockDir /\ pidFile = NoPid
          /\ lockDir' = FALSE
          /\ Goto(p, "remkdir")
          /\ UNCHANGED <<pidFile, pid, seen, foreign>>
       \/ /\ ~lockDir \/ pidFile # NoPid
          /\ Refused(p)

RemakeDir(p) ==
    /\ pc[p] = "remkdir"
    /\ \/ /\ ~lockDir
          /\ lockDir' = TRUE
          /\ Goto(p, "rewrite")
          /\ UNCHANGED <<pidFile, pid, seen, foreign>>
       \/ /\ lockDir
          /\ Refused(p)

\* Here the redirection is the last command of the function: its failure is
\* the function's status.
RewritePid(p) ==
    /\ pc[p] = "rewrite"
    /\ \/ /\ lockDir
          /\ pidFile' = pid[p]
          /\ Goto(p, "running")
          /\ UNCHANGED <<lockDir, pid, seen, foreign>>
       \/ /\ ~lockDir
          /\ Refused(p)

-----------------------------------------------------------------------------
(* cleanup, the EXIT trap *)

BeginExit(p) ==
    /\ pc[p] = "running"
    /\ Quiet(p)
    /\ Goto(p, "readOwner")
    /\ UNCHANGED <<lockDir, pidFile, pid, seen, foreign>>

\* Planted fault: the trap never finds itself to be the owner.
ReadOwnerNever(p) ==
    /\ pc[p] = "readOwner"
    /\ Vanish(p, "idle")
    /\ UNCHANGED <<lockDir, pidFile, foreign>>

ReadOwner(p) ==
    /\ pc[p] = "readOwner"
    /\ \/ /\ pidFile = pid[p]
          /\ seen' = [seen EXCEPT ![p] = pidFile]
          /\ Goto(p, "unlinkOwn")
          /\ UNCHANGED <<lockDir, pidFile, pid, foreign>>
       \/ /\ pidFile # pid[p]
          /\ Vanish(p, "idle")
          /\ UNCHANGED <<lockDir, pidFile, foreign>>

UnlinkOwn(p) ==
    /\ pc[p] = "unlinkOwn"
    /\ pidFile' = NoPid
    /\ Goto(p, "rmdirOwn")
    /\ UNCHANGED <<lockDir, pid, seen, foreign>>

RmdirOwn(p) ==
    /\ pc[p] = "rmdirOwn"
    /\ lockDir' = (lockDir /\ pidFile # NoPid)
    /\ Vanish(p, "idle")
    /\ UNCHANGED <<pidFile, foreign>>

-----------------------------------------------------------------------------
(* the kernel *)

Kill(p) ==
    /\ Kills
    /\ pc[p] \in Transit \cup {"running"}
    /\ Vanish(p, "idle")
    /\ UNCHANGED <<lockDir, pidFile, foreign>>

ForeignStart(n) ==
    /\ Fresh(n)
    /\ foreign' = foreign \cup {n}
    /\ UNCHANGED <<lockDir, pidFile, pc, pid, seen>>

ForeignExit(n) ==
    /\ n \in foreign
    /\ foreign' = foreign \ {n}
    /\ UNCHANGED <<lockDir, pidFile, pc, pid, seen>>

Step(p) ==
    \/ MakeDir(p) \/ WritePid(p) \/ ReadPid(p) \/ ProbeLive(p) \/ ProbeStale(p)
    \/ UnlinkPid(p) \/ RemoveDir(p) \/ RemakeDir(p) \/ RewritePid(p)
    \/ ReadOwner(p) \/ UnlinkOwn(p) \/ RmdirOwn(p)

Next ==
    \/ \E p \in Proc : Step(p) \/ BeginExit(p) \/ Kill(p)
    \/ \E p \in Proc, n \in Pid : Start(p, n)
    \/ \E n \in Pid : ForeignStart(n) \/ ForeignExit(n)

Spec == Init /\ [][Next]_vars

-----------------------------------------------------------------------------
(* Properties *)

\* A start is refused (lines 178-190) only while another autopilot process
\* has the lock, as the message of line 179 says: a lock that a killed process
\* left behind never stops a start.
RefusedOnlyByOwner ==
    [][\A p \in Proc :
          pc[p] # "refused" /\ pc'[p] = "refused"
              => \E q \in Proc \ {p} : pc[q] = "running"]_vars
=============================================================================
