---------------------------- MODULE ManagerProofs ----------------------------
(***************************************************************************)
(* Proofs about AutopilotLock and about Manager, which extends it, for any  *)
(* number of autopilots and commands, with kills and a reboot at every step.*)
(*                                                                         *)
(* A stop leaves no stage without its autopilot: an autopilot without traps *)
(* has no stage, so a TERM that ends it on the spot orphans nothing         *)
(* (UnarmedHasNoStage); one with traps begins no stage once it is asked     *)
(* (TargetIsDoomed), so the second list holds the stage it may still have,  *)
(* and the KILL reaches the stage before the autopilot                      *)
(* (KilledStageIsListed).                                                   *)
(*                                                                         *)
(* No lock is left: somebody always owes it (LockIsOwed).  The wake lock is *)
(* held: while commands come one at a time, whoever takes, holds or gives   *)
(* up the lock is named by the pid file or awaited by a start               *)
(* (HolderIsKnown), so there is one (OneAutopilot), and an exit trap runs   *)
(* while no other autopilot is armed.                                       *)
(***************************************************************************)
EXTENDS Manager, TLAPS

-----------------------------------------------------------------------------
(* The lock *)

\* No step of the lock code leaves the types.
LEMMA NextType == TypeOK /\ [Next]_vars => TypeOK'
<1> SUFFICES ASSUME TypeOK, [Next]_vars PROVE TypeOK'
  OBVIOUS
<1> USE ConstantsAssumption DEF TypeOK, Goto, Vanish, Refused, Transit, Acquiring, Exiting
<1>1. ASSUME NEW p \in Proc, Step(p) PROVE TypeOK'
  <2>1. CASE MakeDir(p) BY <2>1 DEF MakeDir
  <2>2. CASE WritePid(p) BY <2>2 DEF WritePid
  <2>3. CASE ReadPid(p) BY <2>3 DEF ReadPid
  <2>4. CASE ProbeLive(p) BY <2>4 DEF ProbeLive
  <2>5. CASE ProbeStale(p) BY <2>5 DEF ProbeStale
  <2>6. CASE UnlinkPid(p) BY <2>6 DEF UnlinkPid
  <2>7. CASE RemoveDir(p) BY <2>7 DEF RemoveDir
  <2>8. CASE RemakeDir(p) BY <2>8 DEF RemakeDir
  <2>9. CASE RewritePid(p) BY <2>9 DEF RewritePid
  <2>10. CASE ReadOwner(p) BY <2>10 DEF ReadOwner
  <2>11. CASE UnlinkOwn(p) BY <2>11 DEF UnlinkOwn
  <2>12. CASE RmdirOwn(p) BY <2>12 DEF RmdirOwn
  <2> QED BY <1>1, <2>1, <2>2, <2>3, <2>4, <2>5, <2>6, <2>7, <2>8, <2>9, <2>10,
             <2>11, <2>12 DEF Step
<1>2. ASSUME NEW p \in Proc, BeginExit(p) \/ Kill(p) PROVE TypeOK'
  BY <1>2 DEF BeginExit, Kill
<1>3. ASSUME NEW p \in Proc, NEW n \in Pid, Start(p, n) PROVE TypeOK'
  BY <1>3 DEF Start
<1>4. ASSUME NEW n \in Pid, ForeignStart(n) \/ ForeignExit(n) PROVE TypeOK'
  BY <1>4 DEF ForeignStart, ForeignExit
<1>5. CASE UNCHANGED vars
  BY <1>5 DEF vars
<1> QED BY <1>1, <1>2, <1>3, <1>4, <1>5 DEF Next

-----------------------------------------------------------------------------
\* The variables of the lock keep their types, in every configuration.
THEOREM TypeCorrect == Spec => []TypeOK
<1>1. Init => TypeOK
  BY ConstantsAssumption DEF Init, TypeOK
<1>2. QED
  BY <1>1, NextType, PTL DEF Spec

-----------------------------------------------------------------------------
(* Stages end with their autopilot *)

LEMMA InitTree == ManagerInit => TreeInv
  BY ConstantsAssumption
  DEF ManagerInit, Init, TreeInv, TreeTypeOK, LoopIsArmed, UnarmedHasNoStage,
      TargetIsDoomed, KilledStageIsListed, StageEndsWithAutopilot, Alive, Idle, Begin,
      Commanders, Steps, Signalling, Transit, Acquiring, Exiting

-----------------------------------------------------------------------------
\* The autopilots

LEMMA AcquireKeeps ==
  ASSUME NEW p \in Proc, TreeInv, AcquireStep(p)
  PROVE  TreeInv'
<1> USE ConstantsAssumption
    DEF TreeInv, TreeTypeOK, LoopIsArmed, UnarmedHasNoStage, TargetIsDoomed,
        KilledStageIsListed, StageEndsWithAutopilot, Alive, Doomed, AcquireStep,
        tree, people, marks, Goto, Vanish, Refused, Transit, Acquiring, Exiting
<1>1. CASE MakeDir(p) BY <1>1 DEF MakeDir
<1>2. CASE WritePid(p) BY <1>2 DEF WritePid
<1>3. CASE ReadPid(p) BY <1>3 DEF ReadPid
<1>4. CASE ProbeLive(p) BY <1>4 DEF ProbeLive
<1>5. CASE ProbeStale(p) BY <1>5 DEF ProbeStale
<1>6. CASE UnlinkPid(p) BY <1>6 DEF UnlinkPid
<1>7. CASE RemoveDir(p) BY <1>7 DEF RemoveDir
<1>8. CASE RemakeDir(p) BY <1>8 DEF RemakeDir
<1>9. CASE RewritePid(p) BY <1>9 DEF RewritePid
<1> QED BY <1>1, <1>2, <1>3, <1>4, <1>5, <1>6, <1>7, <1>8, <1>9

LEMMA ExitKeeps ==
  ASSUME NEW p \in Proc, TreeInv, SeeStop(p) \/ Obey(p) \/ GiveUp(p) \/ Cleanup(p)
  PROVE  TreeInv'
<1> USE ConstantsAssumption
    DEF TreeInv, TreeTypeOK, LoopIsArmed, UnarmedHasNoStage, TargetIsDoomed,
        KilledStageIsListed, StageEndsWithAutopilot, Alive, Doomed,
        tree, people, marks, Goto, Vanish, Transit, Acquiring, Exiting
<1>1. CASE SeeStop(p) BY <1>1 DEF SeeStop, Free, BeginCleanup, BeginExit
<1>2. CASE Obey(p) BY <1>2 DEF Obey, Free, BeginCleanup, BeginExit
<1>3. CASE GiveUp(p) BY <1>3 DEF GiveUp, Free, BeginCleanup, BeginExit
<1>4. CASE Cleanup(p) BY <1>4 DEF Cleanup, ReadOwner, UnlinkOwn, RmdirOwn
<1> QED BY <1>1, <1>2, <1>3, <1>4

LEMMA LoopKeeps ==
  ASSUME NEW p \in Proc, TreeInv,
         \/ Arm(p) \/ Turn(p) \/ StartStage(p) \/ StartTool(p) \/ ToolEnds(p)
         \/ StageEnds(p) \/ LowMemory(p)
  PROVE  TreeInv'
<1> USE ConstantsAssumption
    DEF TreeInv, TreeTypeOK, LoopIsArmed, UnarmedHasNoStage, TargetIsDoomed,
        KilledStageIsListed, StageEndsWithAutopilot, Alive, Doomed, lock,
        people, marks, Goto, Vanish, Transit, Acquiring, Exiting, Signalling
<1>1. CASE Arm(p) BY <1>1 DEF Arm
<1>2. CASE Turn(p) BY <1>2 DEF Turn, Free
<1>3. CASE StartStage(p) BY <1>3 DEF StartStage, Free
<1>4. CASE StartTool(p) BY <1>4 DEF StartTool
<1>5. CASE ToolEnds(p) BY <1>5 DEF ToolEnds
<1>6. CASE StageEnds(p) BY <1>6 DEF StageEnds
<1>7. CASE LowMemory(p) BY <1>7 DEF LowMemory, Ends
<1> QED BY <1>1, <1>2, <1>3, <1>4, <1>5, <1>6, <1>7

LEMMA RebootKeeps ==
  ASSUME TreeInv, Reboot
  PROVE  TreeInv'
  BY ConstantsAssumption
  DEF Reboot, TreeInv, TreeTypeOK, LoopIsArmed, UnarmedHasNoStage, TargetIsDoomed,
      KilledStageIsListed, StageEndsWithAutopilot, Alive, Idle, Begin, Commanders, Steps,
      Signalling, Transit, Acquiring, Exiting

-----------------------------------------------------------------------------
\* The manager

\* What a step of a commander leaves of its record
Record == [step : Steps, goal : {"none", "start", "stop", "restart"},
           target : SUBSET Proc, signal : {"TERM", "KILL"}]

LEMMA Moves ==
  ASSUME NEW w \in Commanders, NEW step \in Steps, cmd \in [Commanders -> Record],
         Then(w, step)
  PROVE  /\ cmd' \in [Commanders -> Record]
         /\ cmd'[w].step = step
         /\ cmd'[w].target = cmd[w].target /\ cmd'[w].signal = cmd[w].signal
         /\ \A v \in Commanders \ {w} : cmd'[v] = cmd[v]
  BY DEF Then, Record

LEMMA Aims ==
  ASSUME NEW w \in Commanders, NEW p \in Proc, NEW signal \in {"TERM", "KILL"},
         NEW step \in Steps, cmd \in [Commanders -> Record], Aim(w, p, signal, step)
  PROVE  /\ cmd' \in [Commanders -> Record]
         /\ cmd'[w].step = step /\ cmd'[w].target = {p} /\ cmd'[w].signal = signal
         /\ \A v \in Commanders \ {w} : cmd'[v] = cmd[v]
  BY DEF Aim, Record

\* Where only one commander moves on, to a step that signals nobody, the
\* invariant stays.
LEMMA MovingOnKeeps ==
  ASSUME NEW w \in Commanders, NEW step \in Steps \ (Signalling \cup {"wait"}),
         TreeInv, Then(w, step), UNCHANGED <<pc, pid, at, asked, shell, leaf, lost>>
  PROVE  TreeInv'
  BY SMTT(30) DEF Then, TreeInv, TreeTypeOK, LoopIsArmed, UnarmedHasNoStage, TargetIsDoomed,
         KilledStageIsListed, StageEndsWithAutopilot, Alive, Doomed, Signalling

LEMMA CommandKeeps ==
  ASSUME NEW goal \in {"start", "stop", "restart"}, TreeInv, Command(goal)
  PROVE  TreeInv'
  BY DEF Command, At, Begin, Commanders, TreeInv, TreeTypeOK, LoopIsArmed, UnarmedHasNoStage,
         TargetIsDoomed, KilledStageIsListed, StageEndsWithAutopilot, Alive, Doomed,
         Signalling, Steps, lock, tree

LEMMA StartKeeps ==
  ASSUME NEW w \in Commanders, TreeInv,
         Check(w) \/ Unmark(w) \/ TakeWake(w) \/ Launch(w) \/ Await(w)
  PROVE  TreeInv'
<1>1. CASE Check(w)
  BY <1>1, MovingOnKeeps DEF Check, Steps, Signalling, lock, tree
<1>2. CASE Unmark(w)
  BY <1>2, MovingOnKeeps DEF Unmark, Steps, Signalling, lock, tree
<1>3. CASE TakeWake(w)
  BY <1>3, MovingOnKeeps DEF TakeWake, Steps, Signalling, lock, tree
<1>4. CASE Launch(w)
  <2>1. PICK p \in FreeProcs(w), n \in Pid :
          /\ Start(p, n)
          /\ Aim(w, p, "TERM", "await")
          /\ lost' = lost \ {p}
          /\ UNCHANGED <<tree>>
    BY <1>4 DEF Launch
  <2>2. /\ cmd' \in [Commanders -> Record] /\ cmd'[w].step = "await"
        /\ \A v \in Commanders \ {w} : cmd'[v] = cmd[v]
    BY <2>1, Aims DEF FreeProcs, TreeInv, TreeTypeOK, Record, Steps
  <2>3. /\ p \in Proc /\ shell[p] = "none"
        /\ \A v \in Commanders \ {w} : cmd[v].step = "idle" \/ p \notin cmd[v].target
        /\ pc[p] \in {"idle", "refused"}
        /\ pc' = [pc EXCEPT ![p] = "mkdir"] /\ pid' = [pid EXCEPT ![p] = n]
        /\ UNCHANGED <<at, asked, shell, leaf>>
    BY <2>1 DEF FreeProcs, At, Start, Goto, tree
  <2> USE DEF TreeInv, TreeTypeOK, Alive, Doomed, Signalling
  <2>4. TreeTypeOK'
    BY <2>1, <2>2, <2>3 DEF Record, Transit, Acquiring
  <2>5. LoopIsArmed' /\ UnarmedHasNoStage' /\ StageEndsWithAutopilot'
    BY <2>1, <2>3, ConstantsAssumption
    DEF LoopIsArmed, UnarmedHasNoStage, StageEndsWithAutopilot, Transit, Acquiring
  <2>6. TargetIsDoomed'
    BY <2>2, <2>3 DEF TargetIsDoomed
  <2>7. KilledStageIsListed'
    BY <2>2, <2>3 DEF KilledStageIsListed
  <2> QED BY <2>4, <2>5, <2>6, <2>7
<1>5. CASE Await(w)
  BY <1>5, MovingOnKeeps DEF Await, Steps, Signalling, lock, tree
<1> QED BY <1>1, <1>2, <1>3, <1>4, <1>5

LEMMA StopKeeps ==
  ASSUME NEW w \in Commanders, TreeInv,
         \/ Touch(w) \/ Look(w) \/ SignalLeaf(w) \/ SignalShell(w) \/ SignalSelf(w)
         \/ Gone(w) \/ Insist(w) \/ Release(w)
  PROVE  TreeInv'
<1> USE DEF TreeInv, TreeTypeOK, LoopIsArmed, UnarmedHasNoStage, TargetIsDoomed,
            KilledStageIsListed, StageEndsWithAutopilot, Alive, Doomed, Signalling,
            Steps, At, lock, tree
<1>1. CASE Touch(w)
  BY <1>1, MovingOnKeeps DEF Touch
<1>2. CASE Look(w)
  <2>1. CASE Named = {}
    BY <1>2, <2>1, MovingOnKeeps DEF Look
  <2>2. CASE Named # {}
    <3>1. PICK p \in Named : List(w, p, "TERM")
      BY <1>2, <2>2 DEF Look
    <3>2. /\ cmd' \in [Commanders -> Record] /\ cmd'[w].step = "leaf"
          /\ cmd'[w].target = {p} /\ cmd'[w].signal = "TERM"
          /\ \A v \in Commanders \ {w} : cmd'[v] = cmd[v]
      BY <3>1, Aims DEF List, Named, Record
    <3>3. p \in Proc /\ UNCHANGED <<lock, at, asked, lost>>
      BY <1>2 DEF Look, Named
    <3> QED BY SMTT(30), <3>2, <3>1, <3>3 DEF List, Listed, Record
  <2> QED BY <2>1, <2>2
<1>3. CASE SignalLeaf(w)
  BY <1>3 DEF SignalLeaf, Then
<1>4. CASE SignalShell(w)
  <2>1. PICK p \in Proc : cmd[w].target = {p}
    BY <1>4 DEF SignalShell
  <2>2. /\ cmd' \in [Commanders -> Record] /\ cmd'[w].step = "self"
        /\ cmd'[w].target = {p} /\ cmd'[w].signal = cmd[w].signal
        /\ \A v \in Commanders \ {w} : cmd'[v] = cmd[v]
    BY <1>4, <2>1, Moves DEF SignalShell, Record
  <2>3. /\ cmd[w].step = "shell"
        /\ UNCHANGED <<pc, pid, at, asked, lost>>
        /\ shell' \in [Proc -> {"none", "listed", "unlisted"}]
        /\ leaf' \in [Proc -> {"none", "listed", "unlisted"}]
        /\ \A q \in Proc : shell'[q] \in {shell[q], "none"}
        /\ shell[p] = "listed" => shell'[p] = "none"
    BY <1>4, <2>1 DEF SignalShell
  <2>4. TreeTypeOK'
    BY <2>2, <2>3 DEF Record
  <2>5. LoopIsArmed' /\ UnarmedHasNoStage' /\ StageEndsWithAutopilot'
    BY <2>3
  <2>6. TargetIsDoomed'
    <3>1. \A q \in Proc : Doomed(q) => Doomed(q)'
      BY <2>3
    <3>2. cmd[w].signal = "KILL" => Doomed(p)
      BY <2>1, <2>3
    <3> QED BY <2>2, <3>1, <3>2 DEF TargetIsDoomed
  <2>7. KilledStageIsListed'
    <3>1. cmd[w].signal = "KILL" /\ Alive(p) => shell'[p] = "none"
      BY <2>1, <2>3
    <3>2. \A v \in Commanders : cmd[v].target \subseteq Proc
      OBVIOUS
    <3>3. ASSUME NEW v \in Commanders, NEW q \in cmd'[v].target,
                 cmd'[v].signal = "KILL", Alive(q)'
          PROVE  /\ cmd'[v].step \in {"leaf", "shell"} => shell'[q] # "unlisted"
                 /\ cmd'[v].step = "self" => shell'[q] = "none"
      <4>1. CASE v = w
        BY <2>2, <2>3, <3>1, <3>3, <4>1
      <4>2. CASE v # w
        BY <2>2, <2>3, <3>2, <3>3, <4>2
      <4> QED BY <4>1, <4>2
    <3> QED BY <3>3
  <2> QED BY <2>4, <2>5, <2>6, <2>7
<1>5. CASE SignalSelf(w)
  <2>1. PICK p \in Proc : cmd[w].target = {p}
    BY <1>5 DEF SignalSelf
  <2>2. /\ cmd' \in [Commanders -> Record]
        /\ cmd'[w].step = IF cmd[w].signal = "TERM" THEN "wait" ELSE "release"
        /\ cmd'[w].target = {p} /\ cmd'[w].signal = cmd[w].signal
        /\ \A v \in Commanders \ {w} : cmd'[v] = cmd[v]
    BY <1>5, <2>1, Moves DEF SignalSelf, Record
  <2>3. UNCHANGED <<shell, leaf, lost>> /\ cmd[w].step = "self"
    BY <1>5 DEF SignalSelf
  <2>4. CASE /\ UNCHANGED <<lock, at>>
             /\ (~Alive(p) /\ asked' = asked) \/ asked' = asked \cup {p}
    <3>1. pc' = pc /\ pid' = pid /\ at' = at /\ asked' \in SUBSET Proc
      BY <2>4
    <3>2. Doomed(p)' /\ \A q \in Proc : Doomed(q) => Doomed(q)'
      BY <2>4, <3>1
    <3>3. TreeTypeOK'
      BY <2>2, <2>3, <3>1 DEF Record
    <3>4. LoopIsArmed' /\ UnarmedHasNoStage' /\ StageEndsWithAutopilot'
      BY <2>3, <3>1
    <3>5. TargetIsDoomed'
      BY <2>2, <3>2
    <3>6. KilledStageIsListed'
      BY <2>2, <2>3, <3>1
    <3> QED BY <3>3, <3>4, <3>5, <3>6
  <2>5. CASE Alive(p) /\ (cmd[w].signal = "KILL" \/ at[p] = "off") /\ Ends(p)
    <3>1. shell[p] = "none"
      BY <2>1, <2>3, <2>5
    <3>2. /\ pc' = [pc EXCEPT ![p] = "idle"] /\ pid' = [pid EXCEPT ![p] = NoPid]
          /\ at' = [at EXCEPT ![p] = "off"] /\ asked' = asked \ {p}
      BY <2>5 DEF Ends, Vanish, Goto
    <3>3. \A q \in Proc : Doomed(q) => Doomed(q)'
      BY <3>2, ConstantsAssumption DEF Exiting
    <3>4. TreeTypeOK'
      BY <2>2, <2>3, <3>2 DEF Record
    <3>5. LoopIsArmed' /\ UnarmedHasNoStage' /\ StageEndsWithAutopilot'
      BY <2>3, <3>1, <3>2, ConstantsAssumption DEF Transit, Acquiring, Exiting
    <3>6. TargetIsDoomed'
      <4>1. \A v \in Commanders \ {w} : cmd'[v] = cmd[v]
        BY <2>2
      <4>2. cmd'[w].step = "wait" \/ cmd'[w].signal = "KILL" => Doomed(p)'
        BY <3>2, ConstantsAssumption
      <4> QED BY <2>2, <3>3, <4>1, <4>2 DEF TargetIsDoomed
    <3>7. KilledStageIsListed'
      BY <2>2, <2>3, <3>2
    <3> QED BY <3>4, <3>5, <3>6, <3>7
  <2>6. \/ /\ UNCHANGED <<lock, at>>
           /\ (~Alive(p) /\ asked' = asked) \/ asked' = asked \cup {p}
        \/ Alive(p) /\ (cmd[w].signal = "KILL" \/ at[p] = "off") /\ Ends(p)
    BY <1>5, <2>1 DEF SignalSelf
  <2> QED BY <2>4, <2>5, <2>6
<1>6. CASE Gone(w)
  BY <1>6, MovingOnKeeps DEF Gone
<1>7. CASE Insist(w)
  <2>1. CASE Named = {}
    BY <1>7, <2>1, MovingOnKeeps DEF Insist
  <2>2. CASE Named # {}
    <3>1. PICK p \in cmd[w].target : List(w, p, "KILL")
      BY <1>7, <2>2 DEF Insist
    <3>2. /\ cmd[w].target = {p} /\ p \in Proc /\ Doomed(p)
      BY <1>7, <3>1 DEF Insist
    <3>3. /\ cmd' \in [Commanders -> Record] /\ cmd'[w].step = "leaf"
          /\ cmd'[w].target = {p} /\ cmd'[w].signal = "KILL"
          /\ \A v \in Commanders \ {w} : cmd'[v] = cmd[v]
      BY <3>1, <3>2, Aims DEF List, Record
    <3> QED BY SMTT(30), <1>7, <3>1, <3>2, <3>3 DEF Insist, List, Listed, Record
  <2> QED BY <2>1, <2>2
<1>8. CASE Release(w)
  BY <1>8, MovingOnKeeps DEF Release
<1> QED BY <1>1, <1>2, <1>3, <1>4, <1>5, <1>6, <1>7, <1>8

-----------------------------------------------------------------------------
LEMMA NextKeeps == TreeInv /\ [ManagerNext]_allVars => TreeInv'
<1> SUFFICES ASSUME TreeInv, [ManagerNext]_allVars PROVE TreeInv'
  OBVIOUS
<1>1. ASSUME NEW p \in Proc, AutopilotStep(p) PROVE TreeInv'
  BY <1>1, AcquireKeeps, ExitKeeps, LoopKeeps DEF AutopilotStep
<1>2. ASSUME NEW p \in Proc,
             GiveUp(p) \/ StartStage(p) \/ StartTool(p) \/ ToolEnds(p)
               \/ StageEnds(p) \/ LowMemory(p)
      PROVE  TreeInv'
  BY <1>2, ExitKeeps, LoopKeeps
<1>3. ASSUME NEW w \in Commanders, ManagerStep(w) PROVE TreeInv'
  BY <1>3, StartKeeps, StopKeeps DEF ManagerStep
<1>4. ASSUME NEW goal \in {"start", "stop", "restart"}, Command(goal) PROVE TreeInv'
  BY <1>4, CommandKeeps
<1>5. CASE Reboot
  BY <1>5, RebootKeeps
<1>6. CASE UNCHANGED allVars
  BY <1>6
  DEF allVars, lock, tree, people, TreeInv, TreeTypeOK, LoopIsArmed, UnarmedHasNoStage,
      TargetIsDoomed, KilledStageIsListed, StageEndsWithAutopilot, Alive, Doomed
<1> QED BY <1>1, <1>2, <1>3, <1>4, <1>5, <1>6 DEF ManagerNext

\* Whatever a person and the boot launcher do and whatever is killed, no stage
\* goes on without its autopilot unless Android killed that (stop_autopilot,
\* manage_s25u_autopilot.sh 202-233, and the traps, run_s25u_autopilot.sh 221-222).
THEOREM NoOrphanStage == ManagerSpec => []StageEndsWithAutopilot
<1>1. TreeInv => StageEndsWithAutopilot
  BY DEF TreeInv
<1> QED BY <1>1, InitTree, NextKeeps, PTL DEF ManagerSpec

-----------------------------------------------------------------------------
\* The lock: what holds of it at every step, kills and reused pids included

LEMMA InitHold == ManagerInit => HoldInv
<1>1. Init => LockHeldRight
  <2> SUFFICES ASSUME Init PROVE LockHeldRight
    OBVIOUS
  <2>1. LockIsOwed
    BY DEF Init, LockIsOwed
  <2>2. \A p \in Proc : pid[p] = NoPid /\ pc[p] = "idle"
    BY DEF Init
  <2>3. DistinctPids /\ NamedBeforeLock
    BY <2>2 DEF DistinctPids, NamedBeforeLock, Alive, Acquiring
  <2> QED BY <2>1, <2>3 DEF Init, LockHeldRight
<1>2. ManagerInit => CalmInv
  BY DEF ManagerInit, Init, CalmInv, OneCommand, HolderIsKnown, WakeLockHeld, Named, Alive,
         At, Idle, Begin, Commanders, Acquiring, Signalling
<1> QED BY <1>1, <1>2, InitTree DEF HoldInv, ManagerInit

\* An autopilot that is refused owes the lock nothing.
LEMMA RefusedHolds ==
  ASSUME NEW p \in Proc, TreeInv, LockHeldRight, Refused(p), UNCHANGED cut,
         \/ pc[p] \in {"probe", "remkdir"}
         \/ pc[p] = "rmdir" /\ (~lockDir \/ pidFile # NoPid)
         \/ pc[p] = "rewrite" /\ ~lockDir
  PROVE  LockHeldRight'
<1> USE DEF LockHeldRight, TreeInv, TreeTypeOK, Refused, Vanish, Goto
<1>1. ~cut => LockIsOwed'
  BY DEF LockIsOwed
<1>2. DistinctPids' /\ NamedBeforeLock'
  BY ConstantsAssumption DEF DistinctPids, NamedBeforeLock, Alive, Acquiring
<1> QED BY <1>1, <1>2

LEMMA AcquireHolds ==
  ASSUME NEW p \in Proc, TreeInv, LockHeldRight, AcquireStep(p)
  PROVE  LockHeldRight'
<1> USE ConstantsAssumption
    DEF LockHeldRight, DistinctPids, NamedBeforeLock, LockIsOwed, TreeInv, TreeTypeOK,
        LoopIsArmed, Alive, Goto, Vanish, Refused, Transit, Acquiring, Exiting
<1>0. UNCHANGED cut
  BY DEF AcquireStep
<1>1. CASE MakeDir(p) BY <1>0, <1>1 DEF MakeDir
<1>2. CASE WritePid(p) BY <1>0, <1>2 DEF WritePid
<1>3. CASE ReadPid(p) BY <1>0, <1>3 DEF ReadPid
<1>4. CASE ProbeLive(p) BY <1>0, <1>4 DEF ProbeLive
<1>5. CASE ProbeStale(p) BY <1>0, <1>5 DEF ProbeStale, Live, OwnPids
<1>6. CASE UnlinkPid(p)
  <2>1. pc'[p] = "rmdir" /\ pidFile' = NoPid
    BY <1>6 DEF UnlinkPid
  <2>2. LockIsOwed'
    BY <2>1
  <2> QED BY <1>6, <2>2 DEF UnlinkPid
<1>7. CASE RemoveDir(p)
  <2>1. CASE lockDir /\ pidFile = NoPid /\ lockDir' = FALSE /\ Goto(p, "remkdir")
              /\ UNCHANGED <<pidFile, pid, seen, foreign>>
    <3>1. pc[p] = "rmdir" /\ pid[p] # NoPid
      BY <1>7 DEF RemoveDir
    <3>2. DistinctPids' /\ NamedBeforeLock'
      BY <2>1, <3>1
    <3> QED BY <1>0, <2>1, <3>2
  <2>2. CASE (~lockDir \/ pidFile # NoPid) /\ Refused(p)
    BY <1>0, <1>7, <2>2, RefusedHolds DEF RemoveDir
  <2> QED BY <1>7, <2>1, <2>2 DEF RemoveDir
<1>8. CASE RemakeDir(p)
  <2>1. CASE ~lockDir /\ lockDir' = TRUE /\ Goto(p, "rewrite")
              /\ UNCHANGED <<pidFile, pid, seen, foreign>>
    <3>1. pc'[p] = "rewrite"
      BY <2>1
    <3>2. LockIsOwed'
      BY <2>1, <3>1
    <3> QED BY <1>0, <1>8, <2>1, <3>2 DEF RemakeDir
  <2>2. CASE lockDir /\ Refused(p)
    BY <1>0, <1>8, <2>2, RefusedHolds DEF RemakeDir
  <2> QED BY <1>8, <2>1, <2>2 DEF RemakeDir
<1>9. CASE RewritePid(p) BY <1>0, <1>9 DEF RewritePid
<1> QED BY <1>1, <1>2, <1>3, <1>4, <1>5, <1>6, <1>7, <1>8, <1>9 DEF AcquireStep

LEMMA ExitHolds ==
  ASSUME NEW p \in Proc, TreeInv, LockHeldRight,
         SeeStop(p) \/ Obey(p) \/ GiveUp(p) \/ Cleanup(p)
  PROVE  LockHeldRight'
<1> USE ConstantsAssumption
    DEF LockHeldRight, DistinctPids, NamedBeforeLock, LockIsOwed, TreeInv, TreeTypeOK,
        LoopIsArmed, Alive, Goto, Vanish, Transit, Acquiring, Exiting
<1>1. CASE BeginCleanup(p)
  BY <1>1 DEF BeginCleanup, BeginExit
<1>2. CASE ReadOwner(p) /\ UNCHANGED cut
  BY <1>2 DEF ReadOwner
<1>3. CASE UnlinkOwn(p) /\ UNCHANGED cut
  BY <1>3 DEF UnlinkOwn
<1>4. CASE RmdirOwn(p) /\ UNCHANGED cut
  <2>1. /\ pc[p] = "rmdirOwn" /\ pidFile' = pidFile
        /\ lockDir' <=> lockDir /\ pidFile # NoPid
        /\ lockDir' \in BOOLEAN
        /\ pc' = [pc EXCEPT ![p] = "idle"] /\ pid' = [pid EXCEPT ![p] = NoPid]
        /\ seen' = [seen EXCEPT ![p] = NoPid]
    BY <1>4 DEF RmdirOwn
  <2>2. ~cut => LockIsOwed'
    BY <2>1
  <2>3. DistinctPids' /\ NamedBeforeLock'
    BY <2>1
  <2> QED BY <1>4, <2>1, <2>2, <2>3
<1> QED BY <1>1, <1>2, <1>3, <1>4 DEF SeeStop, Obey, GiveUp, Cleanup

\* A shell that ends on the spot leaves the lock as it was.
LEMMA EndsHolds ==
  ASSUME NEW p \in Proc, TreeInv, LockHeldRight, Ends(p)
  PROVE  LockHeldRight'
  BY ConstantsAssumption
  DEF Ends, Vanish, Goto, LockHeldRight, DistinctPids, NamedBeforeLock, TreeInv, TreeTypeOK,
      LoopIsArmed, Alive, Transit, Acquiring, Exiting

LEMMA LaunchHolds ==
  ASSUME NEW w \in Commanders, TreeInv, LockHeldRight, Launch(w)
  PROVE  LockHeldRight'
<1>1. PICK p \in FreeProcs(w), n \in Pid : Start(p, n)
  BY DEF Launch
<1>2. p \in Proc /\ UNCHANGED cut
  BY <1>1 DEF FreeProcs, Launch
<1> QED
  BY <1>1, <1>2, ConstantsAssumption
  DEF Start, Fresh, Live, OwnPids, Goto, LockHeldRight, DistinctPids, NamedBeforeLock,
      LockIsOwed, TreeInv, TreeTypeOK, LoopIsArmed, Alive, Transit, Acquiring, Exiting

LEMMA RebootHolds ==
  ASSUME LockHeldRight, Reboot
  PROVE  LockHeldRight'
  BY ConstantsAssumption
  DEF Reboot, LockHeldRight, DistinctPids, NamedBeforeLock, Alive, Acquiring

LEMMA NextHolds ==
  ASSUME TreeInv, LockHeldRight, [ManagerNext]_allVars
  PROVE  LockHeldRight'
<1>1. ASSUME UNCHANGED <<lock, cut>> PROVE LockHeldRight'
  BY <1>1 DEF lock, LockHeldRight, DistinctPids, NamedBeforeLock, LockIsOwed, Alive
<1>2. ASSUME NEW p \in Proc,
             AutopilotStep(p) \/ GiveUp(p) \/ StartStage(p) \/ StartTool(p) \/ ToolEnds(p)
               \/ StageEnds(p) \/ LowMemory(p)
      PROVE  LockHeldRight'
  <2>1. CASE Arm(p) \/ Turn(p) \/ StartStage(p) \/ StartTool(p) \/ ToolEnds(p) \/ StageEnds(p)
    BY <1>1, <2>1 DEF Arm, Turn, StartStage, StartTool, ToolEnds, StageEnds
  <2> QED BY <1>2, <2>1, AcquireHolds, ExitHolds, EndsHolds DEF AutopilotStep, LowMemory
<1>3. ASSUME NEW w \in Commanders, ManagerStep(w) PROVE LockHeldRight'
  <2>1. CASE SignalSelf(w)
    <3>1. cmd[w].target \in SUBSET Proc
      BY DEF TreeInv, TreeTypeOK
    <3> QED BY <1>1, <2>1, <3>1, EndsHolds DEF SignalSelf
  <2>2. CASE Launch(w)
    BY <2>2, LaunchHolds
  <2> QED
    BY <1>1, <1>3, <2>1, <2>2
    DEF ManagerStep, Touch, Look, SignalLeaf, SignalShell, Gone, Insist, Release,
        Check, Unmark, TakeWake, Await
<1>4. ASSUME NEW goal \in {"start", "stop", "restart"}, Command(goal) PROVE LockHeldRight'
  BY <1>1, <1>4 DEF Command
<1>5. CASE Reboot
  BY <1>5, RebootHolds
<1>6. CASE UNCHANGED allVars
  BY <1>1, <1>6 DEF allVars
<1> QED BY <1>2, <1>3, <1>4, <1>5, <1>6 DEF ManagerNext

-----------------------------------------------------------------------------
\* One holder at a time while commands come one at a time

LEMMA OneHolder ==
  ASSUME HoldInv, calm, NEW p \in Proc, NEW q \in Proc, Holding(p), Holding(q)
  PROVE  p = q
<1> USE DEF HoldInv, CalmInv
<1>1. (p \in Named \/ Awaited(p)) /\ (q \in Named \/ Awaited(q))
  BY DEF HolderIsKnown, Holding
<1>2. ASSUME p \in Named, q \in Named PROVE p = q
  BY <1>2 DEF Named, LockHeldRight, DistinctPids
<1>3. ASSUME NEW r \in Proc, NEW o \in Named, Awaited(r) PROVE o = r
  BY <1>3 DEF Awaited, OneCommand
<1>4. ASSUME Awaited(p), Awaited(q) PROVE p = q
  <2>1. PICK v \in Commanders : At(v, "await") /\ cmd[v].target = {p}
    BY <1>4 DEF Awaited
  <2>2. PICK w \in Commanders : At(w, "await") /\ cmd[w].target = {q}
    BY <1>4 DEF Awaited
  <2>3. v = w
    BY <2>1, <2>2 DEF OneCommand, At, Commanders
  <2> QED BY <2>1, <2>2, <2>3
<1> QED BY <1>1, <1>2, <1>3, <1>4

\* Who takes the lock is the only one who touches it.
LEMMA TakerIsAlone ==
  ASSUME HoldInv, calm, NEW p \in Proc, pc[p] \in Acquiring, pidFile # pid[p]
  PROVE  /\ Awaited(p) /\ Named = {}
         /\ \A q \in Proc : Holding(q) => q = p
         /\ \A q \in Proc : pc[q] # "unlinkOwn"
<1> USE DEF HoldInv, CalmInv
<1>1. Awaited(p)
  BY DEF HolderIsKnown, Named
<1>2. Named = {}
  BY <1>1 DEF Awaited, OneCommand, Named
<1> QED BY <1>1, <1>2, OneHolder DEF HolderIsKnown, Holding

\* What a step of an autopilot must leave of the lock
LEMMA LockStepKeeps ==
  ASSUME HoldInv, calm, UNCHANGED <<cmd, stop>>,
         \A q \in Named' : q \in Named \/ Awaited(q),
         \A q \in Proc : Holding(q)' => q \in Named' \/ Awaited(q),
         \A q \in Proc : pc'[q] = "unlinkOwn" => q \in Named'
  PROVE  OneCommand' /\ HolderIsKnown'
<1> USE DEF HoldInv, CalmInv
<1>1. \A q \in Proc : Awaited(q)' <=> Awaited(q)
  BY DEF Awaited, At
<1>2. HolderIsKnown'
  BY <1>1 DEF HolderIsKnown, Holding
<1>3. ASSUME NEW w \in Commanders, cmd[w].step \in {"unmark", "wake", "launch"}
      PROVE  Named' = {}
  <2>1. \A q \in Proc : ~Awaited(q)
    BY <1>3 DEF Awaited, OneCommand, At, Commanders
  <2> QED BY <1>3, <2>1 DEF OneCommand, Named
<1>4. ASSUME NEW w \in Commanders, At(w, "await")
      PROVE  \E p \in Proc : cmd[w].target = {p} /\ Named' \subseteq {p}
  <2>1. PICK p \in Proc : cmd[w].target = {p} /\ Named \subseteq {p}
    BY <1>4 DEF OneCommand
  <2>2. \A q \in Proc : Awaited(q) => q = p
    BY <1>4, <2>1 DEF Awaited, OneCommand, At, Commanders
  <2> QED BY <2>1, <2>2 DEF Named
<1>5. OneCommand'
  BY <1>3, <1>4 DEF OneCommand, At
<1> QED BY <1>2, <1>5

LEMMA VanishKeeps ==
  ASSUME HoldInv, calm, NEW p \in Proc, NEW end \in {"idle", "refused"},
         Vanish(p, end), UNCHANGED <<cmd, stop, pidFile>>
  PROVE  OneCommand' /\ HolderIsKnown'
<1> USE DEF HoldInv, CalmInv, TreeInv, TreeTypeOK
<1>1. pc' = [pc EXCEPT ![p] = end] /\ pid' = [pid EXCEPT ![p] = NoPid]
  BY DEF Vanish, Goto
<1>2. \A q \in Proc \ {p} : q \in Named' <=> q \in Named
  BY <1>1 DEF Named, Alive
<1>3. p \notin Named'
  BY <1>1 DEF Named, Alive
<1>4. pc'[p] = end /\ ~Holding(p)' /\ \A q \in Proc \ {p} : pc'[q] = pc[q]
  BY <1>1 DEF Holding, Acquiring
<1>5. \A q \in Named' : q \in Named
  BY <1>2, <1>3 DEF Named
<1>6. \A q \in Proc : Holding(q)' => q \in Named' \/ Awaited(q)
  BY <1>2, <1>4 DEF HolderIsKnown, Holding
<1>7. \A q \in Proc : pc'[q] = "unlinkOwn" => q \in Named'
  BY <1>2, <1>4 DEF HolderIsKnown
<1> QED BY <1>5, <1>6, <1>7, LockStepKeeps

\* While p alone takes the lock, it may write its own pid or remove another's.
LEMMA TakerKeeps ==
  ASSUME HoldInv, calm, NEW p \in Proc, pc[p] \in Acquiring, pidFile # pid[p],
         NEW step \in Acquiring \cup {"running"}, Goto(p, step),
         UNCHANGED <<pid, cmd, stop>>, pidFile' \in {pidFile, pid[p], NoPid}
  PROVE  OneCommand' /\ HolderIsKnown'
<1>1. /\ Awaited(p) /\ Named = {}
      /\ \A q \in Proc : Holding(q) => q = p
      /\ \A q \in Proc : pc[q] # "unlinkOwn"
  BY TakerIsAlone
<1>2. pc' = [pc EXCEPT ![p] = step] /\ pc \in [Proc -> {"idle", "running", "refused"} \cup Transit]
  BY DEF Goto, HoldInv, TreeInv, TreeTypeOK
<1>3. \A q \in Named' : q = p
  BY <1>1 DEF Named, Alive, HoldInv, LockHeldRight, DistinctPids
<1>4. \A q \in Proc : Holding(q)' => q = p
  BY <1>1, <1>2 DEF Holding
<1>5. \A q \in Proc : pc'[q] # "unlinkOwn"
  BY <1>1, <1>2 DEF Acquiring
<1> QED BY <1>1, <1>3, <1>4, <1>5, LockStepKeeps

LEMMA AcquireCalm ==
  ASSUME HoldInv, calm, NEW p \in Proc, AcquireStep(p)
  PROVE  OneCommand' /\ HolderIsKnown'
<1>0. UNCHANGED <<cmd, stop>>
  BY DEF AcquireStep, people, marks
\* The pid file stays: so does every autopilot's standing.
<1>1. ASSUME NEW step \in Acquiring, pc[p] \in Acquiring, Goto(p, step),
             UNCHANGED <<pidFile, pid>>
      PROVE  OneCommand' /\ HolderIsKnown'
  <2>1. pc' = [pc EXCEPT ![p] = step] /\ pc \in [Proc -> {"idle", "running", "refused"} \cup Transit]
    BY <1>1 DEF Goto, HoldInv, TreeInv, TreeTypeOK
  <2>2. Named' = Named
    BY <1>1 DEF Named, Alive
  <2>3. \A q \in Proc : Holding(q)' => Holding(q)
    BY <1>1, <2>1 DEF Holding
  <2>4. \A q \in Proc : pc'[q] = "unlinkOwn" => pc[q] = "unlinkOwn"
    BY <2>1 DEF Acquiring
  <2> QED
    BY <1>0, <2>2, <2>3, <2>4, LockStepKeeps DEF HoldInv, CalmInv, HolderIsKnown, Holding
<1>2. ASSUME Refused(p) PROVE OneCommand' /\ HolderIsKnown'
  BY <1>0, <1>2, VanishKeeps DEF Refused
<1>3. ASSUME pc[p] \in Acquiring \ {"mkdir", "read", "probe"} PROVE pidFile # pid[p]
  BY <1>3 DEF HoldInv, LockHeldRight, NamedBeforeLock
<1>4. CASE MakeDir(p) BY <1>1, <1>4 DEF MakeDir, Acquiring
<1>5. CASE WritePid(p)
  BY <1>0, <1>3, <1>5, TakerKeeps DEF WritePid, Acquiring
<1>6. CASE ReadPid(p) BY <1>1, <1>6 DEF ReadPid, Acquiring
<1>7. CASE ProbeLive(p) BY <1>2, <1>7 DEF ProbeLive
<1>8. CASE ProbeStale(p) BY <1>1, <1>8 DEF ProbeStale, Acquiring
<1>9. CASE UnlinkPid(p)
  BY <1>0, <1>3, <1>9, TakerKeeps DEF UnlinkPid, Acquiring
<1>10. CASE RemoveDir(p) BY <1>1, <1>2, <1>10 DEF RemoveDir, Acquiring
<1>11. CASE RemakeDir(p) BY <1>1, <1>2, <1>11 DEF RemakeDir, Acquiring
<1>12. CASE RewritePid(p)
  BY <1>0, <1>2, <1>3, <1>12, TakerKeeps DEF RewritePid, Acquiring
<1> QED BY <1>4, <1>5, <1>6, <1>7, <1>8, <1>9, <1>10, <1>11, <1>12 DEF AcquireStep

\* An exit trap that gives the wake lock back takes it from nobody else.
LEMMA BeginCleanupCalm ==
  ASSUME HoldInv, calm, NEW p \in Proc, BeginCleanup(p)
  PROVE  OneCommand' /\ HolderIsKnown' /\ WakeLockHeld'
<1>1. /\ pc[p] = "running" /\ pc' = [pc EXCEPT ![p] = "readOwner"]
      /\ pc \in [Proc -> {"idle", "running", "refused"} \cup Transit]
      /\ at' = [at EXCEPT ![p] = "off"] /\ at \in [Proc -> {"off", "checks", "top", "work"}]
      /\ UNCHANGED <<pidFile, pid, cmd, stop>>
  BY DEF BeginCleanup, BeginExit, Goto, people, HoldInv, TreeInv, TreeTypeOK
<1>2. Named' = Named
  BY <1>1 DEF Named, Alive
<1>3. \A q \in Proc : Holding(q)' => Holding(q)
  BY <1>1 DEF Holding, Acquiring
<1>4. \A q \in Proc : pc'[q] = "unlinkOwn" => pc[q] = "unlinkOwn"
  BY <1>1
<1>5. OneCommand' /\ HolderIsKnown'
  BY <1>1, <1>2, <1>3, <1>4, LockStepKeeps DEF HoldInv, CalmInv, HolderIsKnown, Holding
<1>6. \A q \in Proc : at'[q] = "off"
  <2>1. \A q \in Proc : at[q] # "off" => Holding(q)
    BY DEF Holding, HoldInv, TreeInv, LoopIsArmed
  <2>2. \A q \in Proc : at[q] # "off" => q = p
    BY <1>1, <2>1, OneHolder DEF Holding
  <2> QED BY <1>1, <2>2
<1> QED BY <1>5, <1>6 DEF WakeLockHeld

LEMMA CleanupCalm ==
  ASSUME HoldInv, calm, NEW p \in Proc, Cleanup(p)
  PROVE  OneCommand' /\ HolderIsKnown'
<1>0. UNCHANGED <<cmd, stop>>
  BY DEF Cleanup, people, marks
<1>1. CASE pc[p] = "readOwner" /\ pidFile = pid[p] /\ Goto(p, "unlinkOwn")
            /\ UNCHANGED <<pidFile, pid>>
  <2>1. /\ pc' = [pc EXCEPT ![p] = "unlinkOwn"]
        /\ pc \in [Proc -> {"idle", "running", "refused"} \cup Transit]
        /\ Alive(p)
    BY <1>1 DEF Goto, HoldInv, TreeInv, TreeTypeOK, LoopIsArmed, Transit, Exiting
  <2>2. Named' = Named /\ p \in Named
    BY <1>1, <2>1 DEF Named, Alive
  <2>3. \A q \in Proc : Holding(q)' => Holding(q)
    BY <1>1, <2>1 DEF Holding, Acquiring
  <2>4. \A q \in Proc : pc'[q] = "unlinkOwn" => q = p \/ pc[q] = "unlinkOwn"
    BY <2>1
  <2> QED
    BY <1>0, <2>2, <2>3, <2>4, LockStepKeeps DEF HoldInv, CalmInv, HolderIsKnown, Holding
<1>2. CASE Vanish(p, "idle") /\ UNCHANGED pidFile
  BY <1>0, <1>2, VanishKeeps
<1>3. CASE UnlinkOwn(p)
  <2>1. /\ pc' = [pc EXCEPT ![p] = "rmdirOwn"] /\ pc[p] = "unlinkOwn"
        /\ pc \in [Proc -> {"idle", "running", "refused"} \cup Transit]
        /\ pidFile' = NoPid /\ pid' = pid
    BY <1>3 DEF UnlinkOwn, Goto, HoldInv, TreeInv, TreeTypeOK
  <2>2. Named' = {}
    BY <2>1 DEF Named, Alive
  <2>3. \A q \in Named : q = p
    BY <2>1 DEF HoldInv, CalmInv, HolderIsKnown, Named, LockHeldRight, DistinctPids
  <2>4. \A q \in Proc : Holding(q)' => Awaited(q)
    BY <2>1, <2>3 DEF HoldInv, CalmInv, HolderIsKnown, Holding, Acquiring
  <2>5. \A q \in Proc : pc'[q] # "unlinkOwn"
    BY <2>1, <2>3 DEF HoldInv, CalmInv, HolderIsKnown
  <2> QED BY <1>0, <2>2, <2>4, <2>5, LockStepKeeps
<1> QED BY <1>1, <1>2, <1>3 DEF Cleanup, ReadOwner, RmdirOwn

\* The stages of an autopilot come and go without the lock.
LEMMA LoopCalm ==
  ASSUME HoldInv, calm, NEW p \in Proc,
         \/ Arm(p) \/ Turn(p) \/ StartStage(p) \/ StartTool(p) \/ ToolEnds(p)
         \/ StageEnds(p) \/ LowMemory(p)
  PROVE  OneCommand' /\ HolderIsKnown' /\ WakeLockHeld'
<1>1. ASSUME UNCHANGED <<pc, pid, pidFile, cmd, stop>> PROVE OneCommand' /\ HolderIsKnown'
  <2>1. Named' = Named /\ \A q \in Proc : Holding(q)' <=> Holding(q)
    BY <1>1 DEF Named, Alive, Holding
  <2> QED BY <1>1, <2>1, LockStepKeeps DEF HoldInv, CalmInv, HolderIsKnown, Holding
<1>2. CASE Arm(p)
  BY <1>1, <1>2 DEF Arm, lock, people, WakeLockHeld
<1>3. CASE Turn(p) \/ StageEnds(p)
  <2>1. UNCHANGED <<pc, pid, pidFile, cmd, stop, wake>>
    BY <1>3 DEF Turn, StageEnds, lock, marks, people
  <2>2. \A q \in Proc : at'[q] # "off" => at[q] # "off"
    BY <1>3 DEF Turn, StageEnds, HoldInv, TreeInv, TreeTypeOK
  <2> QED BY <1>1, <2>1, <2>2 DEF HoldInv, CalmInv, WakeLockHeld
<1>4. CASE StartStage(p)
  BY <1>1, <1>4 DEF StartStage, lock, people, WakeLockHeld
<1>5. CASE StartTool(p) \/ ToolEnds(p)
  <2>1. UNCHANGED <<pc, pid, pidFile, cmd, stop, at, wake>>
    BY <1>5 DEF StartTool, ToolEnds, lock, marks, people
  <2> QED BY <1>1, <2>1 DEF HoldInv, CalmInv, WakeLockHeld
<1>6. CASE LowMemory(p)
  <2>1. Vanish(p, "idle") /\ UNCHANGED <<cmd, stop, wake, pidFile>>
    BY <1>6 DEF LowMemory, Ends, marks, people
  <2>2. \A q \in Proc : at'[q] # "off" => at[q] # "off"
    BY <1>6 DEF LowMemory, Ends, HoldInv, TreeInv, TreeTypeOK
  <2>3. OneCommand' /\ HolderIsKnown'
    BY <2>1, VanishKeeps
  <2> QED BY <2>1, <2>2, <2>3 DEF HoldInv, CalmInv, WakeLockHeld
<1> QED BY <1>2, <1>3, <1>4, <1>5, <1>6

LEMMA AutopilotCalm ==
  ASSUME HoldInv, calm, NEW p \in Proc,
         AutopilotStep(p) \/ GiveUp(p) \/ StartStage(p) \/ StartTool(p) \/ ToolEnds(p)
           \/ StageEnds(p) \/ LowMemory(p)
  PROVE  OneCommand' /\ HolderIsKnown' /\ WakeLockHeld'
<1>1. CASE AcquireStep(p) \/ Cleanup(p)
  <2>1. UNCHANGED <<at, stop, wake>>
    BY <1>1 DEF AcquireStep, Cleanup, marks, tree
  <2>2. OneCommand' /\ HolderIsKnown'
    BY <1>1, AcquireCalm, CleanupCalm
  <2> QED BY <2>1, <2>2 DEF HoldInv, CalmInv, WakeLockHeld
<1>2. CASE BeginCleanup(p)
  BY <1>2, BeginCleanupCalm
<1> QED BY <1>1, <1>2, LoopCalm DEF AutopilotStep, SeeStop, Obey, GiveUp

\* A commander that does not wait for a start moves on without the lock.
LEMMA MovingOnCalm ==
  ASSUME HoldInv, calm, NEW w \in Commanders, ~At(w, "idle"), ~At(w, "await"),
         UNCHANGED <<pc, pid, pidFile>>,
         cmd' \in [Commanders -> Record], \A v \in Commanders \ {w} : cmd'[v] = cmd[v],
         ~At(w, "await")',
         cmd'[w].step \in {"unmark", "wake", "launch"} => Named = {},
         cmd'[w].step \in Signalling \cup {"look", "wait", "release"} => stop'
  PROVE  OneCommand' /\ HolderIsKnown'
<1>1. \A v \in Commanders \ {w} : At(v, "idle") /\ At(v, "idle")'
  BY DEF HoldInv, CalmInv, OneCommand, At, Commanders
<1>2. Named' = Named /\ \A q \in Proc : Holding(q)' <=> Holding(q)
  BY DEF Named, Alive, Holding
<1>3. \A q \in Proc : ~Awaited(q)
  BY <1>1 DEF Awaited, At
<1>4. HolderIsKnown'
  BY <1>2, <1>3 DEF HoldInv, CalmInv, HolderIsKnown, Holding
<1>5. OneCommand'
  BY <1>1, <1>2 DEF OneCommand, At, Commanders, Signalling
<1> QED BY <1>4, <1>5

\* Nobody runs while a start finds no live lock.
LEMMA NobodyRuns ==
  ASSUME HoldInv, calm, NEW w \in Commanders, cmd[w].step \in {"unmark", "wake", "launch"}
  PROVE  /\ \A q \in Proc : ~Holding(q) /\ pc[q] # "unlinkOwn" /\ at[q] = "off"
         /\ \A v \in Commanders \ {w} : At(v, "idle")
<1>1. \A v \in Commanders \ {w} : At(v, "idle")
  BY DEF HoldInv, CalmInv, OneCommand, At, Commanders
<1>2. \A q \in Proc : ~Awaited(q) /\ q \notin Named
  BY <1>1 DEF Awaited, At, HoldInv, CalmInv, OneCommand
<1>3. \A q \in Proc : ~Holding(q) /\ pc[q] # "unlinkOwn"
  BY <1>2 DEF HoldInv, CalmInv, HolderIsKnown, Holding
<1> QED BY <1>1, <1>3 DEF Holding, HoldInv, TreeInv, LoopIsArmed

LEMMA StopCalm ==
  ASSUME HoldInv, calm, NEW w \in Commanders,
         \/ Touch(w) \/ Look(w) \/ SignalLeaf(w) \/ SignalShell(w)
         \/ Gone(w) \/ Insist(w) \/ Release(w)
  PROVE  OneCommand' /\ HolderIsKnown' /\ WakeLockHeld'
<1>1. /\ UNCHANGED <<pc, pid, pidFile, at>>
      /\ cmd[w].step \in Signalling \cup {"touch", "look", "wait", "release"}
      /\ cmd[w].step # "touch" => UNCHANGED stop
      /\ cmd[w].step = "touch" => stop'
  BY DEF Touch, Look, SignalLeaf, SignalShell, Gone, Insist, Release, lock, marks, tree, At,
         Signalling
<1>2. /\ stop'
      /\ ~At(w, "idle") /\ ~At(w, "await")
  BY <1>1 DEF At, Signalling, HoldInv, CalmInv, OneCommand
<1>3. cmd \in [Commanders -> Record]
  BY DEF HoldInv, TreeInv, TreeTypeOK, Record
<1>4. \/ \E step \in Steps \ {"await", "unmark", "wake", "launch"} : Then(w, step)
      \/ \E p \in Proc, signal \in {"TERM", "KILL"} : Aim(w, p, signal, "leaf")
  BY <1>3 DEF Touch, Look, SignalLeaf, SignalShell, Gone, Insist, Release, List, Named,
              Steps, Signalling, Record
<1>5. /\ cmd' \in [Commanders -> Record]
      /\ \A v \in Commanders \ {w} : cmd'[v] = cmd[v]
      /\ cmd'[w].step \notin {"await", "unmark", "wake", "launch"}
  BY <1>3, <1>4, Moves, Aims DEF Steps, Signalling
<1>6. OneCommand' /\ HolderIsKnown'
  BY <1>1, <1>2, <1>5, MovingOnCalm DEF At
<1> QED BY <1>2, <1>6 DEF WakeLockHeld

LEMMA SignalSelfCalm ==
  ASSUME HoldInv, calm, NEW w \in Commanders, SignalSelf(w)
  PROVE  OneCommand' /\ HolderIsKnown' /\ WakeLockHeld'
<1>1. /\ At(w, "self") /\ UNCHANGED <<stop, pidFile>>
      /\ Then(w, IF cmd[w].signal = "TERM" THEN "wait" ELSE "release")
      /\ cmd \in [Commanders -> Record]
  BY DEF SignalSelf, marks, lock, Ends, HoldInv, TreeInv, TreeTypeOK, Record
<1>2. stop
  BY <1>1 DEF HoldInv, CalmInv, OneCommand, At, Signalling
<1>3. /\ cmd' \in [Commanders -> Record]
      /\ \A v \in Commanders \ {w} : cmd'[v] = cmd[v]
      /\ cmd'[w].step \in {"wait", "release"}
  BY <1>1, Moves DEF Steps
<1>4. \A v \in Commanders \ {w} : At(v, "idle") /\ At(v, "idle")'
  BY <1>1, <1>3 DEF HoldInv, CalmInv, OneCommand, At, Commanders
<1>5. \A q \in Proc : ~Awaited(q)
  BY <1>1, <1>4 DEF Awaited, At
<1>6. \A q \in Proc : Holding(q)' => Holding(q) /\ (q \in Named => q \in Named')
  <2>1. CASE UNCHANGED lock
    BY <2>1 DEF lock, Holding, Named, Alive
  <2>2. CASE \E p \in cmd[w].target : Ends(p)
    <3>1. PICK p \in Proc : Ends(p)
      BY <2>2 DEF HoldInv, TreeInv, TreeTypeOK
    <3>2. /\ pc'[p] = "idle" /\ \A q \in Proc \ {p} : pc'[q] = pc[q] /\ pid'[q] = pid[q]
      BY <3>1 DEF Ends, Vanish, Goto, HoldInv, TreeInv, TreeTypeOK
    <3> QED BY <1>1, <3>2 DEF Holding, Acquiring, Named, Alive
  <2> QED BY <2>1, <2>2 DEF SignalSelf
<1>7. \A q \in Proc : pc'[q] = "unlinkOwn" => pc[q] = "unlinkOwn" /\ (q \in Named => q \in Named')
  <2>1. CASE UNCHANGED lock
    BY <2>1 DEF lock, Named, Alive
  <2>2. CASE \E p \in cmd[w].target : Ends(p)
    <3>1. PICK p \in Proc : Ends(p)
      BY <2>2 DEF HoldInv, TreeInv, TreeTypeOK
    <3>2. /\ pc'[p] = "idle" /\ \A q \in Proc \ {p} : pc'[q] = pc[q] /\ pid'[q] = pid[q]
      BY <3>1 DEF Ends, Vanish, Goto, HoldInv, TreeInv, TreeTypeOK
    <3> QED BY <1>1, <3>2 DEF Named, Alive
  <2> QED BY <2>1, <2>2 DEF SignalSelf
<1>8. HolderIsKnown'
  BY <1>5, <1>6, <1>7 DEF HoldInv, CalmInv, HolderIsKnown, Holding
<1>9. OneCommand'
  BY <1>1, <1>2, <1>3, <1>4 DEF OneCommand, At, Commanders, Signalling
<1> QED BY <1>1, <1>2, <1>8, <1>9 DEF WakeLockHeld

LEMMA LaunchCalm ==
  ASSUME HoldInv, calm, NEW w \in Commanders, Launch(w)
  PROVE  OneCommand' /\ HolderIsKnown' /\ WakeLockHeld'
<1>1. PICK p \in FreeProcs(w), n \in Pid : Start(p, n) /\ Aim(w, p, "TERM", "await")
  BY DEF Launch
<1>2. /\ p \in Proc /\ cmd' \in [Commanders -> Record]
      /\ cmd'[w].step = "await" /\ cmd'[w].target = {p}
      /\ \A v \in Commanders \ {w} : cmd'[v] = cmd[v]
  BY <1>1, Aims DEF FreeProcs, HoldInv, TreeInv, TreeTypeOK, Record, Steps
<1>3. /\ \A q \in Proc : ~Holding(q) /\ pc[q] # "unlinkOwn" /\ at[q] = "off"
      /\ \A v \in Commanders \ {w} : At(v, "idle")
      /\ Named = {}
  BY NobodyRuns DEF Launch, At, HoldInv, CalmInv, OneCommand
<1>4. /\ UNCHANGED <<at, pidFile>>
      /\ \A q \in Proc \ {p} : pc'[q] = pc[q] /\ pid'[q] = pid[q]
      /\ pc'[p] = "mkdir"
  BY <1>1, <1>2 DEF Launch, Start, Goto, tree, HoldInv, TreeInv, TreeTypeOK
<1>5. \A q \in Named' : q = p
  BY <1>3, <1>4 DEF Named, Alive
<1>6. Awaited(p)'
  BY <1>2 DEF Awaited, At
<1>7. HolderIsKnown'
  BY <1>3, <1>4, <1>6 DEF HolderIsKnown, Holding
<1>8. OneCommand'
  BY <1>2, <1>3, <1>5 DEF OneCommand, At, Commanders, Signalling, Named
<1> QED BY <1>3, <1>4, <1>7, <1>8 DEF WakeLockHeld

LEMMA AwaitCalm ==
  ASSUME HoldInv, calm', NEW w \in Commanders, Await(w)
  PROVE  OneCommand' /\ HolderIsKnown' /\ WakeLockHeld'
<1>1. /\ calm /\ At(w, "await") /\ Then(w, "idle")
      /\ Named # {} \/ \A p \in cmd[w].target : ~Alive(p)
      /\ UNCHANGED <<pc, pid, pidFile, at, wake, stop>>
      /\ cmd \in [Commanders -> Record]
  BY DEF Await, lock, marks, tree, HoldInv, TreeInv, TreeTypeOK, Record
<1>2. /\ cmd' \in [Commanders -> Record] /\ cmd'[w].step = "idle"
      /\ \A v \in Commanders \ {w} : cmd'[v] = cmd[v]
  BY <1>1, Moves DEF Steps
<1>3. \A v \in Commanders \ {w} : At(v, "idle") /\ At(v, "idle")'
  BY <1>1, <1>2 DEF HoldInv, CalmInv, OneCommand, At, Commanders
<1>4. PICK p \in Proc : cmd[w].target = {p} /\ Named \subseteq {p}
  BY <1>1 DEF HoldInv, CalmInv, OneCommand
<1>5. \A q \in Proc : Awaited(q) => q = p
  BY <1>3, <1>4 DEF Awaited, At
<1>6. Holding(p) => p \in Named
  BY <1>1, <1>4 DEF Holding, HoldInv, TreeInv, LoopIsArmed, Transit, Named
<1>7. Named' = Named /\ \A q \in Proc : Holding(q)' <=> Holding(q)
  BY <1>1 DEF Named, Alive, Holding
<1>8. HolderIsKnown'
  BY <1>1, <1>5, <1>6, <1>7 DEF HoldInv, CalmInv, HolderIsKnown, Holding
<1>9. OneCommand'
  BY <1>2, <1>3 DEF OneCommand, At, Commanders, Signalling
<1> QED BY <1>1, <1>8, <1>9 DEF HoldInv, CalmInv, WakeLockHeld

LEMMA StartCalm ==
  ASSUME HoldInv, calm, NEW w \in Commanders, Check(w) \/ Unmark(w) \/ TakeWake(w)
  PROVE  OneCommand' /\ HolderIsKnown' /\ WakeLockHeld'
<1>1. /\ UNCHANGED <<pc, pid, pidFile, at>> /\ ~At(w, "idle") /\ ~At(w, "await")
      /\ cmd \in [Commanders -> Record]
  BY DEF Check, Unmark, TakeWake, lock, tree, At, HoldInv, TreeInv, TreeTypeOK, Record
<1>2. PICK step \in {"unmark", "idle", "wake", "launch"} :
          Then(w, step) /\ (step # "idle" => Named = {})
  BY DEF Check, Unmark, TakeWake, At, HoldInv, CalmInv, OneCommand
<1>3. /\ cmd' \in [Commanders -> Record] /\ cmd'[w].step = step
      /\ \A v \in Commanders \ {w} : cmd'[v] = cmd[v]
  BY <1>1, <1>2, Moves DEF Steps
<1>4. OneCommand' /\ HolderIsKnown'
  BY <1>1, <1>2, <1>3, MovingOnCalm DEF At, Signalling
<1>5. CASE Check(w)
  BY <1>1, <1>4, <1>5 DEF Check, marks, HoldInv, CalmInv, WakeLockHeld
<1>6. CASE Unmark(w)
  BY <1>1, <1>4, <1>6, NobodyRuns DEF Unmark, At, WakeLockHeld
<1>7. CASE TakeWake(w)
  BY <1>4, <1>7 DEF TakeWake, WakeLockHeld
<1> QED BY <1>5, <1>6, <1>7

LEMMA CommandCalm ==
  ASSUME HoldInv, calm', NEW goal \in {"start", "stop", "restart"}, Command(goal)
  PROVE  OneCommand' /\ HolderIsKnown' /\ WakeLockHeld'
<1>1. /\ calm /\ At("person", "idle") /\ At("boot", "idle")
      /\ UNCHANGED <<pc, pid, pidFile, at, wake, stop>>
      /\ cmd'["boot"] = cmd["boot"] /\ cmd'["person"].step \in {"check", "touch"}
  BY DEF Command, Begin, lock, marks, tree, HoldInv, TreeInv, TreeTypeOK, Commanders
<1>2. \A q \in Proc : ~Awaited(q)
  BY <1>1 DEF Awaited, At, Commanders
<1>3. Named' = Named /\ \A q \in Proc : Holding(q)' <=> Holding(q)
  BY <1>1 DEF Named, Alive, Holding
<1>4. HolderIsKnown'
  BY <1>1, <1>2, <1>3 DEF HoldInv, CalmInv, HolderIsKnown, Holding
<1>5. OneCommand'
  BY <1>1 DEF OneCommand, At, Commanders, Signalling
<1> QED BY <1>1, <1>4, <1>5 DEF HoldInv, CalmInv, WakeLockHeld

LEMMA RebootCalm ==
  ASSUME Reboot
  PROVE  OneCommand' /\ HolderIsKnown' /\ WakeLockHeld'
<1>1. /\ \A q \in Proc : pc'[q] = "idle" /\ pid'[q] = NoPid /\ at'[q] = "off"
      /\ cmd'["person"].step = "idle" /\ cmd'["boot"].step = "check"
  BY DEF Reboot, Idle, Begin
<1> QED
  BY <1>1 DEF OneCommand, HolderIsKnown, WakeLockHeld, At, Commanders, Signalling, Acquiring

LEMMA NextHoldInv == HoldInv /\ [ManagerNext]_allVars => HoldInv'
<1> SUFFICES ASSUME HoldInv, [ManagerNext]_allVars PROVE HoldInv'
  OBVIOUS
<1>1. TreeInv' /\ LockHeldRight'
  BY NextKeeps, NextHolds DEF HoldInv
<1> SUFFICES ASSUME calm' PROVE OneCommand' /\ HolderIsKnown' /\ WakeLockHeld'
  BY <1>1 DEF HoldInv, CalmInv
<1>2. calm
  <2>1. ASSUME UNCHANGED calm PROVE calm
    BY <2>1
  <2> QED
    BY <2>1
    DEF ManagerNext, AutopilotStep, AcquireStep, Arm, Cleanup, SeeStop, Obey, GiveUp, Turn,
        BeginCleanup, StartStage, StartTool, ToolEnds, StageEnds, LowMemory, people,
        ManagerStep, Touch, Look, SignalLeaf, SignalShell, SignalSelf, Gone, Insist, Release,
        Check, Unmark, TakeWake, Launch, Await, Command, Reboot, allVars
<1>3. ASSUME NEW p \in Proc,
             AutopilotStep(p) \/ GiveUp(p) \/ StartStage(p) \/ StartTool(p) \/ ToolEnds(p)
               \/ StageEnds(p) \/ LowMemory(p)
      PROVE  OneCommand' /\ HolderIsKnown' /\ WakeLockHeld'
  BY <1>2, <1>3, AutopilotCalm
<1>4. ASSUME NEW w \in Commanders, ManagerStep(w)
      PROVE  OneCommand' /\ HolderIsKnown' /\ WakeLockHeld'
  BY <1>2, <1>4, StopCalm, SignalSelfCalm, LaunchCalm, AwaitCalm, StartCalm DEF ManagerStep
<1>5. ASSUME NEW goal \in {"start", "stop", "restart"}, Command(goal)
      PROVE  OneCommand' /\ HolderIsKnown' /\ WakeLockHeld'
  BY <1>5, CommandCalm
<1>6. CASE Reboot
  BY <1>6, RebootCalm
<1>7. CASE UNCHANGED allVars
  BY <1>2, <1>7
  DEF allVars, lock, marks, tree, people, HoldInv, CalmInv, OneCommand, HolderIsKnown,
      WakeLockHeld, Named, Awaited, Alive, At
<1> QED BY <1>3, <1>4, <1>5, <1>6, <1>7 DEF ManagerNext

LEMMA HoldInvariant == ManagerSpec => []HoldInv
  BY InitHold, NextHoldInv, PTL DEF ManagerSpec

\* Autopilots whose exit trap was not cut short leave no lock behind, however
\* many start, exit and are refused at once and whatever pids they get
\* (acquire_lock and cleanup, run_s25u_autopilot.sh 164-220).
THEOREM NoLockIsLeft == ManagerSpec => []NoLockLeft
<1>1. HoldInv => NoLockLeft
  <2> SUFFICES ASSUME HoldInv, ~cut, \A p \in Proc : ~Alive(p), lockDir PROVE FALSE
    BY DEF NoLockLeft, Ended
  <2>1. \A p \in Proc : pc[p] \notin Transit \cup {"running"}
    BY DEF HoldInv, TreeInv, LoopIsArmed
  <2>2. LockIsOwed
    BY DEF HoldInv, LockHeldRight
  <2> QED BY <2>1, <2>2 DEF LockIsOwed, Transit, Acquiring, Exiting
<1> QED BY <1>1, HoldInvariant, PTL

\* For any number of autopilots: while commands come one at a time and starts
\* are answered, at most one autopilot takes the lock, recovers it or works on
\* the checkout (acquire_lock, run_s25u_autopilot.sh 164-196; start_autopilot,
\* manage_s25u_autopilot.sh 316-350), kills, reboots and reused pids included.
THEOREM OneAtATime == ManagerSpec => []OneAutopilot
<1>1. HoldInv => OneAutopilot
  BY OneHolder DEF OneAutopilot
<1> QED BY <1>1, HoldInvariant, PTL

\* While commands come one at a time and starts are answered, an autopilot that
\* is not to stop holds the wake lock that every start, stop and exit trap takes
\* and releases for all of them (cleanup, run_s25u_autopilot.sh 199-207;
\* release_wake_lock, manage_s25u_autopilot.sh).
THEOREM WakeLockStays == ManagerSpec => []WakeLockHeld
<1>1. HoldInv => WakeLockHeld
  BY DEF HoldInv, CalmInv, WakeLockHeld
<1> QED BY <1>1, HoldInvariant, PTL
=============================================================================
