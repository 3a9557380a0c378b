------------------------------- MODULE Manager -------------------------------
(***************************************************************************)
(* tools/manage_s25u_autopilot.sh: start, stop and restart of the autopilot *)
(* by a person, and the start by the boot launcher, beside the autopilots   *)
(* they start (run_s25u_autopilot.sh 164-262 and the loop 580-632).         *)
(*                                                                         *)
(* An autopilot waits for its stage, a shell with one tool at a time.  A    *)
(* stop lists this tree, then signals its processes one after the other;    *)
(* what begins in between is not on the list.  A TERM makes the autopilot   *)
(* exit once its foreground command has ended; before the traps are set and *)
(* during the exit trap it ends the shell on the spot.                      *)
(***************************************************************************)
EXTENDS AutopilotLock, Naturals

CONSTANT MaxCommands      \* bound: commands of the person

ASSUME MaxCommandsAssumption == MaxCommands \in Nat

Commanders == {"person", "boot"}

VARIABLES stop,       \* does $state_dir/STOP exist?
          wake,       \* is the wake lock of Termux held?
          wakeFile,   \* does wake_lock_owned exist?
          at,         \* where each autopilot is in its loop; "off": no traps yet
          asked,      \* autopilots with a TERM that the trap has not served
          shell,      \* the stage of each autopilot: "none", "listed", "unlisted"
          leaf,       \* the tool of that stage, likewise
          cmd,        \* what each commander is doing
          commands,   \* commands the person has given
          rebooted,   \* the phone was restarted
          calm,       \* history: no two commands overlapped, no start gave up
          taken,      \* history: a start removed STOP since the last stop
          lost,       \* history: autopilots killed by Android
          cut         \* history: some autopilot ended without its whole exit trap

lock == <<lockDir, pidFile, pc, pid, seen, foreign>>
marks == <<stop, wake, wakeFile>>
tree == <<at, asked, shell, leaf>>
people == <<cmd, commands, rebooted, calm, taken>>
allVars == <<lock, marks, tree, people, lost, cut>>

Begin(goal, step) == [step |-> step, goal |-> goal, target |-> {}, signal |-> "TERM"]
Idle == Begin("none", "idle")

ManagerInit ==
    /\ Init
    /\ stop = FALSE /\ wake = FALSE /\ wakeFile = FALSE
    /\ at = [p \in Proc |-> "off"] /\ asked = {}
    /\ shell = [p \in Proc |-> "none"] /\ leaf = [p \in Proc |-> "none"]
    /\ cmd = [w \in Commanders |-> Idle] /\ commands = 0 /\ rebooted = FALSE
    /\ calm = TRUE /\ taken = FALSE /\ lost = {} /\ cut = FALSE

-----------------------------------------------------------------------------
(* An autopilot and its stage                                               *)

Alive(p) == pid[p] # NoPid

AcquireStep(p) ==
    /\ \/ MakeDir(p) \/ WritePid(p) \/ ReadPid(p) \/ ProbeLive(p) \/ ProbeStale(p)
       \/ UnlinkPid(p) \/ RemoveDir(p) \/ RemakeDir(p) \/ RewritePid(p)
    /\ UNCHANGED <<marks, tree, people, lost, cut>>

\* The traps, then the wake lock
Arm(p) ==
    /\ pc[p] = "running" /\ at[p] = "off"
    /\ at' = [at EXCEPT ![p] = "checks"] /\ wake' = TRUE
    /\ UNCHANGED <<lock, stop, wakeFile, asked, shell, leaf, people, lost, cut>>

\* The exit trap gives the wake lock back before it looks at the lock.
BeginCleanup(p) ==
    /\ BeginExit(p) /\ wake' = FALSE
    /\ at' = [at EXCEPT ![p] = "off"] /\ asked' = asked \ {p}
    /\ UNCHANGED <<stop, wakeFile, shell, leaf, people, lost, cut>>

\* Planted fault: the exit trap gives the wake lock back at its end.
CleanupUnlocksLast(p) ==
    /\ ReadOwner(p) \/ UnlinkOwn(p) \/ RmdirOwn(p)
    /\ wake' = (wake /\ pc'[p] # "idle")
    /\ UNCHANGED <<stop, wakeFile, tree, people, lost, cut>>

Cleanup(p) ==
    /\ ReadOwner(p) \/ UnlinkOwn(p) \/ RmdirOwn(p)
    /\ UNCHANGED <<marks, tree, people, lost, cut>>

Free(p) == pc[p] = "running" /\ shell[p] = "none"     \* no foreground command

SeeStop(p) == Free(p) /\ at[p] = "top" /\ stop /\ BeginCleanup(p)
Obey(p) == Free(p) /\ p \in asked /\ BeginCleanup(p)

\* The checks before the loop: the source ROM, the branch, the remote
GiveUp(p) == Free(p) /\ at[p] = "checks" /\ BeginCleanup(p)

Turn(p) ==
    /\ Free(p) /\ p \notin asked
    /\ \/ at[p] = "checks" /\ at' = [at EXCEPT ![p] = "top"]
       \/ at[p] = "top" /\ ~stop /\ at' = [at EXCEPT ![p] = "work"]
       \/ at[p] = "work" /\ at' = [at EXCEPT ![p] = "top"]
    /\ UNCHANGED <<lock, marks, asked, shell, leaf, people, lost, cut>>

\* The stage takes the wake lock too, and marks it.
StartStage(p) ==
    /\ Free(p) /\ at[p] = "work" /\ p \notin asked
    /\ shell' = [shell EXCEPT ![p] = "unlisted"]
    /\ wake' = TRUE /\ wakeFile' = TRUE
    /\ UNCHANGED <<lock, stop, at, asked, leaf, people, lost, cut>>

StartTool(p) ==
    /\ shell[p] # "none" /\ leaf[p] = "none"
    /\ leaf' = [leaf EXCEPT ![p] = "unlisted"]
    /\ UNCHANGED <<lock, marks, at, asked, shell, people, lost, cut>>

ToolEnds(p) ==
    /\ leaf[p] # "none" /\ leaf' = [leaf EXCEPT ![p] = "none"]
    /\ UNCHANGED <<lock, marks, at, asked, shell, people, lost, cut>>

\* One stage in a cycle; without its autopilot it ends all the same.
StageEnds(p) ==
    /\ shell[p] # "none" /\ leaf[p] = "none"
    /\ shell' = [shell EXCEPT ![p] = "none"]
    /\ at' = [at EXCEPT ![p] = IF @ = "work" THEN "top" ELSE @]
    /\ UNCHANGED <<lock, marks, asked, leaf, people, lost, cut>>

\* The shell of the autopilot ends on the spot; what it ran goes on.
Ends(p) ==
    /\ Vanish(p, "idle")
    /\ at' = [at EXCEPT ![p] = "off"] /\ asked' = asked \ {p}
    /\ cut' = TRUE
    /\ UNCHANGED <<lockDir, pidFile, foreign>>

LowMemory(p) ==
    /\ Kills /\ Alive(p) /\ Ends(p) /\ lost' = lost \cup {p}
    /\ UNCHANGED <<marks, shell, leaf, people>>

\* All processes are gone, the files stay, and the boot launcher starts.
Reboot ==
    /\ ~rebooted /\ rebooted' = TRUE
    /\ pc' = [p \in Proc |-> "idle"] /\ pid' = [p \in Proc |-> NoPid]
    /\ seen' = [p \in Proc |-> NoPid]
    /\ at' = [p \in Proc |-> "off"] /\ asked' = {} /\ wake' = FALSE
    /\ shell' = [p \in Proc |-> "none"] /\ leaf' = [p \in Proc |-> "none"]
    /\ cmd' = [person |-> Idle, boot |-> Begin("start", "check")]
    /\ lost' = {} /\ cut' = TRUE
    /\ UNCHANGED <<lockDir, pidFile, foreign, stop, wakeFile, commands, calm, taken>>

-----------------------------------------------------------------------------
(* stop_autopilot                                                           *)

\* read_live_pid: a live autopilot that the pid file names
Named == {p \in Proc : Alive(p) /\ pid[p] = pidFile}

At(w, step) == cmd[w].step = step
Then(w, step) == cmd' = [cmd EXCEPT ![w].step = step]
Aim(w, p, signal, step) ==
    cmd' = [cmd EXCEPT ![w] = [step |-> step, goal |-> cmd[w].goal,
                               target |-> {p}, signal |-> signal]]

Command(goal) ==
    /\ At("person", "idle") /\ commands < MaxCommands
    /\ commands' = commands + 1
    /\ cmd' = [cmd EXCEPT !["person"] =
                  Begin(goal, IF goal = "start" THEN "check" ELSE "touch")]
    /\ calm' = (calm /\ At("boot", "idle"))
    /\ UNCHANGED <<lock, marks, tree, rebooted, taken, lost, cut>>

\* Planted fault: stop only signals what it finds.
TouchForgotten(w) ==
    /\ At(w, "touch") /\ Then(w, "look")
    /\ taken' = FALSE
    /\ UNCHANGED <<lock, marks, tree, commands, rebooted, calm, lost, cut>>

Touch(w) ==
    /\ At(w, "touch") /\ Then(w, "look")
    /\ stop' = TRUE /\ taken' = FALSE
    /\ UNCHANGED <<lock, wake, wakeFile, tree, commands, rebooted, calm, lost, cut>>

Listed(of, p) == [of EXCEPT ![p] = IF @ = "none" THEN "none" ELSE "listed"]

\* collect_owned_descendants, for a signal to all of them
List(w, p, signal) ==
    /\ shell' = Listed(shell, p) /\ leaf' = Listed(leaf, p)
    /\ Aim(w, p, signal, "leaf")

Look(w) ==
    /\ At(w, "look")
    /\ IF Named = {} THEN Then(w, "release") /\ UNCHANGED <<shell, leaf>>
       ELSE \E p \in Named : List(w, p, "TERM")
    /\ UNCHANGED <<lock, marks, at, asked, commands, rebooted, calm, taken, lost, cut>>

SignalLeaf(w) ==
    /\ At(w, "leaf") /\ Then(w, "shell")
    /\ leaf' = [p \in Proc |-> IF p \in cmd[w].target /\ leaf[p] = "listed" THEN "none" ELSE leaf[p]]
    /\ UNCHANGED <<lock, marks, at, asked, shell, commands, rebooted, calm, taken, lost, cut>>

\* Planted fault: only the tools are signalled, not the shell that runs them.
SignalShellNot(w) ==
    /\ At(w, "shell") /\ Then(w, "self")
    /\ UNCHANGED <<lock, marks, tree, commands, rebooted, calm, taken, lost, cut>>

\* timeout passes a TERM on to its group, if it has not ended with its child.
SignalShell(w) ==
    /\ At(w, "shell") /\ Then(w, "self")
    /\ LET hit == {p \in cmd[w].target : shell[p] = "listed"}
       IN  /\ shell' = [p \in Proc |-> IF p \in hit THEN "none" ELSE shell[p]]
           /\ \/ UNCHANGED leaf
              \/ leaf' = [p \in Proc |-> IF p \in hit THEN "none" ELSE leaf[p]]
    /\ UNCHANGED <<lock, marks, at, asked, commands, rebooted, calm, taken, lost, cut>>

\* The autopilot last: asked to exit if its traps are set, else gone.
SignalSelf(w) ==
    /\ At(w, "self")
    /\ Then(w, IF cmd[w].signal = "TERM" THEN "wait" ELSE "release")
    /\ \E p \in cmd[w].target :
          \/ ~Alive(p) /\ UNCHANGED <<lock, at, asked, cut>>
          \/ /\ Alive(p) /\ cmd[w].signal = "TERM" /\ at[p] # "off"
             /\ asked' = asked \cup {p} /\ UNCHANGED <<lock, at, cut>>
          \/ Alive(p) /\ (cmd[w].signal = "KILL" \/ at[p] = "off") /\ Ends(p)
    /\ UNCHANGED <<marks, shell, leaf, commands, rebooted, calm, taken, lost>>

Gone(w) ==
    /\ At(w, "wait") /\ \A p \in cmd[w].target : ~Alive(p)
    /\ Then(w, "release")
    /\ UNCHANGED <<lock, marks, tree, commands, rebooted, calm, taken, lost, cut>>

\* After ten seconds: KILL, if the pid file still names a live autopilot
Insist(w) ==
    /\ At(w, "wait")
    /\ \E p \in cmd[w].target :
          /\ Alive(p)
          /\ IF Named = {} THEN Then(w, "release") /\ UNCHANGED <<shell, leaf>>
             ELSE List(w, p, "KILL")
    /\ UNCHANGED <<lock, marks, at, asked, commands, rebooted, calm, taken, lost, cut>>

Release(w) ==
    /\ At(w, "release")
    /\ Then(w, IF cmd[w].goal = "restart" THEN "check" ELSE "idle")
    /\ wake' = (wake /\ ~wakeFile) /\ wakeFile' = FALSE
    /\ UNCHANGED <<lock, stop, tree, commands, rebooted, calm, taken, lost, cut>>

-----------------------------------------------------------------------------
(* start_autopilot                                                          *)

\* Planted fault: start does not ask whether an autopilot runs.
CheckForgotten(w) ==
    /\ At(w, "check") /\ Then(w, "unmark")
    /\ UNCHANGED <<lock, marks, tree, commands, rebooted, calm, taken, lost, cut>>

Check(w) ==
    /\ At(w, "check") /\ Then(w, IF Named = {} THEN "unmark" ELSE "idle")
    /\ UNCHANGED <<lock, marks, tree, commands, rebooted, calm, taken, lost, cut>>

Unmark(w) ==
    /\ At(w, "unmark") /\ Then(w, "wake")
    /\ stop' = FALSE /\ taken' = TRUE
    /\ UNCHANGED <<lock, wake, wakeFile, tree, commands, rebooted, calm, lost, cut>>

TakeWake(w) ==
    /\ At(w, "wake") /\ Then(w, "launch")
    /\ wake' = TRUE /\ wakeFile' = TRUE
    /\ UNCHANGED <<lock, stop, tree, commands, rebooted, calm, taken, lost, cut>>

\* Processes and pids are alike: which of the free ones is taken is immaterial.
FreeProcs(w) ==
    {p \in Proc : /\ pc[p] \in {"idle", "refused"} /\ shell[p] = "none" /\ leaf[p] = "none"
                  /\ \A v \in Commanders \ {w} : At(v, "idle") \/ p \notin cmd[v].target}

Launch(w) ==
    /\ At(w, "launch") /\ FreeProcs(w) # {} /\ \E n \in Pid : Fresh(n)
    /\ LET p == CHOOSE q \in FreeProcs(w) : TRUE
       IN  /\ Start(p, CHOOSE n \in Pid : Fresh(n))
           /\ Aim(w, p, "TERM", "await")
           /\ lost' = lost \ {p}
    /\ UNCHANGED <<marks, tree, commands, rebooted, calm, taken, cut>>

\* A live lock, or the end of the process that was started, is the answer;
\* after ten seconds without either the manager gives up.
Await(w) ==
    /\ At(w, "await") /\ Then(w, "idle")
    /\ calm' = (calm /\ (Named # {} \/ \A p \in cmd[w].target : ~Alive(p)))
    /\ UNCHANGED <<lock, marks, tree, commands, rebooted, taken, lost, cut>>

-----------------------------------------------------------------------------
AutopilotStep(p) ==
    \/ AcquireStep(p) \/ Arm(p) \/ Cleanup(p) \/ SeeStop(p) \/ Obey(p) \/ Turn(p)

ManagerStep(w) ==
    \/ Touch(w) \/ Look(w) \/ SignalLeaf(w) \/ SignalShell(w) \/ SignalSelf(w)
    \/ Gone(w) \/ Insist(w) \/ Release(w)
    \/ Check(w) \/ Unmark(w) \/ TakeWake(w) \/ Launch(w) \/ Await(w)

ManagerNext ==
    \/ \E p \in Proc : AutopilotStep(p) \/ GiveUp(p) \/ StartStage(p) \/ StartTool(p)
                         \/ ToolEnds(p) \/ StageEnds(p) \/ LowMemory(p)
    \/ \E w \in Commanders : ManagerStep(w)
    \/ \E goal \in {"start", "stop", "restart"} : Command(goal)
    \/ Reboot

\* The scripts go on, tools end, and a stage does not run for ever.
ManagerSpec ==
    /\ ManagerInit /\ [][ManagerNext]_allVars
    /\ \A p \in Proc : /\ WF_allVars(AutopilotStep(p))
                       /\ WF_allVars(ToolEnds(p)) /\ SF_allVars(StageEnds(p))
    /\ \A w \in Commanders : WF_allVars(ManagerStep(w))

-----------------------------------------------------------------------------
(* Properties *)

Ended == \A p \in Proc : ~Alive(p)

\* A stop that returned is followed by the end of every autopilot, also of one
\* that had not written its pid yet when the stop looked for it, unless a start
\* takes the marker away or the person gives another command ("Request a safe
\* stop", manage_s25u_autopilot.sh:23).
StopEndsAutopilot ==
    (At("person", "idle") /\ cmd["person"].goal = "stop")
        ~> (Ended \/ taken \/ ~At("person", "idle"))

\* Whatever a stop signals and when, no stage goes on without its autopilot,
\* unless Android killed that; a single tool started behind the list may
\* (stop_autopilot, 204-241).
StageEndsWithAutopilot ==
    \A p \in Proc : ~Alive(p) /\ p \notin lost => shell[p] = "none"

(* The strengthening that makes StageEndsWithAutopilot inductive. *)

Signalling == {"leaf", "shell", "self"}
Steps == {"idle", "touch", "look", "wait", "release", "check", "unmark", "wake",
          "launch", "await"} \cup Signalling

TreeTypeOK ==
    /\ pc \in [Proc -> {"idle", "running", "refused"} \cup Transit]
    /\ pid \in [Proc -> Pid \cup {NoPid}]
    /\ at \in [Proc -> {"off", "checks", "top", "work"}]
    /\ asked \in SUBSET Proc /\ lost \in SUBSET Proc
    /\ shell \in [Proc -> {"none", "listed", "unlisted"}]
    /\ leaf \in [Proc -> {"none", "listed", "unlisted"}]
    /\ cmd \in [Commanders -> [step : Steps, goal : {"none", "start", "stop", "restart"},
                              target : SUBSET Proc, signal : {"TERM", "KILL"}]]

\* Only an autopilot with its traps set is in the loop.
LoopIsArmed ==
    \A p \in Proc :
        /\ Alive(p) <=> pc[p] \in Transit \cup {"running"}
        /\ pc[p] # "running" => at[p] = "off"

\* Without traps, and in the exit trap, an autopilot has no stage.
UnarmedHasNoStage ==
    \A p \in Proc : Alive(p) /\ at[p] = "off" => shell[p] = "none"

\* A stop that has asked its target, and all the more one that kills it, has a
\* target that begins nothing any more.
Doomed(p) == ~Alive(p) \/ p \in asked \/ pc[p] \in Exiting

TargetIsDoomed ==
    \A w \in Commanders :
        cmd[w].step \in Signalling \cup {"wait"} =>
            \E p \in Proc :
                /\ cmd[w].target = {p}
                /\ cmd[w].step = "wait" \/ cmd[w].signal = "KILL" => Doomed(p)

\* It is killed after what the list has of its stage.
KilledStageIsListed ==
    \A w \in Commanders : \A p \in cmd[w].target :
        cmd[w].signal = "KILL" /\ Alive(p) =>
            /\ cmd[w].step \in {"leaf", "shell"} => shell[p] # "unlisted"
            /\ cmd[w].step = "self" => shell[p] = "none"

TreeInv ==
    /\ TreeTypeOK /\ LoopIsArmed /\ UnarmedHasNoStage
    /\ TargetIsDoomed /\ KilledStageIsListed
    /\ StageEndsWithAutopilot

\* While commands come one at a time and starts are answered, the manager never
\* starts an autopilot that contends for the lock with one that works, takes it
\* or recovers it, although starts, exits, kills and stale locks interleave:
\* what keeps the recovery of acquire_lock, which is not atomic, apart from
\* every owner ("do not compete with a live process", PROJECT_HANDOFF.md:62).
Holding(p) == pc[p] \in Acquiring \cup {"running"}

OneAutopilot ==
    calm => \A p, q \in Proc : Holding(p) /\ Holding(q) => p = q

\* While commands come one at a time and starts are answered, an autopilot that
\* is not to stop holds the wake lock, though exit traps, stops and starts all
\* take and release the same one (run_s25u_autopilot.sh:152 tells the user so).
WakeLockHeld ==
    calm /\ ~stop => \A p \in Proc : at[p] # "off" => wake

\* However starts, exits, stops and stages interleave, autopilots whose exit
\* trap was not cut short leave no lock behind (run_s25u_autopilot.sh 199-220).
NoLockLeft == ~cut /\ Ended => ~lockDir

(* The strengthening that makes the two inductive.  A lock directory always *)
(* has somebody who will fill or remove it; while commands come one at a    *)
(* time, whoever holds, takes or gives up the lock is the autopilot that    *)
(* the pid file names or the one a start waits for, never both.             *)

DistinctPids ==
    \A p, q \in Proc : p # q /\ Alive(p) => pid[p] # pid[q]

\* With a reused pid an autopilot can find itself named by a stale lock: it
\* takes that for another one and refuses.
NamedBeforeLock ==
    \A p \in Proc :
        pc[p] \in Acquiring /\ pidFile = pid[p] =>
            \/ pc[p] \in {"mkdir", "read"}
            \/ pc[p] = "probe" /\ seen[p] = pid[p]

LockIsOwed ==
    /\ pidFile # NoPid =>
          \E p \in Proc : pid[p] = pidFile /\ pc[p] \in {"running", "readOwner", "unlinkOwn"}
    /\ lockDir /\ pidFile = NoPid =>
          \E p \in Proc : pc[p] \in {"write", "rewrite", "rmdir", "rmdirOwn"}

Awaited(p) == \E w \in Commanders : At(w, "await") /\ cmd[w].target = {p}

OneCommand ==
    /\ At("person", "idle") \/ At("boot", "idle")
    /\ \A w \in Commanders :
          /\ cmd[w].step \in {"unmark", "wake", "launch"} => Named = {}
          /\ At(w, "await") => \E p \in Proc : cmd[w].target = {p} /\ Named \subseteq {p}
          /\ cmd[w].step \in Signalling \cup {"look", "wait", "release"} => stop

HolderIsKnown ==
    \A p \in Proc :
        /\ pc[p] \in Acquiring \cup {"running"} => p \in Named \/ Awaited(p)
        /\ pc[p] = "unlinkOwn" => p \in Named

LockHeldRight ==
    /\ seen \in [Proc -> Pid \cup {NoPid}] /\ pidFile \in Pid \cup {NoPid}
    /\ lockDir \in BOOLEAN
    /\ pidFile # NoPid => lockDir
    /\ DistinctPids /\ NamedBeforeLock
    /\ ~cut => LockIsOwed

CalmInv == calm => OneCommand /\ HolderIsKnown /\ WakeLockHeld

HoldInv == TreeInv /\ LockHeldRight /\ CalmInv
=============================================================================
