------------------------------ MODULE Autopilot ------------------------------
(***************************************************************************)
(* The work loop of tools/run_s25u_autopilot.sh after the lock: publish    *)
(* what the last stage left, synchronise main with GitHub, decide whether  *)
(* the head needs a runtime stage, run it under a time limit, and record   *)
(* which head is done.  One action per command whose effect another actor  *)
(* can see: the authors on GitHub, a person at the device, a stage that    *)
(* outlived its autopilot, and SIGKILL all act between any two of them.    *)
(*                                                                         *)
(* A head is the sequence of the patches that lead to it, so "ancestor" is *)
(* IsPrefix, and rebasing moves a suffix of patches to another prefix.     *)
(* Only linear history is modelled: every merge the script makes is a      *)
(* fast-forward.  The working tree is the set of the kinds of changes      *)
(* `git status` lists:                                                     *)
(*   "valid"    safe artifacts that v5_1_runtime_bundle.py validates       *)
(*   "residual" safe artifacts that it does not validate                   *)
(*   "stale"    safe artifacts that validate and disagree on an identity   *)
(*   "unsafe"   anything else                                              *)
(***************************************************************************)
EXTENDS Integers, SequencesExt

CONSTANTS MaxSource,    \* bound: patches the authors push after the first
          MaxBundle,    \* bound: runtime bundles the device commits
          MaxEdit,      \* bound: patches a person commits at the device
          PersonAt,     \* steps of the script during which that person acts
          Liberties,    \* what else the environment may do
          Clashing,     \* <<patches on main, n>>: bundle n conflicts with that main
          NoHead        \* the last_head file is missing or empty

SyncSteps  == {"publish", "quarantine", "fetch", "compare", "merge", "push",
               "rebase", "rebasing"}
StageSteps == {"stage", "report", "reported", "settle"}
Steps      == {"down", "top", "decide", "sleep"} \cup SyncSteps \cup StageSteps
AllLiberties == {"kill", "orphan", "stop", "stale", "abortFails", "offline",
                 "timeout", "innerTimeout", "force", "once"}

ASSUME ConstantsAssumption ==
    /\ MaxSource \in Nat
    /\ MaxBundle \in Nat
    /\ MaxEdit \in Nat
    /\ PersonAt \subseteq Steps
    /\ Liberties \subseteq AllLiberties

VARIABLES remote,     \* main on GitHub
          tracking,   \* refs/remotes/origin/main
          local,      \* refs/heads/main
          detached,   \* HEAD is not on main: a rebase has begun
          dirty,      \* kinds of changes in the working tree
          lastHead,   \* $state_dir/last_head
          pc,         \* next step of the script, "down" when it does not run
          final,      \* inside the closing sync_main of --once?
          status,     \* cycle_status, and the exit status once down
          force,      \* --force, until the first stage has run
          once,       \* --once
          outcome,    \* how the current stage ends
          input,      \* history: the sources the current stage started from
          concluded,  \* history: sources whose stage came to a conclusion
          stop,       \* does the STOP marker exist?
          orphan      \* does a stage run whose autopilot was killed?

git  == <<remote, tracking, local, detached>>
ctl  == <<pc, final, status, force, once>>
book == <<lastHead, outcome, input, concluded>>
data == <<git, dirty, book, stop, orphan>>
vars == <<remote, tracking, local, detached, dirty, lastHead, pc, final, status,
          force, once, outcome, input, concluded, stop, orphan>>

Kinds    == {"source", "bundle", "edit"}
Patch    == [kind : Kinds, n : Nat]
History  == Seq(Patch)
Changes  == {"valid", "residual", "stale", "unsafe"}
Outcomes == {"success", "deterministic", "transient", "noDiagnostic",
             "timeout", "innerTimeout"}
NoStage  == "none"

ASSUME NoHeadAssumption == NoHead \notin History

\* What a head contains besides the device's own results.
Sources(h) == {x \in ToSet(h) : x.kind # "bundle"}

TypeOK ==
    /\ remote \in History /\ tracking \in History /\ local \in History
    /\ detached \in BOOLEAN
    /\ dirty \in SUBSET Changes
    /\ lastHead \in History \cup {NoHead}
    /\ pc \in Steps
    /\ final \in BOOLEAN
    /\ status \in {"ok", "failed"}
    /\ force \in BOOLEAN /\ once \in BOOLEAN
    /\ outcome \in Outcomes \cup {NoStage}
    /\ input \in SUBSET Patch
    /\ concluded \in SUBSET (SUBSET Patch)
    /\ stop \in BOOLEAN /\ orphan \in BOOLEAN

FirstHead == <<[kind |-> "source", n |-> 1]>>

\* A fresh clone on main, no record of a processed head.
Init ==
    /\ remote = FirstHead /\ tracking = FirstHead /\ local = FirstHead
    /\ detached = FALSE
    /\ dirty = {}
    /\ lastHead = NoHead
    /\ pc = "down"
    /\ final = FALSE
    /\ status = "ok"
    /\ force = FALSE /\ once = FALSE
    /\ outcome = NoStage
    /\ input = {}
    /\ concluded = {}
    /\ stop = FALSE /\ orphan = FALSE

-----------------------------------------------------------------------------
Of(h, k) == {i \in 1..Len(h) : h[i].kind = k}

\* A new patch on top of h; heads only grow, so its number is fresh.
Commit(h, k) == Append(h, [kind |-> k, n |-> Len(h) + 1])

\* Lengths of the non-empty histories that a and b share.
Shared(a, b) == {i \in 1..Len(a) : i <= Len(b) /\ \A j \in 1..i : a[j] = b[j]}

\* The patches of h that are not in the history of base.
Beyond(base, h) == SubSeq(h, Cardinality(Shared(base, h)) + 1, Len(h))

\* safe_local_commits_only: at least one commit, and only runtime bundles.
SafeOnly(s) == s # <<>> /\ \A i \in 1..Len(s) : s[i].kind = "bundle"

\* Whether git can put the patches of s on top of a head is in their content: the
\* same patches on the same head conflict again in every cycle.
Conflicts(onto, s) == \E i \in 1..Len(s) : <<Len(onto), s[i].n>> \in Clashing

\* The options die with the process; its exit status stays visible.
Exit(result) ==
    /\ pc' = "down"
    /\ status' = result
    /\ final' = FALSE
    /\ force' = FALSE
    /\ once' = FALSE

\* Planted fault: --once leaves without the closing sync.
EndCycleAtOnce(result) ==
    /\ status' = result
    /\ pc' = IF once THEN "down" ELSE "sleep"
    /\ UNCHANGED <<final, once>>

\* The end of the loop body: the closing sync of --once, or sleep.
EndCycle(result) ==
    /\ status' = result
    /\ pc' = IF once THEN "publish" ELSE "sleep"
    /\ final' = once
    /\ UNCHANGED once

SyncSucceeds ==
    IF final THEN Exit(status)
             ELSE pc' = "decide" /\ UNCHANGED <<final, status, force, once>>

SyncFails ==
    IF final THEN Exit("failed") ELSE EndCycle("failed") /\ UNCHANGED force

Goto(from, to) ==
    /\ pc = from
    /\ pc' = to
    /\ UNCHANGED <<final, status, force, once>>

-----------------------------------------------------------------------------
(* Start, STOP and sleep *)

Start(f, o) ==
    /\ pc = "down"
    /\ ~detached
    /\ f => "force" \in Liberties
    /\ o => "once" \in Liberties
    /\ pc' = "top"
    /\ status' = "ok"
    /\ final' = FALSE
    /\ force' = f
    /\ once' = o
    /\ UNCHANGED data

StartOffMain ==
    /\ pc = "down"
    /\ detached
    /\ Exit("failed")
    /\ UNCHANGED data

SeeStop ==
    /\ pc = "top"
    /\ stop
    /\ Exit("ok")
    /\ UNCHANGED data

\* Planted fault: a cycle begins in spite of STOP.
BeginCycleAnyway ==
    /\ pc = "top"
    /\ pc' = "publish" /\ status' = "ok"
    /\ UNCHANGED <<final, force, once, data>>

BeginCycle ==
    /\ pc = "top"
    /\ ~stop
    /\ pc' = "publish"
    /\ status' = "ok"
    /\ UNCHANGED <<final, force, once, data>>

Wake ==
    /\ Goto("sleep", "top")
    /\ UNCHANGED data

-----------------------------------------------------------------------------
(* publish_pending_safe_artifacts *)

NothingPending ==
    /\ dirty = {}
    /\ Goto("publish", "fetch")
    /\ UNCHANGED data

\* Planted fault: the validated artifacts are dropped without a commit.
BundledNowhere == dirty' = dirty \ {"valid"} /\ UNCHANGED local

\* publish_runtime_bundle commits what validates and leaves the rest.
Bundled ==
    /\ local' = IF "valid" \in dirty THEN Commit(local, "bundle") ELSE local
    /\ dirty' = dirty \ {"valid"}

\* Planted fault: the bundle is committed beside an unsafe change.
PublishPendingBeside ==
    /\ dirty # {} /\ "stale" \notin dirty /\ ~detached
    /\ Bundled
    /\ Goto("publish", IF dirty' = {} THEN "fetch" ELSE "quarantine")
    /\ UNCHANGED <<remote, tracking, detached, book, stop, orphan>>

\* Planted fault: the publication does not ask for the branch.
PublishPendingAnywhere ==
    /\ dirty # {} /\ dirty \cap {"unsafe", "stale"} = {}
    /\ Bundled
    /\ Goto("publish", IF dirty' = {} THEN "fetch" ELSE "quarantine")
    /\ UNCHANGED <<remote, tracking, detached, book, stop, orphan>>

PublishPending ==
    /\ dirty # {}
    /\ dirty \cap {"unsafe", "stale"} = {}
    /\ ~detached
    /\ Bundled
    /\ Goto("publish", IF dirty' = {} THEN "fetch" ELSE "quarantine")
    /\ UNCHANGED <<remote, tracking, detached, book, stop, orphan>>

Quarantine ==
    /\ "unsafe" \notin dirty
    /\ Goto("quarantine", "fetch")
    /\ dirty' = {}
    /\ UNCHANGED <<git, book, stop, orphan>>

-----------------------------------------------------------------------------
(* sync_main *)

Fetch ==
    /\ Goto("fetch", "compare")
    /\ tracking' = remote
    /\ UNCHANGED <<remote, local, detached, dirty, book, stop, orphan>>

UpToDate ==
    /\ pc = "compare"
    /\ local = tracking
    /\ SyncSucceeds
    /\ UNCHANGED data

\* Planted fault: new commits are fetched and not merged.
BehindIgnored ==
    /\ IsStrictPrefix(local, tracking)
    /\ Goto("compare", "decide")
    /\ UNCHANGED data

Behind ==
    /\ IsStrictPrefix(local, tracking)
    /\ Goto("compare", "merge")
    /\ UNCHANGED data

\* Planted fault: the kind of the commits is not looked at.
AheadUnchecked ==
    /\ ~IsPrefix(local, tracking)
    /\ Goto("compare", IF IsPrefix(tracking, local) THEN "push" ELSE "rebase")
    /\ UNCHANGED data

\* Planted fault: a head that is ahead is left where it is.
AheadKeptLocal ==
    /\ ~IsPrefix(local, tracking)
    /\ SafeOnly(Beyond(tracking, local))
    /\ Goto("compare", IF IsPrefix(tracking, local) THEN "decide" ELSE "rebase")
    /\ UNCHANGED data

\* Ahead of origin/main, or diverged from it: only bundles may go on.
Ahead ==
    /\ ~IsPrefix(local, tracking)
    /\ SafeOnly(Beyond(tracking, local))
    /\ Goto("compare", IF IsPrefix(tracking, local) THEN "push" ELSE "rebase")
    /\ UNCHANGED data

FastForward ==
    /\ pc = "merge"
    /\ IsPrefix(local, tracking)
    /\ local' = tracking
    /\ SyncSucceeds
    /\ UNCHANGED <<remote, tracking, detached, dirty, book, stop, orphan>>

BeginRebase ==
    /\ Goto("rebase", "rebasing")
    /\ detached' = TRUE
    /\ UNCHANGED <<remote, tracking, local, dirty, book, stop, orphan>>

\* Planted fault: main is reset to origin/main instead of rebased.
FinishRebaseByReset ==
    /\ Goto("rebasing", "push")
    /\ local' = tracking
    /\ detached' = FALSE
    /\ UNCHANGED <<remote, tracking, dirty, book, stop, orphan>>

FinishRebase ==
    /\ ~Conflicts(tracking, Beyond(tracking, local))
    /\ Goto("rebasing", "push")
    /\ local' = tracking \o Beyond(tracking, local)
    /\ detached' = FALSE
    /\ UNCHANGED <<remote, tracking, dirty, book, stop, orphan>>

\* git push origin HEAD:main: the server takes fast-forwards only.
Push ==
    /\ pc = "push"
    /\ IsPrefix(remote, local)
    /\ remote' = local
    /\ tracking' = local
    /\ SyncSucceeds
    /\ UNCHANGED <<local, detached, dirty, book, stop, orphan>>

\* A conflict stops the rebase.  The abort takes HEAD back to main and drops
\* what is changed in tracked files; when it fails too, which the script
\* ignores, HEAD stays off main and the unmerged artifacts in the tree.
RebaseStops ==
    /\ pc = "rebasing"
    /\ Conflicts(tracking, Beyond(tracking, local))
    /\ \/ detached' = FALSE /\ dirty' \in SUBSET dirty
       \/ /\ "abortFails" \in Liberties
          /\ dirty' = dirty \cup {"residual"}
          /\ UNCHANGED detached
    /\ SyncFails
    /\ UNCHANGED <<remote, tracking, local, book, stop, orphan>>

\* Every other way a synchronisation can end early.  It changes nothing more.
SyncAborts ==
    /\ \/ /\ pc = "publish" /\ dirty # {}        \* refused, or raised
          /\ detached \/ dirty \cap {"unsafe", "stale"} # {}
       \/ pc = "quarantine"                      \* an unsafe path, or git stash failed
       \/ pc = "fetch" /\ "offline" \in Liberties
       \/ pc = "compare" /\ ~IsPrefix(local, tracking) /\ ~SafeOnly(Beyond(tracking, local))
       \/ pc = "merge" /\ (~IsPrefix(local, tracking) \/ dirty # {})
       \/ pc = "rebase" /\ dirty # {}            \* git does not start on a dirty tree
       \/ pc = "push" /\ (~IsPrefix(remote, local) \/ "offline" \in Liberties)
    /\ SyncFails
    /\ UNCHANGED data

-----------------------------------------------------------------------------
(* The decision *)

\* Planted fault: the shortcut for outputs is missing.
OutputsForgotten == FALSE

\* Planted fault: whatever came since the processed head passes for results.
OutputsUnchecked == lastHead # NoHead /\ IsStrictPrefix(lastHead, local)

\* Nothing but bundles since the processed head: results, not new work.
OutputsOnly ==
    /\ lastHead # NoHead
    /\ IsStrictPrefix(lastHead, local)
    /\ SafeOnly(Beyond(lastHead, local))

Launch ==
    /\ \/ force
       \/ local # lastHead /\ ~OutputsOnly
    /\ Goto("decide", "stage")
    /\ input' = Sources(local)
    /\ UNCHANGED <<git, dirty, lastHead, outcome, concluded, stop, orphan>>

SkipOutputs ==
    /\ pc = "decide"
    /\ ~force
    /\ OutputsOnly
    /\ lastHead' = local
    /\ EndCycle(status) /\ UNCHANGED force
    /\ UNCHANGED <<git, dirty, outcome, input, concluded, stop, orphan>>

AlreadyProcessed ==
    /\ pc = "decide"
    /\ ~force
    /\ local = lastHead
    /\ EndCycle(status) /\ UNCHANGED force
    /\ UNCHANGED data

-----------------------------------------------------------------------------
(* run_s25u_runtime_stage.sh, as far as the autopilot can tell *)

\* What a stage may leave in the tree; a rewrite can end a disagreement.
WriteArtifacts ==
    /\ \E changes \in SUBSET {"valid", "residual", "stale"} :
         /\ "stale" \in changes => "stale" \in Liberties
         /\ "valid" \in changes => Cardinality(Of(local, "bundle")) < MaxBundle
         /\ \/ dirty' = dirty \cup changes
            \/ "valid" \in changes /\ dirty' = (dirty \ {"stale"}) \cup changes

StageWrites ==
    /\ pc = "stage"
    /\ WriteArtifacts
    /\ UNCHANGED <<git, ctl, book, stop, orphan>>

\* The comparison of the displays publishes its progress in the middle of the
\* stage; a publication that raises there is a deterministic failure of it.
StagePublishesProgress ==
    /\ pc = "stage"
    /\ "stale" \notin dirty
    /\ Bundled
    /\ UNCHANGED <<remote, tracking, detached, ctl, book, stop, orphan>>

\* The diagnostic is written, before the bundle is published.  A deterministic
\* failure may come with status 124, from a timeout inside the stage.
StageReports(o) ==
    /\ o # "timeout"
    /\ o = "innerTimeout" => "innerTimeout" \in Liberties
    /\ Goto("stage", "report")
    /\ outcome' = o
    /\ UNCHANGED <<git, dirty, lastHead, input, concluded, stop, orphan>>

\* publish_runtime_bundle without the push.
StagePublishes ==
    /\ "stale" \notin dirty
    /\ Goto("report", "reported")
    /\ Bundled
    /\ UNCHANGED <<remote, tracking, detached, book, stop, orphan>>

\* The status of the failed publication replaces the status of the stage, and
\* the diagnostic now decides alone: a success has no failure kind in it.
StagePublishFails ==
    /\ "stale" \in dirty
    /\ Goto("report", "reported")
    /\ outcome' = IF outcome \in {"success", "innerTimeout"}
                  THEN "deterministic" ELSE outcome
    /\ UNCHANGED <<git, dirty, lastHead, input, concluded, stop, orphan>>

\* A conclusion: the stage passed, or its diagnostic blames the input.
Conclusive == {"success", "deterministic", "innerTimeout"}

StageExits ==
    /\ Goto("reported", "settle")
    /\ concluded' = concluded \cup (IF outcome \in Conclusive THEN {input} ELSE {})
    /\ UNCHANGED <<git, dirty, lastHead, outcome, input, stop, orphan>>

\* timeout -k 30s ends the stage wherever it is: status 124 or 137.
StageTimesOut ==
    /\ pc \in {"stage", "report", "reported"}
    /\ "timeout" \in Liberties
    /\ Goto(pc, "settle")
    /\ outcome' = "timeout"
    /\ UNCHANGED <<git, dirty, lastHead, input, concluded, stop, orphan>>

\* Planted faults: one more outcome, or one less, moves last_head.
SettleWith(recorded, result) ==
    /\ pc = "settle"
    /\ tracking' \in {tracking, remote}
    /\ lastHead' = IF outcome \in recorded THEN local ELSE lastHead
    /\ EndCycle(result)
    /\ force' = FALSE
    /\ outcome' = NoStage /\ input' = {}
    /\ UNCHANGED <<remote, local, detached, dirty, concluded, stop, orphan>>
SettleAlsoTimeout == SettleWith({"success", "deterministic", "timeout"}, "ok")
SettleOnlySuccess == SettleWith({"success"}, "ok")
\* The rest of run_current_head: a fetch that may fail, and the record.
Settle ==
    /\ pc = "settle"
    /\ tracking' \in {tracking, remote}
    /\ lastHead' = IF outcome \in {"success", "deterministic"} THEN local ELSE lastHead
    /\ EndCycle(IF outcome = "success" THEN "ok" ELSE "failed")
    /\ force' = FALSE
    /\ outcome' = NoStage
    /\ input' = {}
    /\ UNCHANGED <<remote, local, detached, dirty, concluded, stop, orphan>>

-----------------------------------------------------------------------------
(* The environment *)

\* SIGKILL at any step.  HEAD stays wherever a rebase had moved it, and a
\* stage may go on without its autopilot.
Kill ==
    /\ pc # "down"
    /\ "kill" \in Liberties
    /\ Exit("failed")
    /\ orphan' \in {orphan, orphan \/ ("orphan" \in Liberties /\ pc \in {"stage", "report"})}
    /\ outcome' = NoStage
    /\ input' = {}
    /\ UNCHANGED <<git, dirty, lastHead, concluded, stop>>

OrphanWrites ==
    /\ orphan
    /\ WriteArtifacts
    /\ UNCHANGED <<git, ctl, book, stop, orphan>>

\* In the middle of the stage or at its end; the bundle is only published from
\* main.
OrphanPublishes ==
    /\ orphan
    /\ orphan' \in BOOLEAN
    /\ IF detached \/ "stale" \in dirty THEN UNCHANGED <<local, dirty>> ELSE Bundled
    /\ UNCHANGED <<remote, tracking, detached, ctl, book, stop>>

Author ==
    /\ Cardinality(Of(remote, "source")) <= MaxSource
    /\ remote' = Commit(remote, "source")
    /\ UNCHANGED <<tracking, local, detached, dirty, ctl, book, stop, orphan>>

ToggleStop ==
    /\ "stop" \in Liberties
    /\ stop' = ~stop
    /\ UNCHANGED <<git, dirty, ctl, book, orphan>>

PersonEdits ==
    /\ pc \in PersonAt
    /\ dirty' = dirty \cup {"unsafe"}
    /\ Cardinality(Of(local, "edit")) < MaxEdit
    /\ UNCHANGED <<git, ctl, book, stop, orphan>>

PersonReverts ==
    /\ pc \in PersonAt
    /\ "unsafe" \in dirty
    /\ dirty' = dirty \ {"unsafe"}
    /\ UNCHANGED <<git, ctl, book, stop, orphan>>

PersonCommits ==
    /\ pc \in PersonAt
    /\ ~detached
    /\ "unsafe" \in dirty
    /\ local' = Commit(local, "edit")
    /\ dirty' = dirty \ {"unsafe"}
    /\ UNCHANGED <<remote, tracking, detached, ctl, book, stop, orphan>>

PersonPushes ==
    /\ pc \in PersonAt
    /\ ~detached
    /\ IsStrictPrefix(remote, local)
    /\ remote' = local
    /\ tracking' = local
    /\ UNCHANGED <<local, detached, dirty, ctl, book, stop, orphan>>

\* git pull --ff-only, as README.md tells the user.
PersonPulls ==
    /\ pc \in PersonAt
    /\ ~detached
    /\ IsStrictPrefix(local, remote)
    /\ local' = remote
    /\ tracking' = remote
    /\ UNCHANGED <<remote, detached, dirty, ctl, book, stop, orphan>>

\* git rebase --abort, by hand.
PersonRepairs ==
    /\ pc \in PersonAt
    /\ detached
    /\ detached' = FALSE
    /\ dirty' \in SUBSET dirty
    /\ UNCHANGED <<remote, tracking, local, ctl, book, stop, orphan>>

-----------------------------------------------------------------------------
SyncStep ==
    \/ NothingPending \/ PublishPending \/ Quarantine \/ Fetch
    \/ UpToDate \/ Behind \/ Ahead \/ FastForward
    \/ BeginRebase \/ FinishRebase \/ RebaseStops \/ Push \/ SyncAborts

StageStep ==
    \/ StageWrites \/ (\E o \in Outcomes : StageReports(o))
    \/ StagePublishesProgress \/ StagePublishes \/ StagePublishFails
    \/ StageExits \/ StageTimesOut

Cycle ==
    \/ SeeStop \/ BeginCycle \/ Wake
    \/ Launch \/ SkipOutputs \/ AlreadyProcessed \/ Settle

Environment ==
    \/ (\E f, o \in BOOLEAN : Start(f, o)) \/ StartOffMain
    \/ Kill \/ OrphanWrites \/ OrphanPublishes
    \/ Author \/ ToggleStop
    \/ PersonEdits \/ PersonReverts \/ PersonCommits \/ PersonPushes
    \/ PersonPulls \/ PersonRepairs

Next == SyncStep \/ StageStep \/ Cycle \/ Environment

Spec == Init /\ [][Next]_vars

-----------------------------------------------------------------------------
(* Safety *)

\* A head is recorded as processed only when a stage that started from the
\* same sources has come to a conclusion: neither a time limit, a kill, an
\* orphan, a rebase nor the shortcut for outputs marks work as done that no
\* stage has done (record_processed_head, lines 547-577 and 597-605).
ProcessedWasRun == lastHead # NoHead => Sources(lastHead) \in concluded

\* Why: the sources of main do not move under a stage, and what the settling
\* step is about to record has come to a conclusion.
StageInputStands  == pc \in StageSteps => input = Sources(local)
SettlesConclusion ==
    (pc = "settle" /\ outcome \in {"success", "deterministic"}) => input \in concluded
CycleInv == TypeOK /\ ProcessedWasRun /\ StageInputStands /\ SettlesConclusion

\* When HEAD is off main, because a kill or an abort that failed (487) froze a
\* rebase, the script never works on it: it does not start there (249), and a
\* loop that goes on there, as it does not look at the branch again, does not get
\* past the publication.  Nothing is merged, pushed, launched or recorded from
\* such a head.
OffMainIsInert == detached => pc \in {"rebasing", "down", "sleep", "top", "publish"}

\* Why: what the rebase left unmerged is in the tree, so there is something to
\* publish, and runtime artifacts are published from main only.
OffMainInv ==
    /\ OffMainIsInert
    /\ detached /\ pc \in {"sleep", "top", "publish"} => "residual" \in dirty

\* What a stage produced is never fed back into a stage: without --force one is
\* launched only on sources other than those of the processed head (556-558).
NoFeedback ==
    [][(pc = "decide" /\ pc' = "stage" /\ ~force)
         => lastHead = NoHead \/ Sources(local) # Sources(lastHead)]_vars

\* Without --force no stage is launched on sources for which a stage has already
\* come to a conclusion (PROJECT_HANDOFF.md:61).
NoRepeat ==
    [][(pc = "decide" /\ pc' = "stage" /\ ~force) => Sources(local) \notin concluded]_vars

\* The automatic push only adds runtime bundles to main on GitHub and rewrites
\* nothing (usage text 27-28, safe_local_commits_only).
OnlyBundlesPushed ==
    [][(pc = "push" /\ pc' # "push") =>
         /\ IsPrefix(remote, remote')
         /\ remote' # remote => SafeOnly(Beyond(remote, remote'))]_vars

\* No commit is lost, on GitHub or at the device: not by a rebase, not by a
\* kill inside one, not by a push that crosses another.
NothingLost ==
    [][ToSet(local) \subseteq ToSet(local') /\ IsPrefix(remote, remote')]_vars

\* While a change outside the safe artifacts is in the working tree, the
\* synchronisation neither commits, merges, rebases nor pushes (375-378, 395-398).
UnsafeTreeUntouched ==
    [][(pc \in SyncSteps /\ pc' # pc /\ "unsafe" \in dirty)
         => UNCHANGED <<remote, local, dirty>>]_vars

\* Why: the publication has turned the synchronisation back before.
PastPublish == pc \in SyncSteps \ {"publish"} => "unsafe" \notin dirty

\* A validated result leaves the working tree only into a bundle commit, never
\* into the stash that quarantines what did not validate.
ValidIsCommitted ==
    [][("valid" \in dirty /\ "valid" \notin dirty')
         => \E x \in ToSet(local') \ ToSet(local) : x.kind = "bundle"]_vars

\* When --once reports success without having been stopped, the tree is clean,
\* everything local is on GitHub, and a processed head is on record (617-630).
OnceDelivers ==
    [][(pc \notin {"down", "top"} /\ once /\ pc' = "down" /\ status' = "ok") =>
         /\ dirty' = {}
         /\ IsPrefix(local', remote')
         /\ lastHead' # NoHead]_vars

\* What is on record, as StageLedger sees it.
Recorded == IF lastHead = NoHead THEN {} ELSE Sources(lastHead)

Ledger == INSTANCE StageLedger WITH sources <- Sources(local), running <- input,
                                    recorded <- Recorded, forced <- force

\* The loop keeps the promise of StageLedger: whatever git, the authors, a person,
\* kills, orphans and time limits do, its stages begin, end and come on record as
\* there (run_current_head and the decision, lines 535-609).
KeepsLedger == Ledger!LedgerSpec

(* What makes the action properties hold: how the heads relate.             *)

\* Rebasing moves bundles only, and only to later places.
Numbered(h) ==
    \A i \in 1..Len(h) : h[i].n <= i /\ (h[i].kind # "bundle" => h[i].n = i)

\* After what they share, GitHub has the authors' patches, the device its own.
Forked ==
    \E m \in 0..Len(local) :
        /\ m <= Len(remote) /\ \A i \in 1..m : remote[i] = local[i]
        /\ \A i \in m + 1..Len(remote) : remote[i].kind = "source"
        /\ \A i \in m + 1..Len(local) : local[i].kind # "source"

Tracked ==
    /\ IsPrefix(tracking, remote)
    /\ \A i \in Len(tracking) + 1..Len(remote) : remote[i].kind = "source"

\* The test of the commits, made before the rebase, still holds at the push.
OnlyBundlesGo ==
    /\ pc \in {"rebase", "rebasing"} =>
          ~IsPrefix(tracking, local) /\ SafeOnly(Beyond(tracking, local))
    /\ pc = "push" =>
          /\ IsPrefix(tracking, local)
          /\ \A i \in Len(tracking) + 1..Len(local) : local[i].kind = "bundle"

RecordIsBehind ==
    lastHead # NoHead =>
        /\ Sources(lastHead) \subseteq Sources(local)
        /\ Sources(lastHead) = Sources(local) => IsPrefix(lastHead, local)

HeadsInv ==
    /\ TypeOK
    /\ Numbered(remote) /\ Numbered(tracking) /\ Numbered(local)
    /\ Forked /\ Tracked /\ OnlyBundlesGo /\ RecordIsBehind

\* A conclusion is on record, or the settling step is about to record it.
ConcludedIsRecorded ==
    \A s \in concluded :
        \/ lastHead # NoHead /\ s \subseteq Sources(lastHead)
        \/ /\ pc = "settle" /\ outcome \in {"success", "deterministic"}
           /\ s \subseteq Sources(local)

\* Between stages none is under way, and a head has sources.
StagesAreApart ==
    /\ pc \notin StageSteps => input = {}
    /\ Sources(local) # {}

\* What is quarantined, rebased or aborted has been through the publication.
NothingValidStashed ==
    /\ ~orphan
    /\ pc \in SyncSteps \ {"publish"} \/ detached => "valid" \notin dirty

\* Past the quarantine nothing is in the tree.
TreeIsClean == pc \in SyncSteps \ {"publish", "quarantine"} => dirty = {}

\* The closing synchronisation knows that there is a processed head.
FinalHasRecord ==
    /\ final => pc \in SyncSteps
    /\ ~final /\ pc \in SyncSteps \cup {"decide"} => status = "ok"
    /\ final /\ status = "ok" => lastHead # NoHead

-----------------------------------------------------------------------------
(* Liveness *)

\* The loop keeps running (it only waits for commands that end), and what may
\* fail by accident does not fail for ever: the network, git stash, and the
\* stage, which comes to a conclusion within the time limit again and again.
\* Nothing is assumed of a rebase: whether it conflicts is in the patches.
Fairness ==
    /\ WF_vars(SyncStep \/ Cycle \/ StagePublishes \/ StagePublishFails \/ StageExits)
    /\ SF_vars(Quarantine)
    /\ SF_vars(Fetch)
    /\ SF_vars(Push)
    /\ SF_vars(\E o \in Conclusive : StageReports(o))
    /\ SF_vars(StagePublishes /\ outcome \in Conclusive)
    /\ SF_vars(StageExits /\ outcome \in Conclusive)

FairSpec == Spec /\ Fairness

\* What the loop cannot get over by itself: its bundles conflict with main on
\* GitHub as that is now, or an abort that failed has left HEAD off main.
Stuck ==
    \/ /\ ~IsPrefix(local, remote) /\ ~IsPrefix(remote, local)
       /\ Conflicts(remote, Beyond(remote, local))
    \/ detached /\ pc # "rebasing"

\* Every patch the authors push is eventually part of a processed head, unless
\* the script ends, by STOP or --once, before it comes to that (lines 579-633),
\* or is stuck; when the authors resolve the conflict the promise is due again.
SourceIsProcessed ==
    \A k \in 1..MaxSource + 1 :
        (pc # "down" /\ Cardinality(Of(remote, "source")) >= k)
          ~> \/ pc = "down" \/ Stuck
             \/ lastHead # NoHead /\ Cardinality(Of(lastHead, "source")) >= k

\* Every bundle the device commits eventually reaches GitHub (472-491), unless
\* the script ends before or is stuck.
BundleIsDelivered ==
    \A k \in 1..MaxBundle :
        (pc # "down" /\ Cardinality(Of(local, "bundle")) >= k)
          ~> (pc = "down" \/ Stuck \/ Cardinality(Of(remote, "bundle")) >= k)

\* A STOP marker that stays ends the loop (582-585).
StopIsHonoured == (stop /\ pc # "down") ~> (pc = "down" \/ ~stop)
=============================================================================
