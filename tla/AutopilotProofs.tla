--------------------------- MODULE AutopilotProofs ---------------------------
(***************************************************************************)
(* Proofs about Autopilot, for every bound, every liberty of the           *)
(* environment, and every choice of the steps a person may interfere with  *)
(* that a theorem does not exclude; and about the bundle it publishes, for *)
(* every table of rules.                                                   *)
(***************************************************************************)
EXTENDS Autopilot, RuntimeBundle, FiniteSetTheorems, WellFoundedInduction, TLAPS

-----------------------------------------------------------------------------
(* Heads *)

LEMMA CommitType ==
  ASSUME NEW h \in History, NEW k \in Kinds
  PROVE  Commit(h, k) \in History
BY DEF Commit, History, Patch

\* The number of shared patches is a number.
LEMMA SharedFinite ==
  ASSUME NEW a \in History, NEW b \in History
  PROVE  Cardinality(Shared(a, b)) \in Nat
<1>1. IsFiniteSet(1..Len(a)) /\ Shared(a, b) \subseteq 1..Len(a)
  BY FS_Interval DEF Shared, History
<1> QED
  BY <1>1, FS_Subset, FS_CardinalityType

LEMMA BeyondType ==
  ASSUME NEW a \in History, NEW b \in History
  PROVE  Beyond(a, b) \in History
BY SharedFinite DEF Beyond, History

\* A commit adds one patch and no other.
LEMMA CommitContent ==
  ASSUME NEW h \in History, NEW k \in Kinds
  PROVE  ToSet(Commit(h, k)) = ToSet(h) \cup {[kind |-> k, n |-> Len(h) + 1]}
<1>1. DOMAIN h = 1..Len(h) /\ DOMAIN Commit(h, k) = 1..Len(h) + 1
  BY DEF Commit, History
<1>2. \A i \in 1..Len(h) : Commit(h, k)[i] = h[i]
  BY DEF Commit, History
<1>3. Commit(h, k)[Len(h) + 1] = [kind |-> k, n |-> Len(h) + 1]
  BY DEF Commit, History
<1>4. Len(h) \in Nat /\ 1..Len(h) + 1 = (1..Len(h)) \cup {Len(h) + 1}
  BY DEF History
<1> QED
  BY <1>1, <1>2, <1>3, <1>4 DEF ToSet

LEMMA BundleAddsNoSource ==
  ASSUME NEW h \in History
  PROVE  Sources(Commit(h, "bundle")) = Sources(h)
BY CommitContent DEF Sources, Kinds

\* What a head holds beyond an ancestor is its suffix.
LEMMA BeyondAncestor ==
  ASSUME NEW a \in History, NEW h \in History, IsPrefix(a, h)
  PROVE  /\ \A i \in 1..Len(a) : h[i] = a[i]
         /\ Beyond(a, h) = SubSeq(h, Len(a) + 1, Len(h))
<1>1. Len(a) <= Len(h) /\ Len(a) \in Nat /\ Len(h) \in Nat
  BY DEF IsPrefix, History
<1>2. ASSUME NEW i \in 1..Len(a) PROVE h[i] = a[i]
  <2>1. SubSeq(a, 1, Len(a))[i] = a[i] /\ SubSeq(h, 1, Len(a))[i] = h[i]
    BY <1>1 DEF History
  <2> QED BY <2>1 DEF IsPrefix
<1>3. Shared(a, h) = 1..Len(a)
  BY <1>1, <1>2 DEF Shared
<1>4. Cardinality(Shared(a, h)) = Len(a)
  <2>1. 1 \in Int /\ Len(a) \in Int
    BY <1>1
  <2>2. Cardinality(1..Len(a)) = IF 1 > Len(a) THEN 0 ELSE Len(a) - 1 + 1
    BY <2>1, FS_Interval, Zenon
  <2> QED BY <1>1, <1>3, <2>2
<1> QED
  BY <1>2, <1>4 DEF Beyond

\* A descendant by bundles alone has the same sources.
LEMMA OutputsHaveSameSources ==
  ASSUME NEW a \in History, NEW h \in History, IsPrefix(a, h), SafeOnly(Beyond(a, h))
  PROVE  Sources(h) = Sources(a)
<1>1. Len(a) <= Len(h) /\ Len(a) \in Nat /\ Len(h) \in Nat
      /\ DOMAIN a = 1..Len(a) /\ DOMAIN h = 1..Len(h)
  BY DEF IsPrefix, History
<1>2. ASSUME NEW i \in 1..Len(h), h[i].kind # "bundle" PROVE i \in 1..Len(a)
  <2> SUFFICES ASSUME i > Len(a) PROVE FALSE
    BY <1>1
  <2>1. i - Len(a) \in 1..Len(Beyond(a, h)) /\ Beyond(a, h)[i - Len(a)] = h[i]
    BY <1>1, BeyondAncestor DEF History
  <2> QED BY <1>2, <2>1 DEF SafeOnly
<1>3. \A i \in 1..Len(a) : h[i] = a[i] /\ i \in 1..Len(h)
  BY <1>1, BeyondAncestor
<1> QED
  BY <1>1, <1>2, <1>3 DEF Sources, ToSet

-----------------------------------------------------------------------------
(* Types *)

LEMMA InitType == Init => TypeOK
<1>1. FirstHead \in History
  BY DEF FirstHead, History, Patch, Kinds
<1> QED
  BY <1>1 DEF Init, TypeOK, Steps, NoStage, Outcomes

LEMMA NextType == TypeOK /\ [Next]_vars => TypeOK'
<1> SUFFICES ASSUME TypeOK, [Next]_vars PROVE TypeOK'
  OBVIOUS
<1> USE DEF TypeOK, Goto, Exit, EndCycle, SyncSucceeds, SyncFails, vars, git, ctl,
            book, data, Steps, SyncSteps, StageSteps, Outcomes, Changes
<1>1. \A k \in Kinds : Commit(local, k) \in History /\ Commit(remote, k) \in History
  BY CommitType
<1>2. CASE SyncStep
  <2>1. CASE NothingPending BY <2>1 DEF NothingPending
  <2>2. CASE PublishPending BY <1>1, <2>2 DEF PublishPending, Bundled, Kinds
  <2>3. CASE Quarantine BY <2>3 DEF Quarantine
  <2>4. CASE Fetch BY <2>4 DEF Fetch
  <2>5. CASE UpToDate BY <2>5 DEF UpToDate
  <2>6. CASE Behind BY <2>6 DEF Behind
  <2>7. CASE Ahead BY <2>7 DEF Ahead
  <2>8. CASE FastForward BY <2>8 DEF FastForward
  <2>9. CASE BeginRebase BY <2>9 DEF BeginRebase
  <2>10. CASE FinishRebase
    <3>1. tracking \o Beyond(tracking, local) \in History
      BY BeyondType DEF History
    <3> QED BY <2>10, <3>1 DEF FinishRebase
  <2>11. CASE Push BY <2>11 DEF Push
  <2>12. CASE SyncAborts BY <2>12 DEF SyncAborts
  <2>13. CASE RebaseStops
    <3>1. dirty' \in SUBSET Changes /\ detached' \in BOOLEAN
      BY <2>13 DEF RebaseStops
    <3>2. pc' \in Steps /\ final' \in BOOLEAN /\ status' \in {"ok", "failed"}
          /\ force' \in BOOLEAN /\ once' \in BOOLEAN
      BY <2>13 DEF RebaseStops
    <3>3. UNCHANGED <<remote, tracking, local, lastHead, outcome, input, concluded, stop, orphan>>
      BY <2>13 DEF RebaseStops
    <3> QED BY <3>1, <3>2, <3>3
  <2> QED BY <1>2, <2>1, <2>2, <2>3, <2>4, <2>5, <2>6, <2>7, <2>8, <2>9, <2>10,
             <2>11, <2>12, <2>13 DEF SyncStep
<1>3. CASE StageStep
  <2>1. CASE StageWrites BY <2>1 DEF StageWrites, WriteArtifacts
  <2>2. ASSUME NEW o \in Outcomes, StageReports(o) PROVE TypeOK'
    BY <2>2 DEF StageReports
  <2>3. CASE StagePublishes BY <1>1, <2>3 DEF StagePublishes, Bundled, Kinds
  <2>4. CASE StagePublishFails BY <2>4 DEF StagePublishFails
  <2>5. CASE StageExits BY <2>5 DEF StageExits
  <2>6. CASE StageTimesOut BY <2>6 DEF StageTimesOut
  <2>7. CASE StagePublishesProgress
    BY <1>1, <2>7 DEF StagePublishesProgress, Bundled, Kinds
  <2> QED BY <1>3, <2>1, <2>2, <2>3, <2>4, <2>5, <2>6, <2>7 DEF StageStep
<1>4. CASE Cycle
  <2>1. CASE SeeStop BY <2>1 DEF SeeStop
  <2>2. CASE BeginCycle BY <2>2 DEF BeginCycle
  <2>3. CASE Wake BY <2>3 DEF Wake
  <2>4. CASE Launch
    <3>1. Sources(local) \subseteq Patch
      BY DEF Sources, ToSet, History
    <3> QED BY <2>4, <3>1 DEF Launch
  <2>5. CASE SkipOutputs
    <3>1. pc' \in Steps /\ final' \in BOOLEAN
      BY <2>5 DEF SkipOutputs
    <3> QED BY <2>5, <3>1 DEF SkipOutputs
  <2>6. CASE AlreadyProcessed BY <2>6 DEF AlreadyProcessed
  <2>7. CASE Settle BY <2>7 DEF Settle, NoStage
  <2> QED BY <1>4, <2>1, <2>2, <2>3, <2>4, <2>5, <2>6, <2>7 DEF Cycle
<1>5. CASE Environment
  <2>1. ASSUME NEW f \in BOOLEAN, NEW o \in BOOLEAN, Start(f, o) PROVE TypeOK'
    BY <2>1, Zenon DEF Start
  <2>2. CASE StartOffMain BY <2>2 DEF StartOffMain
  <2>3. CASE Kill BY <2>3 DEF Kill, NoStage
  <2>4. CASE OrphanWrites
    <3>1. dirty' \in SUBSET Changes
      BY <2>4 DEF OrphanWrites, WriteArtifacts
    <3>2. UNCHANGED <<remote, tracking, local, detached, stop, orphan>>
      BY <2>4 DEF OrphanWrites
    <3>3. UNCHANGED <<pc, final, status, force, once>>
      BY <2>4 DEF OrphanWrites
    <3>4. UNCHANGED <<lastHead, outcome, input, concluded>>
      BY <2>4 DEF OrphanWrites
    <3> QED BY <3>1, <3>2, <3>3, <3>4
  <2>5. CASE OrphanPublishes
    <3>1. local' \in History /\ dirty' \in SUBSET Changes
      BY <1>1, <2>5 DEF OrphanPublishes, Bundled, Kinds
    <3>2. UNCHANGED <<remote, tracking, detached, stop>> /\ orphan' \in BOOLEAN
      BY <2>5 DEF OrphanPublishes
    <3>3. UNCHANGED <<pc, final, status, force, once>>
      BY <2>5 DEF OrphanPublishes
    <3>4. UNCHANGED <<lastHead, outcome, input, concluded>>
      BY <2>5 DEF OrphanPublishes
    <3> QED BY <3>1, <3>2, <3>3, <3>4
  <2>6. CASE Author BY <1>1, <2>6 DEF Author, Kinds
  <2>7. CASE ToggleStop BY <2>7 DEF ToggleStop
  <2>8. CASE PersonEdits BY <2>8 DEF PersonEdits
  <2>9. CASE PersonReverts BY <2>9 DEF PersonReverts
  <2>10. CASE PersonCommits BY <1>1, <2>10 DEF PersonCommits, Kinds
  <2>11. CASE PersonPushes BY <2>11 DEF PersonPushes
  <2>12. CASE PersonPulls BY <2>12 DEF PersonPulls
  <2>13. CASE PersonRepairs
    <3>1. detached' \in BOOLEAN /\ dirty' \in SUBSET Changes
      BY <2>13 DEF PersonRepairs
    <3>2. UNCHANGED <<remote, tracking, local, stop, orphan, lastHead, outcome, input, concluded>>
      BY <2>13 DEF PersonRepairs
    <3>3. UNCHANGED <<pc, final, status, force, once>>
      BY <2>13 DEF PersonRepairs
    <3> QED BY <3>1, <3>2, <3>3
  <2> QED BY <1>5, <2>1, <2>2, <2>3, <2>4, <2>5, <2>6, <2>7, <2>8, <2>9, <2>10,
             <2>11, <2>12, <2>13 DEF Environment
<1>6. CASE UNCHANGED vars BY <1>6
<1> QED BY <1>2, <1>3, <1>4, <1>5, <1>6 DEF Next

\* The variables of the work loop keep their types.
THEOREM TypeCorrect == Spec => []TypeOK
BY InitType, NextType, PTL DEF Spec

-----------------------------------------------------------------------------
(* A processed head has been run *)

\* The synchronisation and the environment: they leave the record alone, and
\* outside the hands of a person they change main only outside the stage, or by
\* a bundle.
LEMMA RecordUntouched ==
  ASSUME CycleInv, PersonAt \cap StageSteps = {}, SyncStep \/ Environment
  PROVE  CycleInv'
<1> USE DEF Goto, Exit, EndCycle, SyncSucceeds, SyncFails, git, ctl, book, data, StageSteps
<1>1. TypeOK'
  BY NextType DEF CycleInv, Next
<1>2. CASE SyncStep
  <2>1. UNCHANGED <<lastHead, concluded>> /\ pc' \notin StageSteps
    <3>1. CASE NothingPending BY <3>1 DEF NothingPending
    <3>2. CASE PublishPending BY <3>2 DEF PublishPending
    <3>3. CASE Quarantine BY <3>3 DEF Quarantine
    <3>4. CASE Fetch BY <3>4 DEF Fetch
    <3>5. CASE UpToDate BY <3>5 DEF UpToDate
    <3>6. CASE Behind BY <3>6 DEF Behind
    <3>7. CASE Ahead BY <3>7 DEF Ahead
    <3>8. CASE FastForward BY <3>8 DEF FastForward
    <3>9. CASE BeginRebase BY <3>9 DEF BeginRebase
    <3>10. CASE FinishRebase BY <3>10 DEF FinishRebase
    <3>11. CASE Push BY <3>11 DEF Push
    <3>12. CASE SyncAborts BY <3>12 DEF SyncAborts
    <3>13. CASE RebaseStops BY <3>13 DEF RebaseStops
    <3> QED BY <1>2, <3>1, <3>2, <3>3, <3>4, <3>5, <3>6, <3>7, <3>8, <3>9, <3>10,
               <3>11, <3>12, <3>13 DEF SyncStep
  <2> QED BY <1>1, <2>1 DEF CycleInv, ProcessedWasRun, StageInputStands, SettlesConclusion
<1>3. CASE Environment
  <2>1. UNCHANGED <<lastHead, concluded>>
    BY <1>3 DEF Environment, Start, StartOffMain, Kill, OrphanWrites, OrphanPublishes, Author,
       ToggleStop, PersonEdits, PersonReverts, PersonCommits, PersonPushes, PersonPulls,
       PersonRepairs
  <2>2. pc' \in StageSteps => UNCHANGED <<pc, outcome, input>>
    BY <1>3 DEF Environment, Start, StartOffMain, Kill, OrphanWrites, OrphanPublishes, Author,
       ToggleStop, PersonEdits, PersonReverts, PersonCommits, PersonPushes, PersonPulls,
       PersonRepairs
  <2>3. pc \in StageSteps => Sources(local') = Sources(local)
    <3> SUFFICES ASSUME pc \in StageSteps PROVE Sources(local') = Sources(local)
      OBVIOUS
    <3>1. CASE OrphanPublishes
      <4>1. local' = local \/ local' = Commit(local, "bundle")
        BY <3>1 DEF OrphanPublishes, Bundled
      <4> QED BY <4>1, BundleAddsNoSource DEF CycleInv, TypeOK
    <3>2. CASE ~OrphanPublishes
      <4>1. local' = local
        BY <1>3, <3>2 DEF Environment, Start, StartOffMain, Kill, OrphanWrites, Author,
           ToggleStop, PersonEdits, PersonReverts, PersonCommits, PersonPushes,
           PersonPulls, PersonRepairs
      <4> QED BY <4>1
    <3> QED BY <3>1, <3>2
  <2> QED
    BY <1>1, <2>1, <2>2, <2>3 DEF CycleInv, ProcessedWasRun, StageInputStands, SettlesConclusion
<1> QED BY <1>2, <1>3

\* A stage keeps the sources it started from, and concludes before it settles.
LEMMA StageConcludes == CycleInv /\ StageStep => CycleInv'
<1> SUFFICES ASSUME CycleInv, StageStep PROVE CycleInv'
  OBVIOUS
<1> USE DEF Goto, git, ctl, book, data, StageSteps
<1>1. TypeOK'
  BY NextType DEF CycleInv, Next
<1>2. UNCHANGED <<lastHead, input>> /\ pc \in StageSteps
  BY DEF StageStep, StageWrites, StageReports, StagePublishesProgress,
     StagePublishes, StagePublishFails, StageExits, StageTimesOut
<1>3. Sources(local') = Sources(local)
  <2>1. local' = local \/ local' = Commit(local, "bundle")
    BY DEF StageStep, StageWrites, StageReports, StagePublishesProgress,
       StagePublishes, StagePublishFails, StageExits, StageTimesOut, Bundled
  <2> QED BY <2>1, BundleAddsNoSource DEF CycleInv, TypeOK
<1>4. concluded \subseteq concluded'
  BY DEF StageStep, StageWrites, StageReports, StagePublishesProgress,
     StagePublishes, StagePublishFails, StageExits, StageTimesOut
<1>5. (pc' = "settle" /\ outcome' \in {"success", "deterministic"}) => input' \in concluded'
  BY DEF StageStep, StageWrites, StageReports, StagePublishesProgress,
     StagePublishes, StagePublishFails, StageExits, StageTimesOut, Conclusive
<1> QED
  BY <1>1, <1>2, <1>3, <1>4, <1>5
  DEF CycleInv, ProcessedWasRun, StageInputStands, SettlesConclusion

\* The record moves to a head that was run, or past outputs of such a head.
LEMMA RecordMoves == CycleInv /\ Cycle => CycleInv'
<1> SUFFICES ASSUME CycleInv, Cycle PROVE CycleInv'
  OBVIOUS
<1> USE DEF Goto, Exit, EndCycle, git, ctl, book, data, StageSteps
<1>1. TypeOK'
  BY NextType DEF CycleInv, Next
<1>2. CASE SeeStop \/ BeginCycle \/ Wake \/ AlreadyProcessed
  BY <1>1, <1>2 DEF SeeStop, BeginCycle, Wake, AlreadyProcessed, CycleInv,
     ProcessedWasRun, StageInputStands, SettlesConclusion
<1>3. CASE Launch
  BY <1>1, <1>3 DEF Launch, CycleInv, ProcessedWasRun, StageInputStands, SettlesConclusion
<1>4. CASE SkipOutputs
  <2>1. lastHead \in History /\ local \in History /\ IsPrefix(lastHead, local)
        /\ SafeOnly(Beyond(lastHead, local))
    BY <1>4 DEF SkipOutputs, OutputsOnly, IsStrictPrefix, CycleInv, TypeOK
  <2>2. Sources(local) = Sources(lastHead) /\ Sources(lastHead) \in concluded
    BY <1>4, <2>1, OutputsHaveSameSources
    DEF CycleInv, ProcessedWasRun, SkipOutputs, OutputsOnly
  <2>3. lastHead' = local /\ concluded' = concluded /\ pc' \notin StageSteps
    BY <1>4 DEF SkipOutputs
  <2> QED
    BY <1>1, <2>2, <2>3 DEF CycleInv, ProcessedWasRun, StageInputStands, SettlesConclusion
<1>5. CASE Settle
  <2>1. pc' \notin StageSteps /\ concluded' = concluded
    BY <1>5 DEF Settle
  <2>2. \/ lastHead' = lastHead
        \/ lastHead' = local /\ Sources(local) \in concluded
    BY <1>5 DEF Settle, CycleInv, StageInputStands, SettlesConclusion
  <2> QED
    BY <1>1, <2>1, <2>2 DEF CycleInv, ProcessedWasRun, StageInputStands, SettlesConclusion
<1> QED BY <1>2, <1>3, <1>4, <1>5 DEF Cycle

LEMMA CycleInvHolds ==
  ASSUME PersonAt \cap StageSteps = {}
  PROVE  Spec => []CycleInv
<1>1. Init => CycleInv
  BY InitType DEF Init, CycleInv, ProcessedWasRun, StageInputStands, SettlesConclusion, StageSteps
<1>2. CycleInv /\ [Next]_vars => CycleInv'
  <2> SUFFICES ASSUME CycleInv, [Next]_vars PROVE CycleInv'
    OBVIOUS
  <2>1. CASE UNCHANGED vars
    BY <2>1 DEF vars, CycleInv, TypeOK, ProcessedWasRun, StageInputStands, SettlesConclusion
  <2> QED BY <2>1, RecordUntouched, StageConcludes, RecordMoves DEF Next
<1> QED
  BY <1>1, <1>2, PTL DEF Spec

\* If nobody uses git in the checkout while a stage runs, no head is ever
\* recorded as processed whose sources no stage has come to a conclusion on.
THEOREM ProcessedInvariant ==
  PersonAt \cap StageSteps = {} => (Spec => []ProcessedWasRun)
<1> SUFFICES ASSUME PersonAt \cap StageSteps = {} PROVE Spec => []ProcessedWasRun
  OBVIOUS
<1>1. CycleInv => ProcessedWasRun
  BY DEF CycleInv
<1> QED
  BY <1>1, CycleInvHolds, PTL

-----------------------------------------------------------------------------
(* HEAD off main *)

\* Off main there is always something to publish.
LEMMA OffMainInvHolds == Spec => []OffMainInv
<1>1. Init => OffMainInv
  BY DEF Init, OffMainInv, OffMainIsInert
<1>2. TypeOK /\ OffMainInv /\ [Next]_vars => OffMainInv'
  <2> SUFFICES ASSUME TypeOK, OffMainInv, [Next]_vars, detached'
               PROVE  /\ pc' \in {"rebasing", "down", "sleep", "top", "publish"}
                      /\ pc' \in {"sleep", "top", "publish"} => "residual" \in dirty'
    BY DEF OffMainInv, OffMainIsInert
  <2> USE DEF OffMainInv, OffMainIsInert, Goto, Exit, git, ctl, book, data
  <2>1. CASE SyncStep
    <3>1. CASE BeginRebase BY <3>1 DEF BeginRebase
    <3>2. CASE RebaseStops BY <3>2 DEF RebaseStops, SyncFails, EndCycle
    <3>3. CASE SyncAborts BY <3>3 DEF SyncAborts, SyncFails, EndCycle
    <3>4. CASE ~BeginRebase /\ ~RebaseStops /\ ~SyncAborts
      BY <2>1, <3>4 DEF SyncStep, NothingPending, PublishPending, Quarantine, Fetch, UpToDate,
         Behind, Ahead, FastForward, FinishRebase, Push
    <3> QED BY <3>1, <3>2, <3>3, <3>4
  <2>2. CASE StageStep
    BY <2>2 DEF StageStep, StageWrites, StageReports, StagePublishesProgress,
       StagePublishes, StagePublishFails, StageExits, StageTimesOut
  <2>3. CASE Cycle
    BY <2>3 DEF Cycle, SeeStop, BeginCycle, Wake, Launch, SkipOutputs, AlreadyProcessed, Settle
  <2>4. CASE Environment
    <3>1. CASE OrphanWrites BY <3>1 DEF OrphanWrites, WriteArtifacts
    <3>2. CASE OrphanPublishes BY <3>2 DEF OrphanPublishes, Bundled
    <3>3. CASE ~OrphanWrites /\ ~OrphanPublishes
      BY <2>4, <3>3 DEF Environment, Start, StartOffMain, Kill, Author, ToggleStop,
         PersonEdits, PersonReverts, PersonCommits, PersonPushes, PersonPulls, PersonRepairs
    <3> QED BY <3>1, <3>2, <3>3
  <2>5. CASE UNCHANGED vars
    BY <2>5 DEF vars
  <2> QED BY <2>1, <2>2, <2>3, <2>4, <2>5 DEF Next
<1> QED
  BY <1>1, <1>2, TypeCorrect, PTL DEF Spec

\* A head off main, left by a kill or by an abort that failed, is never worked
\* on, whatever the person and an orphaned stage do meanwhile.
THEOREM OffMain == Spec => []OffMainIsInert
<1>1. OffMainInv => OffMainIsInert
  BY DEF OffMainInv
<1> QED
  BY <1>1, OffMainInvHolds, PTL

-----------------------------------------------------------------------------
(* Heads, index by index *)

\* The histories that two heads share are the first ones, without a gap.
LEMMA SharedIsInitial ==
  ASSUME NEW a \in History, NEW b \in History
  PROVE  Shared(a, b) = 1..Cardinality(Shared(a, b))
<1> DEFINE Bounds == {n \in Nat : Shared(a, b) \subseteq 1..n}
<1>1. Len(a) \in Nat /\ Len(b) \in Nat /\ Shared(a, b) \subseteq Nat \ {0}
  BY DEF Shared, History
<1>2. Len(a) \in Bounds
  BY <1>1 DEF Shared
<1>3. PICK m \in Bounds : \A n \in Bounds : ~(n < m)
  <2>1. \E m \in Bounds : \A n \in Bounds : ~(<<n, m>> \in OpToRel(<, Nat))
    BY <1>2, NatLessThanWellFounded, WFMin, Zenon
  <2> QED BY <2>1 DEF OpToRel
<1>4. m # 0 => m \in Shared(a, b)
  <2> SUFFICES ASSUME m # 0, m \notin Shared(a, b) PROVE m - 1 \in Bounds
    BY <1>3
  <2> QED BY <1>1, <1>3
<1>5. Shared(a, b) = 1..m
  BY <1>1, <1>3, <1>4 DEF Shared
<1>6. Cardinality(1..m) = m
  <2>1. 1 \in Int /\ m \in Int /\ m \in Nat
    BY <1>3
  <2>2. Cardinality(1..m) = IF 1 > m THEN 0 ELSE m - 1 + 1
    BY <2>1, FS_Interval, Zenon
  <2> QED BY <2>1, <2>2
<1> QED BY <1>5, <1>6

LEMMA PrefixByIndex ==
  ASSUME NEW a \in History, NEW b \in History
  PROVE  IsPrefix(a, b) <=> Len(a) <= Len(b) /\ \A i \in 1..Len(a) : a[i] = b[i]
<1>1. Len(a) \in Nat /\ Len(b) \in Nat
  BY DEF History
<1>2. ASSUME IsPrefix(a, b) PROVE Len(a) <= Len(b) /\ \A i \in 1..Len(a) : a[i] = b[i]
  BY <1>2, BeyondAncestor DEF IsPrefix
<1>3. ASSUME Len(a) <= Len(b), \A i \in 1..Len(a) : a[i] = b[i] PROVE IsPrefix(a, b)
  <2>1. SubSeq(a, 1, Len(a)) = SubSeq(b, 1, Len(a))
    BY <1>1, <1>3 DEF History
  <2> QED BY <1>3, <2>1 DEF IsPrefix
<1> QED BY <1>2, <1>3

LEMMA CommitByIndex ==
  ASSUME NEW h \in History, NEW k \in Kinds
  PROVE  /\ Len(Commit(h, k)) = Len(h) + 1
         /\ \A i \in 1..Len(h) : Commit(h, k)[i] = h[i]
         /\ Commit(h, k)[Len(h) + 1] = [kind |-> k, n |-> Len(h) + 1]
BY DEF Commit, History

\* Beyond cuts where the two heads part.
LEMMA BeyondByIndex ==
  ASSUME NEW a \in History, NEW b \in History
  PROVE  \E m \in 0..Len(b) :
            /\ m <= Len(a) /\ \A i \in 1..m : a[i] = b[i]
            /\ m < Len(a) /\ m < Len(b) => a[m + 1] # b[m + 1]
            /\ Len(Beyond(a, b)) = Len(b) - m
            /\ \A i \in 1..Len(b) - m : Beyond(a, b)[i] = b[i + m]
<1>1. PICK m \in Nat : m = Cardinality(Shared(a, b)) /\ Shared(a, b) = 1..m
  BY SharedFinite, SharedIsInitial
<1>2. Len(a) \in Nat /\ Len(b) \in Nat
  BY DEF History
<1>3. m <= Len(a) /\ m <= Len(b) /\ \A j \in 1..m : a[j] = b[j]
  <2>1. m # 0 => m \in 1..m
    OBVIOUS
  <2>2. \A j \in 1..m : j \in Shared(a, b)
    BY <1>1
  <2>3. CASE m = 0 BY <1>2, <2>3
  <2>4. CASE m # 0
    <3>1. m \in Shared(a, b)
      BY <2>1, <2>2, <2>4
    <3> QED BY <1>2, <2>2, <3>1 DEF Shared
  <2> QED BY <2>3, <2>4
<1>4. ASSUME m < Len(a), m < Len(b), a[m + 1] = b[m + 1] PROVE FALSE
  <2>1. PICK k \in Nat : k = m + 1
    OBVIOUS
  <2>2. k \in 1..Len(a) /\ k <= Len(b) /\ \A j \in 1..k : a[j] = b[j]
    BY <1>2, <1>3, <1>4, <2>1
  <2>3. k \in Shared(a, b)
    BY <2>2 DEF Shared
  <2>4. k \notin 1..m
    BY <2>1
  <2> QED BY <1>1, <2>3, <2>4, Zenon
<1>5. Beyond(a, b) = SubSeq(b, m + 1, Len(b)) /\ b \in Seq(Patch)
  BY <1>1 DEF Beyond, History
<1>6. Len(SubSeq(b, m + 1, Len(b))) = Len(b) - m
  BY <1>1, <1>2, <1>3, <1>5
<1>7. \A i \in 1..Len(b) - m : SubSeq(b, m + 1, Len(b))[i] = b[i + m]
  BY <1>1, <1>2, <1>3, <1>5
<1> QED BY <1>2, <1>3, <1>4, <1>5, <1>6, <1>7

LEMMA JoinByIndex ==
  ASSUME NEW a \in History, NEW b \in History
  PROVE  /\ a \o b \in History /\ Len(a \o b) = Len(a) + Len(b)
         /\ \A i \in 1..Len(a) : (a \o b)[i] = a[i]
         /\ \A i \in Len(a) + 1..Len(a) + Len(b) : (a \o b)[i] = b[i - Len(a)]
<1>1. a \in Seq(Patch) /\ b \in Seq(Patch) /\ Len(a) \in Nat /\ Len(b) \in Nat
  BY DEF History
<1>2. a \o b \in Seq(Patch) /\ Len(a \o b) = Len(a) + Len(b)
  BY <1>1
<1>3. \A i \in 1..Len(a) : (a \o b)[i] = a[i]
  BY <1>1
<1>4. ASSUME NEW i \in Len(a) + 1..Len(a) + Len(b) PROVE (a \o b)[i] = b[i - Len(a)]
  BY <1>1, <1>4
<1> QED BY <1>2, <1>3, <1>4 DEF History

LEMMA SuffixByIndex ==
  ASSUME NEW a \in History, NEW h \in History, IsPrefix(a, h)
  PROVE  /\ Len(Beyond(a, h)) = Len(h) - Len(a)
         /\ \A i \in 1..Len(h) - Len(a) : Beyond(a, h)[i] = h[Len(a) + i]
         /\ a # h => Len(a) < Len(h) /\ Beyond(a, h) # <<>>
<1>1. Len(a) \in Nat /\ Len(h) \in Nat /\ a \in Seq(Patch) /\ h \in Seq(Patch)
  BY DEF History
<1>2. Len(a) <= Len(h) /\ \A i \in 1..Len(a) : a[i] = h[i]
  BY PrefixByIndex
<1>3. Beyond(a, h) = SubSeq(h, Len(a) + 1, Len(h))
  BY BeyondAncestor
<1>4. Len(Beyond(a, h)) = Len(h) - Len(a)
      /\ \A i \in 1..Len(h) - Len(a) : Beyond(a, h)[i] = h[Len(a) + i]
  BY <1>1, <1>2, <1>3
<1>5. ASSUME a # h PROVE Len(a) < Len(h)
  <2> SUFFICES ASSUME Len(a) = Len(h) PROVE a = h
    BY <1>1, <1>2, <1>5
  <2> QED BY <1>1, <1>2
<1>6. Len(Beyond(a, h)) # 0 => Beyond(a, h) # <<>>
  OBVIOUS
<1> QED BY <1>1, <1>4, <1>5, <1>6

-----------------------------------------------------------------------------
(* Nothing is lost *)

LEMMA PrefixContent ==
  ASSUME NEW a \in History, NEW b \in History, IsPrefix(a, b)
  PROVE  ToSet(a) \subseteq ToSet(b)
<1>1. Len(a) <= Len(b) /\ DOMAIN a = 1..Len(a) /\ DOMAIN b = 1..Len(b)
      /\ Len(a) \in Nat /\ Len(b) \in Nat
  BY DEF IsPrefix, History
<1>2. \A i \in 1..Len(a) : b[i] = a[i]
  BY BeyondAncestor
<1> QED BY <1>1, <1>2 DEF ToSet

\* Rebasing keeps every patch: the shared ones are in the new base.
LEMMA RebaseContent ==
  ASSUME NEW a \in History, NEW b \in History
  PROVE  ToSet(b) \subseteq ToSet(a \o Beyond(a, b))
<1> DEFINE s == Beyond(a, b)
           r == a \o s
<1>1. PICK m \in 0..Len(b) :
        /\ m <= Len(a) /\ \A i \in 1..m : a[i] = b[i]
        /\ Len(s) = Len(b) - m
        /\ \A i \in 1..Len(b) - m : s[i] = b[i + m]
  BY BeyondByIndex
<1>2. Len(a) \in Nat /\ Len(b) \in Nat /\ DOMAIN b = 1..Len(b) /\ s \in History
  BY BeyondType DEF History
<1>3. /\ Len(r) = Len(a) + Len(s) /\ DOMAIN r = 1..Len(r)
      /\ \A i \in 1..Len(a) : r[i] = a[i]
      /\ \A i \in Len(a) + 1..Len(a) + Len(s) : r[i] = s[i - Len(a)]
  BY <1>2, JoinByIndex DEF History
<1>4. ASSUME NEW i \in 1..Len(b) PROVE \E k \in DOMAIN r : r[k] = b[i]
  <2>1. CASE i <= m
    <3>1. i \in 1..m /\ i \in 1..Len(a) /\ i \in 1..Len(r)
      BY <1>1, <1>2, <1>3, <2>1
    <3> QED BY <1>1, <1>3, <3>1
  <2>2. CASE i > m
    <3> DEFINE k == Len(a) + (i - m)
    <3>1. /\ i - m \in 1..Len(b) - m /\ k - Len(a) = i - m /\ (i - m) + m = i
          /\ k \in Len(a) + 1..Len(a) + Len(s) /\ k \in 1..Len(r)
      BY <1>1, <1>2, <1>3, <2>2
    <3>2. s[i - m] = b[i] /\ r[k] = s[i - m]
      BY <1>1, <1>3, <3>1
    <3> QED BY <1>3, <3>1, <3>2
  <2> QED BY <1>1, <1>2, <2>1, <2>2
<1> QED BY <1>2, <1>4 DEF ToSet

LEMMA PrefixReflexive ==
  ASSUME NEW h PROVE IsPrefix(h, h)
BY DEF IsPrefix

LEMMA CommitExtends ==
  ASSUME NEW h \in History, NEW k \in Kinds
  PROVE  IsPrefix(h, Commit(h, k))
<1>1. Len(Commit(h, k)) = Len(h) + 1 /\ \A i \in 1..Len(h) : Commit(h, k)[i] = h[i]
  BY DEF Commit, History
<1>2. SubSeq(h, 1, Len(h)) = SubSeq(Commit(h, k), 1, Len(h))
  BY <1>1 DEF Commit, History
<1> QED BY <1>1, <1>2 DEF IsPrefix, History

\* The ways in which a step moves the heads
HeadsMove ==
  \/ UNCHANGED <<remote, tracking, local>>
  \/ \E k \in {"bundle", "edit"} : local' = Commit(local, k) /\ UNCHANGED <<remote, tracking>>
  \/ remote' = Commit(remote, "source") /\ UNCHANGED <<tracking, local>>
  \/ tracking' = remote /\ UNCHANGED <<remote, local>>
  \/ IsPrefix(local, tracking) /\ local' = tracking /\ UNCHANGED <<remote, tracking>>
  \/ /\ pc = "rebasing" /\ local' = tracking \o Beyond(tracking, local)
     /\ UNCHANGED <<remote, tracking>>
  \/ IsPrefix(remote, local) /\ remote' = local /\ tracking' = local /\ UNCHANGED local
  \/ IsPrefix(local, remote) /\ local' = remote /\ tracking' = remote /\ UNCHANGED remote

LEMMA StepMovesHeads == [Next]_vars => HeadsMove
<1> SUFFICES ASSUME [Next]_vars PROVE HeadsMove
  OBVIOUS
<1> USE DEF git, ctl, book, data, HeadsMove, Bundled, IsStrictPrefix
<1>1. CASE SyncStep
  BY <1>1 DEF SyncStep, NothingPending, PublishPending, Quarantine, Fetch, UpToDate,
     Behind, Ahead, FastForward, BeginRebase, FinishRebase, Push, RebaseStops, SyncAborts, Goto
<1>2. CASE StageStep
  BY <1>2 DEF StageStep, StageWrites, StageReports, StagePublishesProgress,
     StagePublishes, StagePublishFails, StageExits, StageTimesOut
<1>3. CASE Cycle
  BY <1>3 DEF Cycle, SeeStop, BeginCycle, Wake, Launch, SkipOutputs, AlreadyProcessed, Settle
<1>4. CASE Environment
  BY <1>4 DEF Environment, Start, StartOffMain, Kill, OrphanWrites, OrphanPublishes, Author,
     ToggleStop, PersonEdits, PersonReverts, PersonCommits, PersonPushes, PersonPulls,
     PersonRepairs
<1>5. CASE UNCHANGED vars BY <1>5 DEF vars
<1> QED BY <1>1, <1>2, <1>3, <1>4, <1>5 DEF Next

LEMMA PatchesStay ==
  ASSUME TypeOK, HeadsMove
  PROVE  ToSet(local) \subseteq ToSet(local') /\ IsPrefix(remote, remote')
<1>1. \A k \in Kinds : /\ ToSet(local) \subseteq ToSet(Commit(local, k))
                       /\ IsPrefix(remote, Commit(remote, k))
  BY CommitContent, CommitExtends DEF TypeOK
<1>2. IsPrefix(local, tracking) => ToSet(local) \subseteq ToSet(tracking)
  BY PrefixContent DEF TypeOK
<1>3. IsPrefix(local, remote) => ToSet(local) \subseteq ToSet(remote)
  BY PrefixContent DEF TypeOK
<1>4. ToSet(local) \subseteq ToSet(tracking \o Beyond(tracking, local))
  BY RebaseContent DEF TypeOK
<1> QED BY <1>1, <1>2, <1>3, <1>4, PrefixReflexive DEF HeadsMove, Kinds

\* Every commit that was ever on main, here or on GitHub, stays there.
THEOREM NothingIsLost == Spec => NothingLost
<1>1. TypeOK /\ [Next]_vars
        => (ToSet(local) \subseteq ToSet(local') /\ IsPrefix(remote, remote'))
  BY StepMovesHeads, PatchesStay
<1> QED
  BY <1>1, TypeCorrect, PTL DEF Spec, NothingLost

-----------------------------------------------------------------------------
(* Unsafe changes *)

LEMMA PastPublishHolds ==
  ASSUME PersonAt \cap SyncSteps = {}
  PROVE  Spec => []PastPublish
<1>1. Init => PastPublish
  BY DEF Init, PastPublish, SyncSteps
<1>2. TypeOK /\ PastPublish /\ [Next]_vars => PastPublish'
  <2> SUFFICES ASSUME TypeOK, PastPublish, [Next]_vars, pc' \in SyncSteps \ {"publish"}
               PROVE  "unsafe" \notin dirty'
    BY DEF PastPublish
  <2> USE DEF PastPublish, Goto, Exit, EndCycle, SyncSucceeds, SyncFails, git, ctl, book,
              data, SyncSteps
  <2>1. CASE SyncStep
    <3>1. CASE PublishPending
      BY <3>1 DEF PublishPending, Bundled
    <3>2. CASE ~PublishPending
      BY <2>1, <3>2 DEF SyncStep, NothingPending, Quarantine, Fetch, UpToDate, Behind, Ahead,
         FastForward, BeginRebase, FinishRebase, Push, RebaseStops, SyncAborts, TypeOK
    <3> QED BY <3>1, <3>2
  <2>2. CASE StageStep
    BY <2>2 DEF StageStep, StageWrites, StageReports, StagePublishesProgress,
       StagePublishes, StagePublishFails, StageExits, StageTimesOut
  <2>3. CASE Cycle
    BY <2>3 DEF Cycle, SeeStop, BeginCycle, Wake, Launch, SkipOutputs, AlreadyProcessed, Settle
  <2>4. CASE Environment
    <3>1. CASE OrphanWrites
      BY <3>1 DEF OrphanWrites, WriteArtifacts
    <3>2. CASE OrphanPublishes
      BY <3>2 DEF OrphanPublishes, Bundled
    <3>3. CASE ~OrphanWrites /\ ~OrphanPublishes
      BY <2>4, <3>3 DEF Environment, Start, StartOffMain, Kill, Author, ToggleStop,
         PersonEdits, PersonReverts, PersonCommits, PersonPushes, PersonPulls, PersonRepairs
    <3> QED BY <3>1, <3>2, <3>3
  <2>5. CASE UNCHANGED vars
    BY <2>5 DEF vars
  <2> QED BY <2>1, <2>2, <2>3, <2>4, <2>5 DEF Next
<1> QED
  BY <1>1, <1>2, TypeCorrect, PTL DEF Spec

\* If nobody edits the checkout during a synchronisation, a change outside the
\* safe artifacts stops it before it commits, merges, rebases or pushes.
THEOREM UnsafeStopsSync ==
  PersonAt \cap SyncSteps = {} => (Spec => UnsafeTreeUntouched)
<1> SUFFICES ASSUME PersonAt \cap SyncSteps = {} PROVE Spec => UnsafeTreeUntouched
  OBVIOUS
<1>1. ASSUME PastPublish, [Next]_vars, pc \in SyncSteps, pc' # pc, "unsafe" \in dirty
      PROVE  UNCHANGED <<remote, local, dirty>>
  <2> USE <1>1 DEF PastPublish, Goto, Exit, git, ctl, book, data, SyncSteps
  <2>1. pc = "publish"
    OBVIOUS
  <2>2. CASE SyncStep
    BY <2>1, <2>2 DEF SyncStep, NothingPending, PublishPending, Quarantine, Fetch, UpToDate,
       Behind, Ahead, FastForward, BeginRebase, FinishRebase, Push, RebaseStops, SyncAborts
  <2>3. CASE StageStep
    BY <2>1, <2>3 DEF StageStep, StageWrites, StageReports, StagePublishesProgress,
       StagePublishes, StagePublishFails, StageExits, StageTimesOut
  <2>4. CASE Cycle
    BY <2>1, <2>4 DEF Cycle, SeeStop, BeginCycle, Wake, Launch, SkipOutputs,
       AlreadyProcessed, Settle
  <2>5. CASE Environment
    BY <2>5 DEF Environment, Start, StartOffMain, Kill, OrphanWrites, OrphanPublishes, Author,
       ToggleStop, PersonEdits, PersonReverts, PersonCommits, PersonPushes, PersonPulls,
       PersonRepairs
  <2> QED BY <2>2, <2>3, <2>4, <2>5 DEF Next, vars
<1>2. PastPublish /\ [Next]_vars
        => ((pc \in SyncSteps /\ pc' # pc /\ "unsafe" \in dirty)
             => UNCHANGED <<remote, local, dirty>>)
  BY <1>1
<1> QED
  BY <1>2, PastPublishHolds, PTL DEF Spec, UnsafeTreeUntouched

-----------------------------------------------------------------------------
(* How the heads relate *)

LEMMA CommitNumbered ==
  ASSUME NEW h \in History, NEW k \in Kinds, Numbered(h)
  PROVE  Numbered(Commit(h, k))
<1> DEFINE c == Commit(h, k)
<1>0. Len(h) \in Nat
  BY DEF History
<1>1. /\ Len(c) = Len(h) + 1
      /\ \A i \in 1..Len(h) : c[i] = h[i]
      /\ c[Len(h) + 1] = [kind |-> k, n |-> Len(h) + 1]
  BY CommitByIndex, Zenon
<1>2. c[Len(h) + 1].n = Len(h) + 1
  BY <1>1
<1>3. ASSUME NEW i \in 1..Len(c) PROVE c[i].n <= i /\ (c[i].kind # "bundle" => c[i].n = i)
  <2>1. CASE i = Len(h) + 1
    BY <1>0, <1>2, <2>1
  <2>2. CASE i # Len(h) + 1
    <3>1. i \in 1..Len(h)
      BY <1>0, <1>1, <1>3, <2>2
    <3> QED BY <1>1, <3>1 DEF Numbered
  <2> QED BY <2>1, <2>2
<1> QED BY <1>3 DEF Numbered

\* Rebased bundles only move back.
LEMMA RebaseNumbered ==
  ASSUME NEW a \in History, NEW b \in History, Numbered(a), Numbered(b), SafeOnly(Beyond(a, b))
  PROVE  Numbered(a \o Beyond(a, b))
<1> DEFINE s == Beyond(a, b)
           r == a \o s
<1>1. PICK m \in 0..Len(b) :
        /\ m <= Len(a) /\ Len(s) = Len(b) - m
        /\ \A i \in 1..Len(b) - m : s[i] = b[i + m]
  BY BeyondByIndex
<1>2. /\ Len(a) \in Nat /\ Len(b) \in Nat /\ s \in History
      /\ \A i \in 1..Len(b) : b[i].n \in Nat
  <2>1. s \in History
    BY BeyondType
  <2>2. \A i \in 1..Len(b) : b[i] \in Patch
    BY DEF History
  <2>3. \A x \in Patch : x.n \in Nat
    BY DEF Patch
  <2> QED BY <2>1, <2>2, <2>3 DEF History
<1>3. /\ Len(r) = Len(a) + Len(s)
      /\ \A i \in 1..Len(a) : r[i] = a[i]
      /\ \A i \in Len(a) + 1..Len(a) + Len(s) : r[i] = s[i - Len(a)]
  BY <1>2, JoinByIndex
<1>4. ASSUME NEW i \in 1..Len(r) PROVE r[i].n <= i /\ (r[i].kind # "bundle" => r[i].n = i)
  <2>1. CASE i <= Len(a)
    <3>1. i \in 1..Len(a) /\ r[i] = a[i]
      BY <1>2, <1>3, <2>1
    <3> QED BY <3>1 DEF Numbered
  <2>2. CASE i > Len(a)
    <3> DEFINE j == i - Len(a)
    <3>1. j \in 1..Len(b) - m /\ j \in 1..Len(s) /\ j + m \in 1..Len(b) /\ j + m <= i
          /\ i \in Len(a) + 1..Len(a) + Len(s)
      BY <1>1, <1>2, <1>3, <2>2
    <3>2. r[i] = s[j] /\ s[j] = b[j + m]
      BY <1>1, <1>3, <3>1
    <3>3. s[j].kind = "bundle"
      BY <3>1 DEF SafeOnly
    <3>4. b[j + m].n <= j + m
      BY <3>1 DEF Numbered
    <3>5. r[i].n <= i
      BY <1>2, <3>1, <3>2, <3>4
    <3> QED BY <3>2, <3>3, <3>5
  <2> QED BY <1>2, <2>1, <2>2
<1> QED BY <1>4 DEF Numbered

LEMMA NumberedStays ==
  ASSUME HeadsInv, HeadsMove
  PROVE  Numbered(remote') /\ Numbered(tracking') /\ Numbered(local')
<1>1. remote \in History /\ tracking \in History /\ local \in History
  BY DEF HeadsInv, TypeOK
<1>2. Numbered(remote) /\ Numbered(tracking) /\ Numbered(local)
  BY DEF HeadsInv
<1>3. Numbered(Commit(local, "bundle")) /\ Numbered(Commit(local, "edit"))
      /\ Numbered(Commit(remote, "source"))
  BY <1>1, <1>2, CommitNumbered DEF Kinds
<1>4. pc = "rebasing" => Numbered(tracking \o Beyond(tracking, local))
  BY <1>1, <1>2, RebaseNumbered DEF HeadsInv, OnlyBundlesGo
<1> QED BY <1>2, <1>3, <1>4 DEF HeadsMove

\* Two heads fork after their first m patches.
ForkAt(m, there, here) ==
    /\ m <= Len(there) /\ \A i \in 1..m : there[i] = here[i]
    /\ \A i \in m + 1..Len(there) : there[i].kind = "source"
    /\ \A i \in m + 1..Len(here) : here[i].kind # "source"

LEMMA ForkStays ==
  ASSUME HeadsInv, HeadsMove
  PROVE  Forked' /\ Tracked'
<1>1. /\ remote \in History /\ tracking \in History /\ local \in History
      /\ Len(remote) \in Nat /\ Len(tracking) \in Nat /\ Len(local) \in Nat
  BY DEF HeadsInv, TypeOK, History
<1>2. PICK m \in 0..Len(local) : ForkAt(m, remote, local)
  BY DEF HeadsInv, Forked, ForkAt
<1>3. /\ Len(tracking) <= Len(remote)
      /\ \A i \in 1..Len(tracking) : tracking[i] = remote[i]
      /\ \A i \in Len(tracking) + 1..Len(remote) : remote[i].kind = "source"
  BY <1>1, PrefixByIndex DEF HeadsInv, Tracked
\* It is enough to name where the heads fork.
<1>4. ASSUME NEW n \in Nat, n <= Len(local'), ForkAt(n, remote', local') PROVE Forked'
  <2>1. local' \in Seq(Patch) => Len(local') \in Nat
    OBVIOUS
  <2>2. HeadsMove => local' \in History
    BY <1>1, CommitType, BeyondType, JoinByIndex DEF HeadsMove, Kinds
  <2>3. n \in 0..Len(local')
    BY <1>4, <2>1, <2>2 DEF History
  <2> QED BY <1>4, <2>3 DEF Forked, ForkAt
<1>5. CASE UNCHANGED <<remote, tracking, local>>
  BY <1>5 DEF HeadsInv, Forked, Tracked
<1>6. ASSUME NEW k \in {"bundle", "edit"}, local' = Commit(local, k),
             UNCHANGED <<remote, tracking>>
      PROVE  Forked' /\ Tracked'
  <2>1. /\ Len(local') = Len(local) + 1
        /\ \A i \in 1..Len(local) : local'[i] = local[i]
        /\ local'[Len(local) + 1] = [kind |-> k, n |-> Len(local) + 1]
    BY <1>1, <1>6, CommitByIndex DEF Kinds
  <2>2. local'[Len(local) + 1].kind # "source"
    BY <1>6, <2>1
  <2>3. m <= Len(remote') /\ \A i \in 1..m : remote'[i] = local'[i]
    BY <1>1, <1>2, <1>6, <2>1 DEF ForkAt
  <2>4. ASSUME NEW i \in m + 1..Len(local') PROVE local'[i].kind # "source"
    <3>1. i = Len(local) + 1 \/ (i \in m + 1..Len(local) /\ i \in 1..Len(local))
      BY <1>1, <1>2, <2>1, <2>4
    <3> QED BY <1>2, <2>1, <2>2, <3>1 DEF ForkAt
  <2>5. ForkAt(m, remote', local')
    BY <1>2, <1>6, <2>3, <2>4 DEF ForkAt
  <2> QED BY <1>1, <1>2, <1>4, <1>6, <2>1, <2>5 DEF HeadsInv, Tracked
<1>7. CASE remote' = Commit(remote, "source") /\ UNCHANGED <<tracking, local>>
  <2>1. /\ Len(remote') = Len(remote) + 1
        /\ \A i \in 1..Len(remote) : remote'[i] = remote[i]
        /\ remote'[Len(remote) + 1] = [kind |-> "source", n |-> Len(remote) + 1]
    BY <1>1, <1>7, CommitByIndex DEF Kinds
  <2>2. remote'[Len(remote) + 1].kind = "source"
    BY <2>1
  <2>3. ASSUME NEW j \in Nat, j <= Len(remote),
               \A i \in j + 1..Len(remote) : remote[i].kind = "source"
        PROVE  \A i \in j + 1..Len(remote') : remote'[i].kind = "source"
    <3> SUFFICES ASSUME NEW i \in j + 1..Len(remote') PROVE remote'[i].kind = "source"
      OBVIOUS
    <3>1. i = Len(remote) + 1 \/ (i \in j + 1..Len(remote) /\ i \in 1..Len(remote))
      BY <1>1, <2>1, <2>3
    <3> QED BY <2>1, <2>2, <2>3, <3>1
  <2>4. ForkAt(m, remote', local')
    <3>1. m <= Len(remote') /\ \A i \in 1..m : remote'[i] = local'[i]
      BY <1>1, <1>2, <1>7, <2>1 DEF ForkAt
    <3>2. m \in Nat /\ m <= Len(remote) /\ \A i \in m + 1..Len(remote) : remote[i].kind = "source"
      BY <1>2 DEF ForkAt
    <3>3. \A i \in m + 1..Len(remote') : remote'[i].kind = "source"
      BY <2>3, <3>2
    <3> QED BY <1>2, <1>7, <3>1, <3>3 DEF ForkAt
  <2>5. IsPrefix(tracking, remote')
    <3>1. remote' \in History
      BY <1>1, <1>7, CommitType DEF Kinds
    <3>2. Len(tracking) <= Len(remote') /\ \A i \in 1..Len(tracking) : tracking[i] = remote'[i]
      BY <1>1, <1>3, <2>1
    <3> QED BY <1>1, <3>1, <3>2, PrefixByIndex
  <2>6. \A i \in Len(tracking) + 1..Len(remote') : remote'[i].kind = "source"
    BY <1>1, <1>3, <2>3
  <2>7. Tracked'
    BY <1>7, <2>5, <2>6 DEF Tracked
  <2>8. m \in Nat /\ m <= Len(local')
    BY <1>1, <1>2, <1>7
  <2> QED BY <1>4, <2>4, <2>7, <2>8
<1>8. CASE tracking' = remote /\ UNCHANGED <<remote, local>>
  <2>1. Forked'
    BY <1>8 DEF HeadsInv, Forked
  <2>2. Tracked'
    BY <1>1, <1>8, PrefixReflexive DEF Tracked
  <2> QED BY <2>1, <2>2
<1>9. CASE local' = tracking /\ UNCHANGED <<remote, tracking>>
  <2>1. ForkAt(Len(tracking), remote', local')
    BY <1>1, <1>3, <1>9 DEF ForkAt
  <2> QED BY <1>1, <1>4, <1>9, <2>1 DEF HeadsInv, Tracked
<1>10. CASE pc = "rebasing" /\ local' = tracking \o Beyond(tracking, local)
              /\ UNCHANGED <<remote, tracking>>
  <2> DEFINE s == Beyond(tracking, local)
  <2>1. s \in History /\ \A i \in 1..Len(s) : s[i].kind = "bundle"
    BY <1>1, <1>10, BeyondType DEF HeadsInv, OnlyBundlesGo, SafeOnly
  <2>2. /\ Len(local') = Len(tracking) + Len(s)
        /\ \A i \in 1..Len(tracking) : local'[i] = tracking[i]
        /\ \A i \in Len(tracking) + 1..Len(tracking) + Len(s) : local'[i] = s[i - Len(tracking)]
    BY <1>1, <1>10, <2>1, JoinByIndex
  <2>3. Len(s) \in Nat
    BY <2>1 DEF History
  <2>4. ASSUME NEW i \in Len(tracking) + 1..Len(local') PROVE local'[i].kind # "source"
    <3>1. i - Len(tracking) \in 1..Len(s)
      BY <1>1, <2>2, <2>3, <2>4
    <3>2. s[i - Len(tracking)].kind = "bundle"
      BY <2>1, <3>1
    <3> QED BY <2>2, <2>4, <3>2
  <2>5. ForkAt(Len(tracking), remote', local')
    BY <1>1, <1>3, <1>10, <2>2, <2>4 DEF ForkAt
  <2> QED BY <1>1, <1>4, <1>10, <2>2, <2>3, <2>5 DEF HeadsInv, Tracked
<1>11. CASE UNCHANGED local /\ remote' = local /\ tracking' = local
  <2>1. ForkAt(Len(local), remote', local')
    BY <1>1, <1>11 DEF ForkAt
  <2>2. Tracked'
    BY <1>1, <1>11, PrefixReflexive DEF Tracked
  <2> QED BY <1>1, <1>4, <1>11, <2>1, <2>2
<1>12. CASE UNCHANGED remote /\ local' = remote /\ tracking' = remote
  <2>1. ForkAt(Len(remote), remote', local')
    BY <1>1, <1>12 DEF ForkAt
  <2>2. Tracked'
    BY <1>1, <1>12, PrefixReflexive DEF Tracked
  <2> QED BY <1>1, <1>4, <1>12, <2>1, <2>2
<1> QED BY <1>5, <1>6, <1>7, <1>8, <1>9, <1>10, <1>11, <1>12 DEF HeadsMove

\* Two heads part after m patches, and from there the second has only bundles.
PartedAt(m, there, here) ==
    /\ m < Len(there) /\ m < Len(here)
    /\ \A i \in 1..m : there[i] = here[i]
    /\ there[m + 1] # here[m + 1]
    /\ \A i \in m + 1..Len(here) : here[i].kind = "bundle"

LEMMA PartingIsSeen ==
  ASSUME NEW a \in History, NEW b \in History, ~IsPrefix(a, b), SafeOnly(Beyond(a, b))
  PROVE  \E m \in Nat : PartedAt(m, a, b)
<1>1. PICK m \in 0..Len(b) :
        /\ m <= Len(a) /\ \A i \in 1..m : a[i] = b[i]
        /\ m < Len(a) /\ m < Len(b) => a[m + 1] # b[m + 1]
        /\ Len(Beyond(a, b)) = Len(b) - m
        /\ \A i \in 1..Len(b) - m : Beyond(a, b)[i] = b[i + m]
  BY BeyondByIndex
<1>2. Len(a) \in Nat /\ Len(b) \in Nat /\ m \in Nat /\ Beyond(a, b) \in Seq(Patch)
  BY BeyondType DEF History
<1>3. m # Len(a)
  <2>1. m = Len(a) => Len(a) <= Len(b) /\ \A i \in 1..Len(a) : a[i] = b[i]
    BY <1>1, <1>2
  <2> QED BY <2>1, PrefixByIndex
<1>4. Len(b) - m # 0
  BY <1>1, <1>2 DEF SafeOnly
<1>5. ASSUME NEW i \in m + 1..Len(b) PROVE b[i].kind = "bundle"
  <2>1. i - m \in 1..Len(b) - m /\ (i - m) + m = i
    BY <1>2, <1>5
  <2>2. Beyond(a, b)[i - m] = b[i]
    BY <1>1, <2>1
  <2> QED BY <1>1, <2>1, <2>2 DEF SafeOnly
<1>6. m < Len(a) /\ m < Len(b)
  BY <1>1, <1>2, <1>3, <1>4
<1>7. PartedAt(m, a, b)
  BY <1>1, <1>5, <1>6 DEF PartedAt
<1> QED BY <1>2, <1>7

LEMMA PartingIsSafe ==
  ASSUME NEW a \in History, NEW b \in History, NEW m \in Nat, PartedAt(m, a, b)
  PROVE  ~IsPrefix(a, b) /\ ~IsPrefix(b, a) /\ SafeOnly(Beyond(a, b))
<1>1. Len(a) \in Nat /\ Len(b) \in Nat /\ m + 1 \in 1..Len(a) /\ m + 1 \in 1..Len(b)
  BY DEF History, PartedAt
<1>2. a[m + 1] # b[m + 1]
  BY DEF PartedAt
<1>3. ~IsPrefix(a, b) /\ ~IsPrefix(b, a)
  BY <1>1, <1>2, PrefixByIndex
<1>4. PICK k \in 0..Len(b) :
        /\ k <= Len(a) /\ \A i \in 1..k : a[i] = b[i]
        /\ k < Len(a) /\ k < Len(b) => a[k + 1] # b[k + 1]
        /\ Len(Beyond(a, b)) = Len(b) - k
        /\ \A i \in 1..Len(b) - k : Beyond(a, b)[i] = b[i + k]
  BY BeyondByIndex
<1>5. k = m
  <2>1. ~ (m + 1 \in 1..k)
    BY <1>2, <1>4
  <2>2. k <= m
    BY <1>1, <1>4, <2>1
  <2>3. k < m => k + 1 \in 1..m /\ k < Len(a) /\ k < Len(b)
    BY <1>1, <1>4
  <2>4. \A i \in 1..m : a[i] = b[i]
    BY DEF PartedAt
  <2> QED BY <1>4, <2>2, <2>3, <2>4
<1>6. Len(Beyond(a, b)) # 0
  BY <1>1, <1>4, <1>5
<1>7. ASSUME NEW i \in 1..Len(Beyond(a, b)) PROVE Beyond(a, b)[i].kind = "bundle"
  <2>1. i \in 1..Len(b) - m /\ i + m \in m + 1..Len(b)
    BY <1>1, <1>4, <1>5, <1>7
  <2> QED BY <1>4, <1>5, <2>1 DEF PartedAt
<1>8. Beyond(a, b) # <<>>
  BY <1>6
<1> QED BY <1>3, <1>7, <1>8 DEF SafeOnly

\* A bundle more does not bring the heads together.
LEMMA BundleStaysParted ==
  ASSUME NEW a \in History, NEW b \in History, ~IsPrefix(a, b), SafeOnly(Beyond(a, b))
  PROVE  ~IsPrefix(a, Commit(b, "bundle")) /\ SafeOnly(Beyond(a, Commit(b, "bundle")))
<1> DEFINE c == Commit(b, "bundle")
<1>1. PICK m \in Nat : PartedAt(m, a, b)
  BY PartingIsSeen
<1>2. /\ c \in History /\ Len(a) \in Nat /\ Len(b) \in Nat /\ Len(c) = Len(b) + 1
      /\ \A i \in 1..Len(b) : c[i] = b[i]
      /\ c[Len(b) + 1] = [kind |-> "bundle", n |-> Len(b) + 1]
  <2>1. "bundle" \in Kinds
    BY DEF Kinds
  <2>2. Len(a) \in Nat /\ Len(b) \in Nat
    BY DEF History
  <2> QED BY <2>1, <2>2, CommitType, CommitByIndex
<1>3. c[Len(b) + 1].kind = "bundle"
  <2>1. [kind |-> "bundle", n |-> Len(b) + 1].kind = "bundle"
    OBVIOUS
  <2> QED BY <1>2, <2>1, Zenon
<1>4. ASSUME NEW i \in m + 1..Len(c) PROVE c[i].kind = "bundle"
  <2>1. i = Len(b) + 1 \/ (i \in m + 1..Len(b) /\ i \in 1..Len(b))
    BY <1>2, <1>4
  <2> QED BY <1>1, <1>2, <1>3, <2>1 DEF PartedAt
<1>5. m < Len(a) /\ m < Len(c) /\ \A i \in 1..m : a[i] = c[i]
  BY <1>1, <1>2 DEF PartedAt
<1>6. a[m + 1] # c[m + 1]
  <2>1. m + 1 \in 1..Len(b)
    BY <1>1, <1>2 DEF PartedAt
  <2> QED BY <1>1, <1>2, <2>1 DEF PartedAt
<1>7. PartedAt(m, a, c)
  BY <1>4, <1>5, <1>6 DEF PartedAt
<1> QED BY <1>2, <1>7, PartingIsSafe

\* Who is on the way to a push, and with what
OnTheWay ==
  \/ /\ pc' = pc \/ (pc = "rebase" /\ pc' = "rebasing")
     /\ tracking' = tracking /\ local' \in {local, Commit(local, "bundle")}
  \/ /\ pc = "compare" /\ UNCHANGED <<tracking, local>>
     /\ ~IsPrefix(local, tracking) /\ SafeOnly(Beyond(tracking, local))
     /\ pc' = IF IsPrefix(tracking, local) THEN "push" ELSE "rebase"
  \/ /\ pc = "rebasing" /\ pc' = "push"
     /\ tracking' = tracking /\ local' = tracking \o Beyond(tracking, local)

LEMMA StepsOnTheWay ==
  ASSUME PersonAt \cap SyncSteps = {}, [Next]_vars, pc' \in {"rebase", "rebasing", "push"}
  PROVE  OnTheWay
<1> USE DEF OnTheWay, Goto, Exit, EndCycle, SyncSucceeds, SyncFails, git, ctl, book, data,
            SyncSteps
<1>1. CASE SyncStep
  BY <1>1 DEF SyncStep, NothingPending, PublishPending, Quarantine, Fetch, UpToDate,
     Behind, Ahead, FastForward, BeginRebase, FinishRebase, Push, RebaseStops, SyncAborts
<1>2. CASE StageStep
  BY <1>2 DEF StageStep, StageWrites, StageReports, StagePublishesProgress,
     StagePublishes, StagePublishFails, StageExits, StageTimesOut
<1>3. CASE Cycle
  BY <1>3 DEF Cycle, SeeStop, BeginCycle, Wake, Launch, SkipOutputs, AlreadyProcessed, Settle
<1>4. CASE Environment
  BY <1>4 DEF Environment, Start, StartOffMain, Kill, OrphanWrites, OrphanPublishes, Bundled,
     Author, ToggleStop, PersonEdits, PersonReverts, PersonCommits, PersonPushes, PersonPulls,
     PersonRepairs
<1>5. CASE UNCHANGED vars
  BY <1>5 DEF vars
<1> QED BY <1>1, <1>2, <1>3, <1>4, <1>5 DEF Next

LEMMA OnlyBundlesStay ==
  ASSUME HeadsInv, OnTheWay
  PROVE  OnlyBundlesGo'
<1>1. /\ tracking \in History /\ local \in History
      /\ Len(tracking) \in Nat /\ Len(local) \in Nat
  BY DEF HeadsInv, TypeOK, History
<1>2. CASE /\ pc' = pc \/ (pc = "rebase" /\ pc' = "rebasing")
           /\ tracking' = tracking /\ local' = local
  BY <1>2 DEF HeadsInv, OnlyBundlesGo
<1>3. CASE /\ pc' = pc \/ (pc = "rebase" /\ pc' = "rebasing")
           /\ tracking' = tracking /\ local' = Commit(local, "bundle")
  <2>1. /\ Len(local') = Len(local) + 1
        /\ \A i \in 1..Len(local) : local'[i] = local[i]
        /\ local'[Len(local) + 1] = [kind |-> "bundle", n |-> Len(local) + 1]
    BY <1>1, <1>3, CommitByIndex DEF Kinds
  <2>2. local'[Len(local) + 1].kind = "bundle" /\ local' \in History
    BY <1>1, <1>3, <2>1, CommitType DEF Kinds
  <2>3. pc' \in {"rebase", "rebasing"} =>
          ~IsPrefix(tracking', local') /\ SafeOnly(Beyond(tracking', local'))
    BY <1>1, <1>3, BundleStaysParted DEF HeadsInv, OnlyBundlesGo
  <2>4. ASSUME pc' = "push"
        PROVE  /\ IsPrefix(tracking', local')
               /\ \A i \in Len(tracking') + 1..Len(local') : local'[i].kind = "bundle"
    <3>1. /\ IsPrefix(tracking, local)
          /\ \A i \in Len(tracking) + 1..Len(local) : local[i].kind = "bundle"
      BY <1>3, <2>4 DEF HeadsInv, OnlyBundlesGo
    <3>2. Len(tracking) <= Len(local) /\ \A i \in 1..Len(tracking) : tracking[i] = local[i]
      BY <1>1, <3>1, PrefixByIndex
    <3>3. IsPrefix(tracking, local')
      <4>1. Len(tracking) <= Len(local') /\ \A i \in 1..Len(tracking) : tracking[i] = local'[i]
        BY <1>1, <2>1, <3>2
      <4> QED BY <1>1, <2>2, <4>1, PrefixByIndex
    <3>4. ASSUME NEW i \in Len(tracking) + 1..Len(local') PROVE local'[i].kind = "bundle"
      <4>1. i = Len(local) + 1 \/ (i \in Len(tracking) + 1..Len(local) /\ i \in 1..Len(local))
        BY <1>1, <2>1, <3>4
      <4> QED BY <2>1, <2>2, <3>1, <4>1
    <3> QED BY <1>3, <3>3, <3>4
  <2> QED BY <2>3, <2>4 DEF OnlyBundlesGo
<1>4. CASE /\ pc = "compare" /\ UNCHANGED <<tracking, local>>
           /\ ~IsPrefix(local, tracking) /\ SafeOnly(Beyond(tracking, local))
           /\ pc' = IF IsPrefix(tracking, local) THEN "push" ELSE "rebase"
  <2>1. ASSUME IsPrefix(tracking, local), NEW i \in Len(tracking) + 1..Len(local)
        PROVE  local[i].kind = "bundle"
    <3>1. Beyond(tracking, local) = SubSeq(local, Len(tracking) + 1, Len(local))
          /\ local \in Seq(Patch)
      BY <1>1, <2>1, BeyondAncestor DEF History
    <3>2. i - Len(tracking) \in 1..Len(Beyond(tracking, local))
          /\ Beyond(tracking, local)[i - Len(tracking)] = local[i]
      BY <1>1, <2>1, <3>1
    <3> QED BY <1>4, <3>2 DEF SafeOnly
  <2> QED BY <1>4, <2>1 DEF OnlyBundlesGo
<1>5. CASE /\ pc = "rebasing" /\ pc' = "push"
           /\ tracking' = tracking /\ local' = tracking \o Beyond(tracking, local)
  <2> DEFINE s == Beyond(tracking, local)
  <2>1. s \in History /\ Len(s) \in Nat /\ \A i \in 1..Len(s) : s[i].kind = "bundle"
    <3>1. s \in History
      BY <1>1, BeyondType
    <3>2. SafeOnly(s)
      BY <1>5 DEF HeadsInv, OnlyBundlesGo
    <3>3. Len(s) \in Nat
      BY <3>1 DEF History
    <3> QED BY <3>1, <3>2, <3>3 DEF SafeOnly
  <2>2. /\ local' \in History /\ Len(local') = Len(tracking) + Len(s)
        /\ \A i \in 1..Len(tracking) : local'[i] = tracking[i]
        /\ \A i \in Len(tracking) + 1..Len(tracking) + Len(s) : local'[i] = s[i - Len(tracking)]
    BY <1>1, <1>5, <2>1, JoinByIndex
  <2>3. IsPrefix(tracking, local')
    <3>1. Len(tracking) <= Len(local') /\ \A i \in 1..Len(tracking) : tracking[i] = local'[i]
      BY <1>1, <2>1, <2>2
    <3> QED BY <1>1, <2>2, <3>1, PrefixByIndex
  <2>4. ASSUME NEW i \in Len(tracking) + 1..Len(local') PROVE local'[i].kind = "bundle"
    <3>1. i - Len(tracking) \in 1..Len(s)
      BY <1>1, <2>1, <2>2, <2>4
    <3> QED BY <2>1, <2>2, <2>4, <3>1
  <2> QED BY <1>5, <2>3, <2>4 DEF OnlyBundlesGo
<1> QED BY <1>2, <1>3, <1>4, <1>5 DEF OnTheWay

\* The head on record is changed only to the head of main.
LEMMA RecordFollows ==
  ASSUME [Next]_vars
  PROVE  lastHead' = lastHead \/ (lastHead' = local /\ local' = local)
<1> USE DEF git, ctl, book, data
<1>1. CASE SyncStep
  BY <1>1 DEF SyncStep, NothingPending, PublishPending, Quarantine, Fetch, UpToDate,
     Behind, Ahead, FastForward, BeginRebase, FinishRebase, Push, RebaseStops, SyncAborts
<1>2. CASE StageStep
  BY <1>2 DEF StageStep, StageWrites, StageReports, StagePublishesProgress,
     StagePublishes, StagePublishFails, StageExits, StageTimesOut
<1>3. CASE Cycle
  BY <1>3 DEF Cycle, SeeStop, BeginCycle, Wake, Launch, SkipOutputs, AlreadyProcessed, Settle
<1>4. CASE Environment
  BY <1>4 DEF Environment, Start, StartOffMain, Kill, OrphanWrites, OrphanPublishes, Author,
     ToggleStop, PersonEdits, PersonReverts, PersonCommits, PersonPushes, PersonPulls,
     PersonRepairs
<1>5. CASE UNCHANGED vars BY <1>5 DEF vars
<1> QED BY <1>1, <1>2, <1>3, <1>4, <1>5 DEF Next

\* Either main grows, or it gains a source that it never had.
LEMMA LocalGrows ==
  ASSUME HeadsInv, HeadsMove
  PROVE  IsPrefix(local, local') \/ \E x \in Sources(local') : x \notin Sources(local)
<1>1. /\ remote \in History /\ tracking \in History /\ local \in History
      /\ Len(remote) \in Nat /\ Len(tracking) \in Nat /\ Len(local) \in Nat
  BY DEF HeadsInv, TypeOK, History
<1>2. \A k \in Kinds : IsPrefix(local, Commit(local, k))
  BY <1>1, CommitExtends
<1>3. CASE pc = "rebasing" /\ local' = tracking \o Beyond(tracking, local)
  <2>1. PICK m \in Nat : PartedAt(m, tracking, local)
    BY <1>1, <1>3, PartingIsSeen DEF HeadsInv, OnlyBundlesGo
  <2>2. PICK f \in 0..Len(local) : ForkAt(f, remote, local)
    BY DEF HeadsInv, Forked, ForkAt
  <2>3. /\ Len(tracking) <= Len(remote)
        /\ \A i \in 1..Len(tracking) : tracking[i] = remote[i]
    BY <1>1, PrefixByIndex DEF HeadsInv, Tracked
  <2>4. PICK p \in Nat : p = m + 1
    OBVIOUS
  <2>5. /\ p \in 1..Len(tracking) /\ p \in 1..Len(local) /\ p \in 1..Len(remote)
        /\ tracking[p] = remote[p] /\ remote[p] # local[p]
    BY <1>1, <2>1, <2>3, <2>4 DEF PartedAt
  <2>6. f <= m
    <3>1. \A i \in 1..f : remote[i] = local[i]
      BY <2>2 DEF ForkAt
    <3>2. p \notin 1..f
      BY <2>5, <3>1
    <3> QED BY <2>2, <2>4, <2>5, <3>2
  <2>7. p \in f + 1..Len(remote)
    BY <1>1, <2>2, <2>4, <2>5, <2>6
  <2>8. remote[p].kind = "source"
    BY <2>2, <2>7 DEF ForkAt
  <2>9. remote[p].n = p
    BY <2>5, <2>8 DEF HeadsInv, Numbered
  <2>10. remote[p] \notin Sources(local)
    <3> SUFFICES ASSUME NEW i \in 1..Len(local), local[i] = remote[p] PROVE FALSE
      BY <1>1 DEF Sources, ToSet, History
    <3>1. i \notin f + 1..Len(local)
      BY <2>2, <2>8 DEF ForkAt
    <3>2. i <= f
      BY <1>1, <2>2, <3>1
    <3>3. local[i].n <= i
      BY DEF HeadsInv, Numbered
    <3> QED BY <2>2, <2>4, <2>6, <2>9, <3>2, <3>3
  <2>11. remote[p] \in Sources(local')
    <3>1. /\ Beyond(tracking, local) \in History /\ local' \in History
          /\ Len(local') = Len(tracking) + Len(Beyond(tracking, local))
          /\ \A i \in 1..Len(tracking) : local'[i] = tracking[i]
      BY <1>1, <1>3, BeyondType, JoinByIndex
    <3>2. Len(Beyond(tracking, local)) \in Nat /\ DOMAIN local' = 1..Len(local')
      BY <3>1 DEF History
    <3>3. p \in DOMAIN local' /\ local'[p] = remote[p]
      BY <1>1, <2>5, <3>1, <3>2
    <3> QED BY <2>8, <3>3 DEF Sources, ToSet
  <2> QED BY <2>10, <2>11
<1> QED BY <1>2, <1>3, PrefixReflexive DEF HeadsMove, Kinds

LEMMA PrefixTransitive ==
  ASSUME NEW a \in History, NEW b \in History, NEW c \in History,
         IsPrefix(a, b), IsPrefix(b, c)
  PROVE  IsPrefix(a, c)
<1>1. Len(a) \in Nat /\ Len(b) \in Nat /\ Len(c) \in Nat
  BY DEF History
<1>2. Len(a) <= Len(b) /\ \A i \in 1..Len(a) : a[i] = b[i]
  BY PrefixByIndex
<1>3. Len(b) <= Len(c) /\ \A i \in 1..Len(b) : b[i] = c[i]
  BY PrefixByIndex
<1>4. Len(a) <= Len(c) /\ \A i \in 1..Len(a) : a[i] = c[i]
  BY <1>1, <1>2, <1>3
<1> QED BY <1>4, PrefixByIndex

LEMMA RecordStaysBehind ==
  ASSUME HeadsInv, HeadsMove, TypeOK',
         lastHead' = lastHead \/ (lastHead' = local /\ local' = local)
  PROVE  RecordIsBehind'
<1>1. CASE lastHead' = local /\ local' = local
  BY <1>1, PrefixReflexive DEF RecordIsBehind
<1>2. CASE lastHead' = lastHead
  <2> SUFFICES ASSUME lastHead # NoHead
               PROVE  /\ Sources(lastHead) \subseteq Sources(local')
                      /\ Sources(lastHead) = Sources(local') => IsPrefix(lastHead, local')
    BY <1>2 DEF RecordIsBehind
  <2>1. lastHead \in History /\ local \in History /\ local' \in History
    BY DEF HeadsInv, TypeOK
  <2>2. /\ Sources(lastHead) \subseteq Sources(local)
        /\ Sources(lastHead) = Sources(local) => IsPrefix(lastHead, local)
    BY DEF HeadsInv, RecordIsBehind
  <2>3. Sources(local) \subseteq Sources(local')
    <3>1. ToSet(local) \subseteq ToSet(local')
      BY PatchesStay DEF HeadsInv
    <3> QED BY <3>1 DEF Sources
  <2>4. ASSUME Sources(lastHead) = Sources(local') PROVE IsPrefix(lastHead, local')
    <3>1. Sources(lastHead) = Sources(local) /\ Sources(local') = Sources(local)
      BY <2>2, <2>3, <2>4
    <3>2. IsPrefix(local, local')
      BY <3>1, LocalGrows
    <3> QED BY <2>1, <2>2, <3>1, <3>2, PrefixTransitive
  <2> QED BY <2>2, <2>3, <2>4
<1> QED BY <1>1, <1>2

\* If nobody edits the checkout during a synchronisation, main here, its remote
\* and the recorded head only ever differ by bundles the device added
\* (sync_main and record_processed_head, run_s25u_autopilot.sh 450-499).
THEOREM HeadsInvariant ==
  PersonAt \cap SyncSteps = {} => (Spec => []HeadsInv)
<1> SUFFICES ASSUME PersonAt \cap SyncSteps = {} PROVE Spec => []HeadsInv
  OBVIOUS
<1>1. Init => HeadsInv
  <2> SUFFICES ASSUME Init PROVE HeadsInv
    OBVIOUS
  <2>1. /\ Len(FirstHead) = 1 /\ FirstHead[1].kind = "source" /\ FirstHead[1].n = 1
    BY DEF FirstHead
  <2>2. Numbered(FirstHead)
    BY <2>1 DEF Numbered
  <2>3. Forked
    <3>1. 1 \in 0..Len(local) /\ remote = local /\ Len(local) = 1
      BY <2>1 DEF Init
    <3>2. \A i \in 1 + 1..Len(local) : FALSE
      BY <3>1
    <3> QED BY <3>1, <3>2 DEF Forked
  <2>4. Tracked
    <3>1. tracking = remote /\ Len(remote) = 1
      BY <2>1 DEF Init
    <3>2. \A i \in Len(tracking) + 1..Len(remote) : FALSE
      BY <3>1
    <3> QED BY <3>1, <3>2, PrefixReflexive DEF Tracked
  <2>5. OnlyBundlesGo /\ RecordIsBehind
    BY DEF Init, OnlyBundlesGo, RecordIsBehind
  <2> QED BY <2>2, <2>3, <2>4, <2>5, InitType DEF Init, HeadsInv
<1>2. HeadsInv /\ [Next]_vars => HeadsInv'
  <2> SUFFICES ASSUME HeadsInv, [Next]_vars PROVE HeadsInv'
    OBVIOUS
  <2>1. TypeOK'
    BY NextType DEF HeadsInv
  <2>2. HeadsMove
    BY StepMovesHeads
  <2>3. Numbered(remote') /\ Numbered(tracking') /\ Numbered(local')
    BY <2>2, NumberedStays
  <2>4. Forked' /\ Tracked'
    BY <2>2, ForkStays
  <2>5. OnlyBundlesGo'
    <3>1. CASE pc' \in {"rebase", "rebasing", "push"}
      BY <3>1, StepsOnTheWay, OnlyBundlesStay
    <3>2. CASE pc' \notin {"rebase", "rebasing", "push"}
      BY <3>2 DEF OnlyBundlesGo
    <3> QED BY <3>1, <3>2
  <2>6. RecordIsBehind'
    BY <2>1, <2>2, RecordFollows, RecordStaysBehind
  <2> QED BY <2>1, <2>3, <2>4, <2>5, <2>6 DEF HeadsInv
<1> QED BY <1>1, <1>2, PTL DEF Spec

\* If nobody edits the checkout during a synchronisation, the automatic push
\* only adds bundles to main on GitHub: what the script tested before the rebase
\* is still so after it.
THEOREM PushesBundlesOnly ==
  PersonAt \cap SyncSteps = {} => (Spec => OnlyBundlesPushed)
<1> SUFFICES ASSUME PersonAt \cap SyncSteps = {} PROVE Spec => OnlyBundlesPushed
  OBVIOUS
<1>1. ASSUME HeadsInv, [Next]_vars, pc = "push", pc' # "push"
      PROVE  /\ IsPrefix(remote, remote')
             /\ remote' # remote => SafeOnly(Beyond(remote, remote'))
  <2>1. remote' = remote \/ (remote' = local /\ IsPrefix(remote, local))
    <3> USE <1>1 DEF Goto, Exit, git, ctl, book, data, SyncSteps
    <3>1. CASE SyncStep
      BY <3>1 DEF SyncStep, NothingPending, PublishPending, Quarantine, Fetch, UpToDate,
         Behind, Ahead, FastForward, BeginRebase, FinishRebase, Push, RebaseStops, SyncAborts
    <3>2. CASE StageStep
      BY <3>2 DEF StageStep, StageWrites, StageReports, StagePublishesProgress,
         StagePublishes, StagePublishFails, StageExits, StageTimesOut
    <3>3. CASE Cycle
      BY <3>3 DEF Cycle, SeeStop, BeginCycle, Wake, Launch, SkipOutputs, AlreadyProcessed,
         Settle
    <3>4. CASE Environment
      BY <3>4 DEF Environment, Start, StartOffMain, Kill, OrphanWrites, OrphanPublishes,
         Author, ToggleStop, PersonEdits, PersonReverts, PersonCommits, PersonPushes,
         PersonPulls, PersonRepairs
    <3>5. CASE UNCHANGED vars
      BY <3>5 DEF vars
    <3> QED BY <1>1, <3>1, <3>2, <3>3, <3>4, <3>5 DEF Next
  <2>2. /\ remote \in History /\ tracking \in History /\ local \in History
        /\ Len(remote) \in Nat /\ Len(tracking) \in Nat /\ Len(local) \in Nat
    BY <1>1 DEF HeadsInv, TypeOK, History
  <2>3. ASSUME remote' = local, IsPrefix(remote, local), local # remote
        PROVE  SafeOnly(Beyond(remote, local))
    <3>1. /\ Len(Beyond(remote, local)) = Len(local) - Len(remote)
          /\ \A i \in 1..Len(local) - Len(remote) :
                Beyond(remote, local)[i] = local[Len(remote) + i]
          /\ Beyond(remote, local) # <<>>
      BY <2>2, <2>3, SuffixByIndex
    <3>2. /\ Len(tracking) <= Len(remote)
          /\ \A i \in Len(tracking) + 1..Len(local) : local[i].kind = "bundle"
      BY <1>1, <2>2, PrefixByIndex DEF HeadsInv, Tracked, OnlyBundlesGo
    <3>3. \A i \in 1..Len(local) - Len(remote) :
            Len(remote) + i \in Len(tracking) + 1..Len(local)
      BY <2>2, <3>2
    <3> QED BY <3>1, <3>2, <3>3 DEF SafeOnly
  <2> QED BY <2>1, <2>3, PrefixReflexive
<1>2. HeadsInv /\ [Next]_vars
        => ((pc = "push" /\ pc' # "push") =>
              /\ IsPrefix(remote, remote')
              /\ remote' # remote => SafeOnly(Beyond(remote, remote')))
  BY <1>1
<1> QED
  BY <1>2, HeadsInvariant, PTL DEF Spec, OnlyBundlesPushed

\* What the device committed as results is no reason to launch a stage.
LEMMA LaunchNeedsSources ==
  ASSUME HeadsInv, [Next]_vars, pc = "decide", pc' = "stage", ~force, lastHead # NoHead
  PROVE  Sources(local) # Sources(lastHead)
<1>1. local # lastHead /\ ~OutputsOnly
  <2> USE DEF Goto, Exit, EndCycle, SyncSucceeds, SyncFails, git, ctl, book, data
  <2>1. CASE SyncStep
    BY <2>1 DEF SyncStep, NothingPending, PublishPending, Quarantine, Fetch, UpToDate,
       Behind, Ahead, FastForward, BeginRebase, FinishRebase, Push, RebaseStops, SyncAborts
  <2>2. CASE StageStep
    BY <2>2 DEF StageStep, StageWrites, StageReports, StagePublishesProgress,
       StagePublishes, StagePublishFails, StageExits, StageTimesOut
  <2>3. CASE Cycle
    BY <2>3 DEF Cycle, SeeStop, BeginCycle, Wake, Launch, SkipOutputs, AlreadyProcessed,
       Settle
  <2>4. CASE Environment
    BY <2>4 DEF Environment, Start, StartOffMain, Kill, OrphanWrites, OrphanPublishes,
       Author, ToggleStop, PersonEdits, PersonReverts, PersonCommits, PersonPushes,
       PersonPulls, PersonRepairs
  <2>5. CASE UNCHANGED vars
    BY <2>5 DEF vars
  <2> QED BY <2>1, <2>2, <2>3, <2>4, <2>5 DEF Next
<1> SUFFICES ASSUME Sources(local) = Sources(lastHead) PROVE FALSE
  OBVIOUS
<1>2. lastHead \in History /\ local \in History /\ IsPrefix(lastHead, local)
  BY DEF HeadsInv, TypeOK, RecordIsBehind
<1>3. /\ Len(lastHead) \in Nat /\ Len(local) \in Nat
      /\ DOMAIN lastHead = 1..Len(lastHead) /\ DOMAIN local = 1..Len(local)
  BY <1>2 DEF History
<1>4. Len(lastHead) <= Len(local) /\ \A i \in 1..Len(lastHead) : lastHead[i] = local[i]
  BY <1>2, PrefixByIndex
<1>5. Len(Beyond(lastHead, local)) = Len(local) - Len(lastHead)
      /\ \A i \in 1..Len(local) - Len(lastHead) :
            Beyond(lastHead, local)[i] = local[Len(lastHead) + i]
  BY <1>2, SuffixByIndex
<1>6. Beyond(lastHead, local) # <<>>
  BY <1>1, <1>2, SuffixByIndex
<1>7. ~SafeOnly(Beyond(lastHead, local))
  <2>1. IsStrictPrefix(lastHead, local) /\ lastHead # NoHead
    BY <1>1, <1>2 DEF IsStrictPrefix
  <2> QED BY <1>1, <2>1 DEF OutputsOnly
<1>8. PICK j \in 1..Len(local) - Len(lastHead) : local[Len(lastHead) + j].kind # "bundle"
  <2>1. PICK j \in 1..Len(Beyond(lastHead, local)) : Beyond(lastHead, local)[j].kind # "bundle"
    BY <1>6, <1>7 DEF SafeOnly
  <2>2. j \in 1..Len(local) - Len(lastHead) /\ local[Len(lastHead) + j].kind # "bundle"
    BY <1>5, <2>1
  <2> QED BY <2>2
<1>9. PICK i \in 1..Len(local) : i > Len(lastHead) /\ local[i].kind # "bundle"
  <2>1. Len(lastHead) + j \in 1..Len(local) /\ Len(lastHead) + j > Len(lastHead)
    BY <1>3, <1>8
  <2> QED BY <1>8, <2>1
<1>10. local[i] \in Sources(lastHead)
  BY <1>3, <1>9 DEF Sources, ToSet
<1>11. PICK k \in 1..Len(lastHead) : lastHead[k] = local[i]
  BY <1>3, <1>10 DEF Sources, ToSet
<1>12. k \in 1..Len(local) /\ local[k] = local[i]
  BY <1>3, <1>4, <1>11
<1>13. local[k].n = k /\ local[i].n = i
  BY <1>9, <1>12 DEF HeadsInv, Numbered
<1> QED BY <1>3, <1>9, <1>11, <1>12, <1>13

\* If nobody edits the checkout during a synchronisation, what a stage produced
\* is never fed back into a stage.
THEOREM OutputsAreNotWork ==
  PersonAt \cap SyncSteps = {} => (Spec => NoFeedback)
<1> SUFFICES ASSUME PersonAt \cap SyncSteps = {} PROVE Spec => NoFeedback
  OBVIOUS
<1>1. HeadsInv /\ [Next]_vars
        => ((pc = "decide" /\ pc' = "stage" /\ ~force)
              => lastHead = NoHead \/ Sources(local) # Sources(lastHead))
  BY LaunchNeedsSources
<1> QED
  BY <1>1, HeadsInvariant, PTL DEF Spec, NoFeedback

-----------------------------------------------------------------------------
(* Nothing is run twice *)

NoInnerOutcome == outcome # "innerTimeout"

RepeatInv == HeadsInv /\ CycleInv /\ NoInnerOutcome /\ ConcludedIsRecorded

\* A conclusion is added to the history as its stage goes on to be settled.
LEMMA ConclusionsGrow ==
  ASSUME [Next]_vars
  PROVE  \/ concluded' = concluded
         \/ /\ pc = "reported" /\ pc' = "settle" /\ outcome' = outcome
            /\ outcome \in Conclusive /\ concluded' = concluded \cup {input}
<1> USE DEF Goto, git, ctl, book, data
<1>1. CASE SyncStep
  BY <1>1 DEF SyncStep, NothingPending, PublishPending, Quarantine, Fetch, UpToDate,
     Behind, Ahead, FastForward, BeginRebase, FinishRebase, Push, RebaseStops, SyncAborts
<1>2. CASE StageStep
  <2>1. CASE StageExits BY <2>1 DEF StageExits
  <2>2. CASE ~StageExits
    BY <1>2, <2>2 DEF StageStep, StageWrites, StageReports, StagePublishesProgress,
       StagePublishes, StagePublishFails, StageTimesOut
  <2> QED BY <2>1, <2>2
<1>3. CASE Cycle
  BY <1>3 DEF Cycle, SeeStop, BeginCycle, Wake, Launch, SkipOutputs, AlreadyProcessed, Settle
<1>4. CASE Environment
  BY <1>4 DEF Environment, Start, StartOffMain, Kill, OrphanWrites, OrphanPublishes, Author,
     ToggleStop, PersonEdits, PersonReverts, PersonCommits, PersonPushes, PersonPulls,
     PersonRepairs
<1>5. CASE UNCHANGED vars BY <1>5 DEF vars
<1> QED BY <1>1, <1>2, <1>3, <1>4, <1>5 DEF Next

\* Nothing but a kill keeps a conclusion from being recorded.
LEMMA ConclusionIsSettled ==
  ASSUME "kill" \notin Liberties, [Next]_vars,
         pc = "settle", outcome \in {"success", "deterministic"}
  PROVE  \/ pc' = "settle" /\ outcome' = outcome
         \/ lastHead' = local /\ local' = local
<1> USE DEF Goto, Exit, git, ctl, book, data
<1>1. CASE SyncStep
  BY <1>1 DEF SyncStep, NothingPending, PublishPending, Quarantine, Fetch, UpToDate,
     Behind, Ahead, FastForward, BeginRebase, FinishRebase, Push, RebaseStops, SyncAborts
<1>2. CASE StageStep
  BY <1>2 DEF StageStep, StageWrites, StageReports, StagePublishesProgress,
     StagePublishes, StagePublishFails, StageExits, StageTimesOut
<1>3. CASE Cycle
  BY <1>3 DEF Cycle, SeeStop, BeginCycle, Wake, Launch, SkipOutputs, AlreadyProcessed, Settle
<1>4. CASE Environment
  BY <1>4 DEF Environment, Start, StartOffMain, Kill, OrphanWrites, OrphanPublishes, Author,
     ToggleStop, PersonEdits, PersonReverts, PersonCommits, PersonPushes, PersonPulls,
     PersonRepairs
<1>5. CASE UNCHANGED vars BY <1>5 DEF vars
<1> QED BY <1>1, <1>2, <1>3, <1>4, <1>5 DEF Next

LEMMA NoInnerTimeout ==
  ASSUME "innerTimeout" \notin Liberties, [Next]_vars, NoInnerOutcome
  PROVE  NoInnerOutcome'
<1> USE DEF NoInnerOutcome, git, ctl, book, data, NoStage
<1>1. CASE SyncStep
  BY <1>1 DEF SyncStep, NothingPending, PublishPending, Quarantine, Fetch, UpToDate,
     Behind, Ahead, FastForward, BeginRebase, FinishRebase, Push, RebaseStops, SyncAborts
<1>2. CASE StageStep
  BY <1>2 DEF StageStep, StageWrites, StageReports, StagePublishesProgress,
     StagePublishes, StagePublishFails, StageExits, StageTimesOut
<1>3. CASE Cycle
  BY <1>3 DEF Cycle, SeeStop, BeginCycle, Wake, Launch, SkipOutputs, AlreadyProcessed, Settle
<1>4. CASE Environment
  BY <1>4 DEF Environment, Start, StartOffMain, Kill, OrphanWrites, OrphanPublishes, Author,
     ToggleStop, PersonEdits, PersonReverts, PersonCommits, PersonPushes, PersonPulls,
     PersonRepairs
<1>5. CASE UNCHANGED vars BY <1>5 DEF vars
<1> QED BY <1>1, <1>2, <1>3, <1>4, <1>5 DEF Next

LEMMA RecordKeepsUp ==
  ASSUME "kill" \notin Liberties, RepeatInv, [Next]_vars
  PROVE  ConcludedIsRecorded'
<1> SUFFICES ASSUME NEW s \in concluded'
             PROVE  \/ lastHead' # NoHead /\ s \subseteq Sources(lastHead')
                    \/ /\ pc' = "settle" /\ outcome' \in {"success", "deterministic"}
                       /\ s \subseteq Sources(local')
  BY DEF ConcludedIsRecorded
<1>1. Sources(local) \subseteq Sources(local')
  <2>1. ToSet(local) \subseteq ToSet(local')
    BY StepMovesHeads, PatchesStay DEF RepeatInv, HeadsInv
  <2> QED BY <2>1 DEF Sources
<1>2. local # NoHead
  BY NoHeadAssumption DEF RepeatInv, HeadsInv, TypeOK
<1>3. ASSUME lastHead # NoHead, s \subseteq Sources(lastHead)
      PROVE  lastHead' # NoHead /\ s \subseteq Sources(lastHead')
  <2>1. Sources(lastHead) \subseteq Sources(local)
    BY <1>3 DEF RepeatInv, HeadsInv, RecordIsBehind
  <2> QED BY <1>2, <1>3, <2>1, RecordFollows
<1>4. ASSUME pc = "settle", outcome \in {"success", "deterministic"}, s \subseteq Sources(local)
      PROVE  \/ lastHead' # NoHead /\ s \subseteq Sources(lastHead')
             \/ /\ pc' = "settle" /\ outcome' \in {"success", "deterministic"}
                /\ s \subseteq Sources(local')
  BY <1>1, <1>2, <1>4, ConclusionIsSettled
<1>5. CASE s \in concluded
  BY <1>3, <1>4, <1>5 DEF RepeatInv, ConcludedIsRecorded
<1>6. CASE s \notin concluded
  <2>1. /\ pc = "reported" /\ pc' = "settle" /\ outcome' = outcome
        /\ outcome \in Conclusive /\ s = input
    BY <1>6, ConclusionsGrow
  <2>2. outcome \in {"success", "deterministic"}
    BY <2>1 DEF RepeatInv, NoInnerOutcome, Conclusive
  <2>3. s = Sources(local)
    BY <2>1 DEF RepeatInv, CycleInv, StageInputStands, StageSteps
  <2> QED BY <1>1, <2>1, <2>2, <2>3
<1> QED BY <1>5, <1>6

\* If nobody edits the checkout while the script works on it, nobody kills the
\* autopilot and no stage reports a timeout of its own as a failure of the input,
\* then no stage is launched on sources for which one came to a conclusion.
THEOREM NothingIsRunTwice ==
  /\ PersonAt \cap (SyncSteps \cup StageSteps) = {}
  /\ Liberties \cap {"kill", "innerTimeout"} = {}
  => (Spec => NoRepeat)
<1> SUFFICES ASSUME PersonAt \cap (SyncSteps \cup StageSteps) = {},
                    Liberties \cap {"kill", "innerTimeout"} = {}
             PROVE  Spec => NoRepeat
  OBVIOUS
<1>1. PersonAt \cap SyncSteps = {} /\ PersonAt \cap StageSteps = {}
      /\ "kill" \notin Liberties /\ "innerTimeout" \notin Liberties
  OBVIOUS
<1>2. Init => NoInnerOutcome /\ ConcludedIsRecorded
  BY DEF Init, NoInnerOutcome, NoStage, ConcludedIsRecorded
<1>3. HeadsInv /\ CycleInv /\ NoInnerOutcome /\ ConcludedIsRecorded /\ [Next]_vars
        => NoInnerOutcome' /\ ConcludedIsRecorded'
  BY <1>1, NoInnerTimeout, RecordKeepsUp DEF RepeatInv
<1>4. HeadsInv /\ ConcludedIsRecorded /\ [Next]_vars
        => ((pc = "decide" /\ pc' = "stage" /\ ~force) => Sources(local) \notin concluded)
  <2> SUFFICES ASSUME HeadsInv, ConcludedIsRecorded, [Next]_vars,
                      pc = "decide", pc' = "stage", ~force, Sources(local) \in concluded
               PROVE  FALSE
    OBVIOUS
  <2>1. lastHead # NoHead /\ Sources(local) \subseteq Sources(lastHead)
    BY DEF ConcludedIsRecorded
  <2>2. Sources(lastHead) \subseteq Sources(local)
    BY <2>1 DEF HeadsInv, RecordIsBehind
  <2> QED BY <2>1, <2>2, LaunchNeedsSources
<1>5. (Spec => []HeadsInv) /\ (Spec => []CycleInv)
  BY <1>1, HeadsInvariant, CycleInvHolds
<1> QED
  BY <1>2, <1>3, <1>4, <1>5, PTL DEF Spec, NoRepeat

-----------------------------------------------------------------------------
(* Results are committed and delivered *)

\* The number of a patch is at most its place, even if a rebase moves it.
NoneAhead(h) == \A i \in 1..Len(h) : h[i].n <= i

LEMMA CommitNotAhead ==
  ASSUME NEW h \in History, NEW k \in Kinds, NoneAhead(h)
  PROVE  NoneAhead(Commit(h, k))
<1>1. /\ Len(Commit(h, k)) = Len(h) + 1
      /\ \A i \in 1..Len(h) : Commit(h, k)[i] = h[i]
      /\ Commit(h, k)[Len(h) + 1] = [kind |-> k, n |-> Len(h) + 1]
  BY CommitByIndex, Zenon
<1>2. Commit(h, k)[Len(h) + 1].n = Len(h) + 1 /\ Len(h) \in Nat
  BY <1>1 DEF History
<1>3. ASSUME NEW i \in 1..Len(h) + 1 PROVE i = Len(h) + 1 \/ i \in 1..Len(h)
  BY <1>2, <1>3
<1> QED BY <1>1, <1>2, <1>3 DEF NoneAhead

LEMMA RebaseNotAhead ==
  ASSUME NEW a \in History, NEW b \in History, NoneAhead(a), NoneAhead(b)
  PROVE  NoneAhead(a \o Beyond(a, b))
<1> DEFINE s == Beyond(a, b)
           r == a \o s
<1>1. PICK m \in 0..Len(b) :
        /\ m <= Len(a) /\ Len(s) = Len(b) - m
        /\ \A i \in 1..Len(b) - m : s[i] = b[i + m]
  BY BeyondByIndex
<1>2. /\ Len(a) \in Nat /\ Len(b) \in Nat /\ s \in History
      /\ \A i \in 1..Len(b) : b[i].n \in Nat
  <2>1. \A i \in 1..Len(b) : b[i] \in Patch
    BY DEF History
  <2>2. \A x \in Patch : x.n \in Nat
    BY DEF Patch
  <2> QED BY <2>1, <2>2, BeyondType DEF History
<1>3. /\ Len(r) = Len(a) + Len(s)
      /\ \A i \in 1..Len(a) : r[i] = a[i]
      /\ \A i \in Len(a) + 1..Len(a) + Len(s) : r[i] = s[i - Len(a)]
  BY <1>2, JoinByIndex
<1>4. ASSUME NEW i \in 1..Len(r) PROVE r[i].n <= i
  <2>1. CASE i <= Len(a)
    <3>1. i \in 1..Len(a) /\ r[i] = a[i]
      BY <1>2, <1>3, <2>1
    <3> QED BY <3>1 DEF NoneAhead
  <2>2. CASE i > Len(a)
    <3> DEFINE j == i - Len(a)
    <3>1. /\ j \in 1..Len(b) - m /\ j + m \in 1..Len(b) /\ j + m <= i
          /\ i \in Len(a) + 1..Len(a) + Len(s)
      BY <1>1, <1>2, <1>3, <2>2
    <3>2. r[i] = s[j] /\ s[j] = b[j + m]
      BY <1>1, <1>3, <3>1
    <3>3. b[j + m].n <= j + m
      BY <3>1 DEF NoneAhead
    <3> QED BY <1>2, <3>1, <3>2, <3>3
  <2> QED BY <1>2, <2>1, <2>2
<1> QED BY <1>4 DEF NoneAhead

StashInv == TypeOK /\ NoneAhead(remote) /\ NoneAhead(tracking) /\ NoneAhead(local)
              /\ NothingValidStashed

LEMMA NothingRunsAhead ==
  ASSUME TypeOK, NoneAhead(remote), NoneAhead(tracking), NoneAhead(local), HeadsMove
  PROVE  NoneAhead(remote') /\ NoneAhead(tracking') /\ NoneAhead(local')
<1>1. NoneAhead(Commit(local, "bundle")) /\ NoneAhead(Commit(local, "edit"))
      /\ NoneAhead(Commit(remote, "source"))
  BY CommitNotAhead DEF Kinds, TypeOK
<1>2. NoneAhead(tracking \o Beyond(tracking, local))
  BY RebaseNotAhead DEF TypeOK
<1> QED BY <1>1, <1>2 DEF HeadsMove

LEMMA StashStaysEmpty ==
  ASSUME TypeOK, OffMainIsInert, NothingValidStashed, "kill" \notin Liberties, [Next]_vars
  PROVE  NothingValidStashed'
<1> USE DEF OffMainIsInert, NothingValidStashed, Goto, Exit, EndCycle, SyncSucceeds,
            SyncFails, git, ctl, book, data, SyncSteps
<1>1. CASE SyncStep
  BY <1>1 DEF SyncStep, NothingPending, PublishPending, Bundled, Quarantine, Fetch, UpToDate,
     Behind, Ahead, FastForward, BeginRebase, FinishRebase, Push, RebaseStops, SyncAborts
<1>2. CASE StageStep
  BY <1>2 DEF StageStep, StageWrites, StageReports, StagePublishesProgress,
     StagePublishes, StagePublishFails, StageExits, StageTimesOut
<1>3. CASE Cycle
  BY <1>3 DEF Cycle, SeeStop, BeginCycle, Wake, Launch, SkipOutputs, AlreadyProcessed, Settle
<1>4. CASE Environment
  BY <1>4 DEF Environment, Start, StartOffMain, Kill, OrphanWrites, OrphanPublishes, Author,
     ToggleStop, PersonEdits, PersonReverts, PersonCommits, PersonPushes, PersonPulls,
     PersonRepairs
<1>5. CASE UNCHANGED vars BY <1>5 DEF vars
<1> QED BY <1>1, <1>2, <1>3, <1>4, <1>5 DEF Next

\* A new commit is not in the history it is put on.
LEMMA CommitIsNew ==
  ASSUME NEW h \in History, NEW k \in Kinds, NoneAhead(h)
  PROVE  \E x \in ToSet(Commit(h, k)) \ ToSet(h) : x.kind = k
<1> DEFINE x == [kind |-> k, n |-> Len(h) + 1]
<1>1. x \in ToSet(Commit(h, k)) /\ x.kind = k
  BY CommitContent
<1>2. Len(h) \in Nat /\ DOMAIN h = 1..Len(h)
  BY DEF History
<1>3. x \notin ToSet(h)
  <2> SUFFICES ASSUME NEW i \in 1..Len(h), h[i] = x PROVE FALSE
    BY <1>2 DEF ToSet
  <2>1. h[i].n = Len(h) + 1 /\ h[i].n <= i
    BY DEF NoneAhead
  <2> QED BY <1>2, <2>1
<1> QED BY <1>1, <1>3

\* Unless the autopilot is killed, a validated result leaves the tree only into a
\* bundle commit.
THEOREM ValidGoesIntoABundle ==
  "kill" \notin Liberties => (Spec => ValidIsCommitted)
<1> SUFFICES ASSUME "kill" \notin Liberties PROVE Spec => ValidIsCommitted
  OBVIOUS
<1>1. Init => StashInv
  <2>1. NoneAhead(FirstHead)
    BY DEF NoneAhead, FirstHead
  <2> QED BY <2>1, InitType DEF Init, StashInv, NothingValidStashed, SyncSteps
<1>2. StashInv /\ OffMainIsInert /\ [Next]_vars => StashInv'
  BY NextType, StepMovesHeads, NothingRunsAhead, StashStaysEmpty DEF StashInv
<1>3. ASSUME StashInv, [Next]_vars, "valid" \in dirty, "valid" \notin dirty'
      PROVE  local' = Commit(local, "bundle")
  <2> USE <1>3 DEF StashInv, NothingValidStashed, Bundled, Goto, git, ctl, book, data, SyncSteps
  <2>1. CASE SyncStep
    BY <2>1 DEF SyncStep, NothingPending, PublishPending, Quarantine, Fetch, UpToDate,
       Behind, Ahead, FastForward, BeginRebase, FinishRebase, Push, RebaseStops, SyncAborts
  <2>2. CASE StageStep
    BY <2>2 DEF StageStep, StageWrites, WriteArtifacts, StageReports, StagePublishesProgress,
       StagePublishes, StagePublishFails, StageExits, StageTimesOut
  <2>3. CASE Cycle
    BY <2>3 DEF Cycle, SeeStop, BeginCycle, Wake, Launch, SkipOutputs, AlreadyProcessed, Settle
  <2>4. CASE Environment
    BY <2>4 DEF Environment, Start, StartOffMain, Kill, OrphanWrites, OrphanPublishes, Author,
       ToggleStop, PersonEdits, PersonReverts, PersonCommits, PersonPushes, PersonPulls,
       PersonRepairs
  <2>5. CASE UNCHANGED vars BY <2>5 DEF vars
  <2> QED BY <1>3, <2>1, <2>2, <2>3, <2>4, <2>5 DEF Next
<1>4. StashInv => \E x \in ToSet(Commit(local, "bundle")) \ ToSet(local) : x.kind = "bundle"
  BY CommitIsNew DEF StashInv, TypeOK, Kinds
<1>5. StashInv /\ [Next]_vars
        => (("valid" \in dirty /\ "valid" \notin dirty')
              => \E x \in ToSet(local') \ ToSet(local) : x.kind = "bundle")
  BY <1>3, <1>4
<1> QED
  BY <1>1, <1>2, <1>5, OffMain, PTL DEF Spec, ValidIsCommitted

LEMMA TreeStaysClean ==
  ASSUME TypeOK, TreeIsClean, NothingValidStashed, PersonAt \cap SyncSteps = {}, [Next]_vars
  PROVE  TreeIsClean'
<1> USE DEF TreeIsClean, NothingValidStashed, Goto, Exit, EndCycle, SyncSucceeds, SyncFails,
            git, ctl, book, data, SyncSteps
<1>1. CASE SyncStep
  BY <1>1 DEF SyncStep, NothingPending, PublishPending, Quarantine, Fetch, UpToDate,
     Behind, Ahead, FastForward, BeginRebase, FinishRebase, Push, RebaseStops, SyncAborts, TypeOK
<1>2. CASE StageStep
  BY <1>2 DEF StageStep, StageWrites, StageReports, StagePublishesProgress,
     StagePublishes, StagePublishFails, StageExits, StageTimesOut
<1>3. CASE Cycle
  BY <1>3 DEF Cycle, SeeStop, BeginCycle, Wake, Launch, SkipOutputs, AlreadyProcessed, Settle
<1>4. CASE Environment
  BY <1>4 DEF Environment, Start, StartOffMain, Kill, OrphanWrites, OrphanPublishes, Author,
     ToggleStop, PersonEdits, PersonReverts, PersonCommits, PersonPushes, PersonPulls,
     PersonRepairs
<1>5. CASE UNCHANGED vars BY <1>5 DEF vars
<1> QED BY <1>1, <1>2, <1>3, <1>4, <1>5 DEF Next

LEMMA FinalKeepsRecord ==
  ASSUME TypeOK, FinalHasRecord, [Next]_vars
  PROVE  FinalHasRecord'
<1>0. local # NoHead
  BY NoHeadAssumption DEF TypeOK
<1> USE DEF FinalHasRecord, Goto, Exit, EndCycle, SyncSucceeds, SyncFails, git, ctl, book,
            data, SyncSteps
<1>1. CASE SyncStep
  BY <1>1 DEF SyncStep, NothingPending, PublishPending, Quarantine, Fetch, UpToDate,
     Behind, Ahead, FastForward, BeginRebase, FinishRebase, Push, RebaseStops, SyncAborts, TypeOK
<1>2. CASE StageStep
  BY <1>2 DEF StageStep, StageWrites, StageReports, StagePublishesProgress,
     StagePublishes, StagePublishFails, StageExits, StageTimesOut, TypeOK
<1>3. CASE Cycle
  BY <1>0, <1>3 DEF Cycle, SeeStop, BeginCycle, Wake, Launch, SkipOutputs, AlreadyProcessed,
     Settle, TypeOK
<1>4. CASE Environment
  BY <1>4 DEF Environment, Start, StartOffMain, Kill, OrphanWrites, OrphanPublishes, Author,
     ToggleStop, PersonEdits, PersonReverts, PersonCommits, PersonPushes, PersonPulls,
     PersonRepairs
<1>5. CASE UNCHANGED vars BY <1>5 DEF vars
<1> QED BY <1>1, <1>2, <1>3, <1>4, <1>5 DEF Next

\* If nobody edits the checkout during a synchronisation or kills the autopilot,
\* --once that reports success has delivered everything and left a record.
THEOREM OnceHasDelivered ==
  /\ PersonAt \cap SyncSteps = {}
  /\ "kill" \notin Liberties
  => (Spec => OnceDelivers)
<1> SUFFICES ASSUME PersonAt \cap SyncSteps = {}, "kill" \notin Liberties
             PROVE  Spec => OnceDelivers
  OBVIOUS
<1>1. Init => NothingValidStashed /\ TreeIsClean /\ FinalHasRecord
  BY DEF Init, NothingValidStashed, TreeIsClean, FinalHasRecord, SyncSteps
<1>2. HeadsInv /\ OffMainIsInert /\ NothingValidStashed /\ TreeIsClean /\ FinalHasRecord
        /\ [Next]_vars
        => NothingValidStashed' /\ TreeIsClean' /\ FinalHasRecord'
  <2> SUFFICES ASSUME HeadsInv, OffMainIsInert, NothingValidStashed, TreeIsClean,
                      FinalHasRecord, [Next]_vars
               PROVE  NothingValidStashed' /\ TreeIsClean' /\ FinalHasRecord'
    OBVIOUS
  <2>1. TypeOK
    BY DEF HeadsInv
  <2>2. NothingValidStashed'
    BY <2>1, StashStaysEmpty
  <2>3. TreeIsClean'
    BY <2>1, TreeStaysClean
  <2>4. FinalHasRecord'
    BY <2>1, FinalKeepsRecord
  <2> QED BY <2>2, <2>3, <2>4
<1>3. ASSUME HeadsInv, TreeIsClean, FinalHasRecord, [Next]_vars,
             pc \notin {"down", "top"}, once, pc' = "down", status' = "ok"
      PROVE  dirty' = {} /\ IsPrefix(local', remote') /\ lastHead' # NoHead
  <2>1. IsPrefix(tracking, remote)
    BY <1>3 DEF HeadsInv, Tracked
  <2>2. CASE SyncStep
    <3> USE <1>3, <2>1, PrefixReflexive
        DEF TreeIsClean, FinalHasRecord, Goto, Exit, EndCycle, SyncSucceeds, SyncFails, git,
            ctl, book, data, SyncSteps
    <3>1. CASE UpToDate BY <3>1 DEF UpToDate
    <3>2. CASE FastForward BY <3>2 DEF FastForward
    <3>3. CASE Push BY <3>3 DEF Push
    <3>4. CASE SyncAborts \/ RebaseStops BY <3>4 DEF SyncAborts, RebaseStops
    <3>5. CASE ~UpToDate /\ ~FastForward /\ ~Push /\ ~SyncAborts /\ ~RebaseStops
      BY <2>2, <3>5 DEF SyncStep, NothingPending, PublishPending, Quarantine, Fetch, Behind,
         Ahead, BeginRebase, FinishRebase
    <3> QED BY <3>1, <3>2, <3>3, <3>4, <3>5
  <2>3. ~StageStep
    BY <1>3 DEF StageStep, StageWrites, StageReports, StagePublishesProgress,
       StagePublishes, StagePublishFails, StageExits, StageTimesOut, Goto, ctl
  <2>4. ~Cycle
    BY <1>3 DEF Cycle, SeeStop, BeginCycle, Wake, Launch, SkipOutputs, AlreadyProcessed, Settle,
       Goto, EndCycle
  <2>5. ~Environment
    BY <1>3 DEF Environment, Start, StartOffMain, Kill, OrphanWrites, OrphanPublishes, Author,
       ToggleStop, PersonEdits, PersonReverts, PersonCommits, PersonPushes, PersonPulls,
       PersonRepairs, ctl
  <2>6. ~UNCHANGED vars
    BY <1>3 DEF vars
  <2> QED BY <1>3, <2>2, <2>3, <2>4, <2>5, <2>6 DEF Next
<1>4. HeadsInv /\ TreeIsClean /\ FinalHasRecord /\ [Next]_vars
        => ((pc \notin {"down", "top"} /\ once /\ pc' = "down" /\ status' = "ok")
              => dirty' = {} /\ IsPrefix(local', remote') /\ lastHead' # NoHead)
  BY <1>3
<1> QED
  BY <1>1, <1>2, <1>4, HeadsInvariant, OffMain, PTL DEF Spec, OnceDelivers

-----------------------------------------------------------------------------
(* The loop implements the ledger of its stages *)

LedgerInv == HeadsInv /\ CycleInv /\ StagesAreApart

LEMMA SourcesGrow ==
  ASSUME TypeOK, [Next]_vars
  PROVE  Sources(local) \subseteq Sources(local')
<1>1. ToSet(local) \subseteq ToSet(local')
  BY StepMovesHeads, PatchesStay
<1> QED BY <1>1 DEF Sources

LEMMA StagesStayApart ==
  ASSUME TypeOK, StagesAreApart, [Next]_vars
  PROVE  StagesAreApart'
<1>1. Sources(local') # {}
  BY SourcesGrow DEF StagesAreApart
<1>2. pc' \notin StageSteps => input' = {}
  <2> USE DEF StagesAreApart, Goto, Exit, EndCycle, SyncSucceeds, SyncFails, git, ctl, book,
              data, StageSteps
  <2>1. CASE SyncStep
    BY <2>1 DEF SyncStep, NothingPending, PublishPending, Quarantine, Fetch, UpToDate,
       Behind, Ahead, FastForward, BeginRebase, FinishRebase, Push, RebaseStops, SyncAborts
  <2>2. CASE StageStep
    BY <2>2 DEF StageStep, StageWrites, StageReports, StagePublishesProgress,
       StagePublishes, StagePublishFails, StageExits, StageTimesOut
  <2>3. CASE Cycle
    BY <2>3 DEF Cycle, SeeStop, BeginCycle, Wake, Launch, SkipOutputs, AlreadyProcessed, Settle
  <2>4. CASE Environment
    BY <2>4 DEF Environment, Start, StartOffMain, Kill, OrphanWrites, OrphanPublishes, Author,
       ToggleStop, PersonEdits, PersonReverts, PersonCommits, PersonPushes, PersonPulls,
       PersonRepairs
  <2>5. CASE UNCHANGED vars
    BY <2>5 DEF vars
  <2> QED BY <2>1, <2>2, <2>3, <2>4, <2>5 DEF Next
<1> QED BY <1>1, <1>2 DEF StagesAreApart

\* Between stages whatever leaves the record alone is a rest.
LEMMA RestIsRest ==
  ASSUME LedgerInv, [Next]_vars, input = {}, input' = {},
         concluded' = concluded, Recorded' = Recorded
  PROVE  Ledger!Rest
<1>1. Sources(local) \subseteq Sources(local')
  BY SourcesGrow DEF LedgerInv, CycleInv
<1> QED BY <1>1 DEF Ledger!Rest

LEMMA StageStepOfLedger ==
  ASSUME LedgerInv, StageStep
  PROVE  Ledger!Conclude \/ UNCHANGED Ledger!ledger
<1> USE DEF Goto, git, ctl, book, data, StageSteps
<1>1. pc \in StageSteps /\ UNCHANGED <<lastHead, input, force>>
  BY DEF StageStep, StageWrites, StageReports, StagePublishesProgress,
     StagePublishes, StagePublishFails, StageExits, StageTimesOut
<1>2. Sources(local') = Sources(local)
  <2>1. local' = local \/ local' = Commit(local, "bundle")
    BY DEF StageStep, StageWrites, StageReports, StagePublishesProgress,
       StagePublishes, StagePublishFails, StageExits, StageTimesOut, Bundled
  <2> QED BY <2>1, BundleAddsNoSource DEF LedgerInv, CycleInv, TypeOK
<1>3. concluded' = concluded \/ concluded' = concluded \cup {input}
  BY DEF StageStep, StageWrites, StageReports, StagePublishesProgress,
     StagePublishes, StagePublishFails, StageExits, StageTimesOut
<1>4. input # {}
  BY <1>1 DEF LedgerInv, CycleInv, StageInputStands, StagesAreApart
<1>5. Recorded' = Recorded
  BY <1>1 DEF Recorded
<1> QED BY <1>1, <1>2, <1>3, <1>4, <1>5 DEF Ledger!Conclude, Ledger!ledger

LEMMA CycleStepOfLedger ==
  ASSUME LedgerInv, [Next]_vars, Cycle
  PROVE  Ledger!Rest \/ Ledger!Begin \/ Ledger!End
<1> USE DEF Goto, Exit, EndCycle, git, ctl, book, data, StageSteps
<1>1. CASE SeeStop \/ BeginCycle \/ Wake \/ AlreadyProcessed
  <2>1. input = {} /\ input' = {} /\ concluded' = concluded /\ lastHead' = lastHead
    BY <1>1 DEF SeeStop, BeginCycle, Wake, AlreadyProcessed, LedgerInv, StagesAreApart
  <2> QED BY <2>1, RestIsRest DEF Recorded
<1>2. CASE SkipOutputs
  <2>1. lastHead \in History /\ local \in History /\ IsPrefix(lastHead, local)
        /\ SafeOnly(Beyond(lastHead, local)) /\ lastHead # NoHead
    BY <1>2 DEF SkipOutputs, OutputsOnly, IsStrictPrefix, LedgerInv, CycleInv, TypeOK
  <2>2. Sources(local) = Sources(lastHead) /\ local # NoHead
    BY <2>1, OutputsHaveSameSources, NoHeadAssumption
  <2>3. input = {} /\ input' = {} /\ concluded' = concluded /\ lastHead' = local
    BY <1>2 DEF SkipOutputs, LedgerInv, StagesAreApart
  <2>4. Recorded' = Recorded
    BY <2>1, <2>2, <2>3 DEF Recorded
  <2> QED BY <2>3, <2>4, RestIsRest
<1>3. CASE Launch
  <2>1. /\ pc = "decide" /\ pc' = "stage"
        /\ input = {} /\ input' = Sources(local)
        /\ UNCHANGED <<local, concluded, lastHead, force>>
    BY <1>3 DEF Launch, LedgerInv, StagesAreApart
  <2>2. force \/ Sources(local) # Recorded
    <3>1. ~force /\ lastHead # NoHead => Sources(local) # Sources(lastHead)
      BY <2>1, LaunchNeedsSources DEF LedgerInv
    <3> QED BY <3>1 DEF Recorded, LedgerInv, StagesAreApart
  <2>3. Recorded' = Recorded
    BY <2>1 DEF Recorded
  <2> QED BY <2>1, <2>2, <2>3 DEF Ledger!Begin
<1>4. CASE Settle
  <2>1. /\ pc = "settle" /\ input' = {} /\ force' = FALSE
        /\ UNCHANGED <<local, concluded>>
        /\ \/ lastHead' = lastHead
           \/ lastHead' = local /\ outcome \in {"success", "deterministic"}
    BY <1>4 DEF Settle
  <2>2. input = Sources(local) /\ input # {}
    BY <2>1 DEF LedgerInv, CycleInv, StageInputStands, StagesAreApart
  <2>3. lastHead' = local => Recorded' = Sources(local)
    BY NoHeadAssumption DEF Recorded, LedgerInv, CycleInv, TypeOK
  <2>4. Recorded' \in {Recorded} \cup (concluded \cap {input})
    <3>1. CASE lastHead' = lastHead
      BY <3>1 DEF Recorded
    <3>2. CASE lastHead' = local /\ outcome \in {"success", "deterministic"}
      BY <2>1, <2>2, <2>3, <3>2 DEF LedgerInv, CycleInv, SettlesConclusion
    <3> QED BY <2>1, <3>1, <3>2
  <2> QED BY <2>1, <2>2, <2>4 DEF Ledger!End
<1> QED BY <1>1, <1>2, <1>3, <1>4 DEF Cycle

LEMMA EnvironmentOfLedger ==
  ASSUME LedgerInv, [Next]_vars, PersonAt \cap StageSteps = {}, Environment
  PROVE  Ledger!Rest \/ Ledger!End \/ UNCHANGED Ledger!ledger
<1> USE DEF Exit, git, ctl, book, data, StageSteps
<1>1. UNCHANGED <<lastHead, concluded>>
  BY DEF Environment, Start, StartOffMain, Kill, OrphanWrites, OrphanPublishes, Author,
     ToggleStop, PersonEdits, PersonReverts, PersonCommits, PersonPushes, PersonPulls,
     PersonRepairs
<1>2. Recorded' = Recorded
  BY <1>1 DEF Recorded
<1>3. CASE pc \notin StageSteps
  <2>1. input = {} /\ input' = {}
    BY <1>3 DEF LedgerInv, StagesAreApart, Environment, Start, StartOffMain, Kill,
       OrphanWrites, OrphanPublishes, Author, ToggleStop, PersonEdits, PersonReverts,
       PersonCommits, PersonPushes, PersonPulls, PersonRepairs
  <2> QED BY <1>1, <1>2, <2>1, RestIsRest
<1>4. CASE pc \in StageSteps
  <2>1. input # {}
    BY <1>4 DEF LedgerInv, CycleInv, StageInputStands, StagesAreApart
  <2>2. CASE Kill
    <3>1. input' = {} /\ force' = FALSE /\ local' = local
      BY <2>2 DEF Kill
    <3> QED BY <1>1, <1>2, <2>1, <3>1 DEF Ledger!End
  <2>3. CASE ~Kill
    <3>1. UNCHANGED <<input, force>>
      BY <1>4, <2>3 DEF Environment, Start, StartOffMain, OrphanWrites, OrphanPublishes,
         Author, ToggleStop, PersonEdits, PersonReverts, PersonCommits, PersonPushes,
         PersonPulls, PersonRepairs
    <3>2. local' = local \/ local' = Commit(local, "bundle")
      BY <1>4, <2>3 DEF Environment, Start, StartOffMain, OrphanWrites, OrphanPublishes,
         Bundled, Author, ToggleStop, PersonEdits, PersonReverts, PersonCommits,
         PersonPushes, PersonPulls, PersonRepairs
    <3>3. Sources(local') = Sources(local)
      BY <3>2, BundleAddsNoSource DEF LedgerInv, CycleInv, TypeOK
    <3> QED BY <1>1, <1>2, <3>1, <3>3 DEF Ledger!ledger
  <2> QED BY <2>2, <2>3
<1> QED BY <1>3, <1>4

\* If nobody edits the checkout while the script works on it, the loop implements
\* StageLedger: for every history, kills at every step, orphaned stages and
\* conflicts included, its stages run one at a time on sources that stand still,
\* begin only on sources that are not on record, and only sources on which a
\* stage came to a conclusion come on record.
THEOREM StagesKeepTheLedger ==
  PersonAt \cap (SyncSteps \cup StageSteps) = {} => (Spec => KeepsLedger)
<1> SUFFICES ASSUME PersonAt \cap (SyncSteps \cup StageSteps) = {}
             PROVE  Spec => KeepsLedger
  OBVIOUS
<1>1. PersonAt \cap SyncSteps = {} /\ PersonAt \cap StageSteps = {}
  OBVIOUS
<1>2. Init => StagesAreApart /\ Ledger!LedgerInit
  <2> SUFFICES ASSUME Init PROVE StagesAreApart /\ Ledger!LedgerInit
    OBVIOUS
  <2>1. FirstHead[1] \in Sources(FirstHead)
    BY DEF FirstHead, Sources, ToSet
  <2> QED BY <2>1 DEF Init, StagesAreApart, Ledger!LedgerInit, Recorded
<1>3. HeadsInv /\ StagesAreApart /\ [Next]_vars => StagesAreApart'
  BY StagesStayApart DEF HeadsInv
<1>4. ASSUME LedgerInv, [Next]_vars
      PROVE  [Ledger!Rest \/ Ledger!Begin \/ Ledger!Conclude \/ Ledger!End]_(Ledger!ledger)
  <2>1. CASE SyncStep
    <3>1. UNCHANGED <<lastHead, concluded, input>> /\ pc \notin StageSteps
      BY <2>1 DEF SyncStep, NothingPending, PublishPending, Quarantine, Fetch, UpToDate,
         Behind, Ahead, FastForward, BeginRebase, FinishRebase, Push, RebaseStops,
         SyncAborts, Goto, git, book, data, StageSteps
    <3>2. input = {} /\ Recorded' = Recorded
      BY <1>4, <3>1 DEF LedgerInv, StagesAreApart, Recorded
    <3> QED BY <1>4, <3>1, <3>2, RestIsRest
  <2>2. CASE StageStep
    BY <1>4, <2>2, StageStepOfLedger
  <2>3. CASE Cycle
    BY <1>4, <2>3, CycleStepOfLedger
  <2>4. CASE Environment
    BY <1>1, <1>4, <2>4, EnvironmentOfLedger
  <2>5. CASE UNCHANGED vars
    BY <2>5 DEF vars, Ledger!ledger, Recorded
  <2> QED BY <1>4, <2>1, <2>2, <2>3, <2>4, <2>5 DEF Next
<1> QED
  BY <1>1, <1>2, <1>3, <1>4, HeadsInvariant, CycleInvHolds, PTL
  DEF Spec, KeepsLedger, LedgerInv, Ledger!LedgerSpec

-----------------------------------------------------------------------------
(* The bundle                                                               *)
(*                                                                         *)
(* For every table of rules in which no artifact is dropped after it has   *)
(* served as evidence, every set of files and every pattern of mismatches: *)
(* one pass over the rules is enough, and drops nothing that stands.       *)

USE RulesAssumption, OrderAssumption DEF RulesAssumption, OrderAssumption

-----------------------------------------------------------------------------
LEMMA AtMostIsSubset ==
    ASSUME NEW k \in Nat, NEW S, NEW x \in AtMost(k, S)
    PROVE  x \subseteq S
  BY DEF AtMost

LEMMA RuleIsDerived ==
    ASSUME NEW i \in 1..Len(Rules)
    PROVE  /\ Rules[i].artifact \in Derived
           /\ Rules[i].artifact \notin Base
           /\ i \in DOMAIN Rules
  <1>1. i \in DOMAIN Rules
    OBVIOUS
  <1>. QED  BY <1>1 DEF Derived

LEMMA StandsIsMonotone ==
    ASSUME NEW i \in 1..Len(Rules), NEW except, BundleNext,
           StandsOn(Rules[i], except)'
    PROVE  StandsOn(Rules[i], except)
  <1>1. artifacts' \subseteq artifacts /\ matches' = matches
    BY DEF BundleNext, Raise, Agree, ApplyRule, ChooseImages, files
  <1>. QED  BY <1>1 DEF StandsOn

\* A rule that has run is not disturbed by the rules that come after it.
LEMMA LaterRulesDoNotDisturb ==
    ASSUME ApplyRule, NEW i \in 1..next, next \in 1..Len(Rules),
           NEW except, StandsOn(Rules[i], except)
    PROVE  StandsOn(Rules[i], except)'
  <1>1. PICK alternative \in Rules[i].alternatives :
            /\ <<Rules[i].artifact, alternative>> \in matches
            /\ alternative \ except \subseteq artifacts
    BY DEF StandsOn
  <1>2. Rules[next].artifact \notin alternative
    <2>1. i \in 1..Len(Rules) /\ i <= next /\ Len(Rules) \in Nat
      OBVIOUS
    <2>2. Rules[next].artifact \notin Evidence(Rules[i])
      BY <2>1
    <2>. QED  BY <1>1, <2>2 DEF Evidence
  <1>3. alternative \ except \subseteq artifacts' /\ matches' = matches
    BY <1>1, <1>2 DEF ApplyRule, files
  <1>. QED  BY <1>1, <1>3 DEF StandsOn

LEMMA SupportedStands ==
    ASSUME NEW i \in 1..Len(Rules), Supported(Rules[i])
    PROVE  StandsOn(Rules[i], Rules[i].early)
  BY DEF Supported, Found, StandsOn

LEMMA StandsIsSupported ==
    ASSUME BundleTypeOK, NEW i \in 1..Len(Rules), StandsOn(Rules[i], {})
    PROVE  Supported(Rules[i])
  BY DEF Supported, Found, StandsOn, BundleTypeOK

-----------------------------------------------------------------------------
\* The type invariant, for every table and every number of faults.
THEOREM BundleTypeCorrect == BundleSpec => []BundleTypeOK
  <1>1. BundleInit => BundleTypeOK
    <2> SUFFICES ASSUME BundleInit PROVE BundleTypeOK
      OBVIOUS
    <2>1. loaded \subseteq Artifact
      BY DEF BundleInit
    <2>2. matches \subseteq Links
      BY DEF BundleInit
    <2>3. disagreeing \subseteq Pairs
      <3>1. CASE disagreeing = {}
        BY <3>1
      <3>2. CASE \E k \in 0..MaxFaults, l \in 0..MaxFaults :
                    /\ k + l <= MaxFaults
                    /\ disagreeing \in AtMost(MaxFaults - k - l, Pairs)
        <4>1. PICK k \in 0..MaxFaults, l \in 0..MaxFaults :
                    /\ k + l <= MaxFaults
                    /\ disagreeing \in AtMost(MaxFaults - k - l, Pairs)
          BY <3>2
        <4>2. MaxFaults - k - l \in Nat
          BY <4>1
        <4>. QED  BY <4>1, <4>2, AtMostIsSubset
      <3>. QED  BY <3>1, <3>2 DEF BundleInit
    <2>4. Len(Rules) \in Nat
      OBVIOUS
    <2>. QED  BY <2>1, <2>2, <2>3, <2>4 DEF BundleInit, BundleTypeOK
  <1>2. BundleTypeOK /\ [BundleNext]_bundleVars => BundleTypeOK'
    <2> SUFFICES ASSUME BundleTypeOK, [BundleNext]_bundleVars PROVE BundleTypeOK'
      OBVIOUS
    <2> USE DEF BundleTypeOK
    <2>0. Len(Rules) \in Nat
      OBVIOUS
    <2>1. CASE Raise
      BY <2>1 DEF Raise, files
    <2>2. CASE Agree
      BY <2>2 DEF Agree, files
    <2>3. CASE ApplyRule
      BY <2>0, <2>3 DEF ApplyRule, files
    <2>4. CASE ChooseImages
      BY <2>4 DEF ChooseImages, files
    <2>5. CASE UNCHANGED bundleVars
      BY <2>5 DEF bundleVars
    <2>. QED  BY <2>1, <2>2, <2>3, <2>4, <2>5 DEF BundleNext
  <1>. QED  BY <1>1, <1>2, PTL DEF BundleSpec

-----------------------------------------------------------------------------
(* What is published rests on evidence that is published. *)

ChosenAtTheEnd == choice = "chosen" => next > Len(Rules)

LEMMA EndIsReached == BundleSpec => []ChosenAtTheEnd
  <1>1. BundleInit => ChosenAtTheEnd
    BY DEF BundleInit, ChosenAtTheEnd
  <1>2. ChosenAtTheEnd /\ [BundleNext]_bundleVars => ChosenAtTheEnd'
    BY DEF ChosenAtTheEnd, BundleNext, bundleVars, Raise, Agree, ApplyRule, ChooseImages
  <1>. QED  BY <1>1, <1>2, PTL DEF BundleSpec

LEMMA RulesThatRanStand == BundleSpec => []RulesRunStand
  <1>1. BundleInit => RulesRunStand
    BY DEF BundleInit, RulesRunStand
  <1>2. BundleTypeOK /\ RulesRunStand /\ [BundleNext]_bundleVars => RulesRunStand'
    <2> SUFFICES ASSUME BundleTypeOK, RulesRunStand, [BundleNext]_bundleVars PROVE RulesRunStand'
      OBVIOUS
    <2>1. CASE ApplyRule
      <3>1. next \in 1..Len(Rules) /\ next' = next + 1 /\ Len(Rules) \in Nat
        BY <2>1 DEF ApplyRule, BundleTypeOK
      <3> SUFFICES ASSUME NEW i \in 1..next, (Rules[i].artifact \in artifacts)'
                   PROVE  StandsOn(Rules[i], Rules[i].early)'
        BY <3>1 DEF RulesRunStand
      <3>2. i \in 1..Len(Rules) /\ Rules[i].artifact \in artifacts
        BY <2>1, <3>1 DEF ApplyRule
      <3>3. StandsOn(Rules[i], Rules[i].early)
        <4>1. CASE i < next
          BY <3>1, <3>2, <4>1 DEF RulesRunStand
        <4>2. CASE i = next
          <5>1. Supported(Rules[next])
            BY <2>1, <4>2 DEF ApplyRule
          <5>. QED  BY <4>2, <5>1, <3>2, SupportedStands
        <4>. QED  BY <3>1, <4>1, <4>2
      <3>. QED  BY <2>1, <3>1, <3>3, LaterRulesDoNotDisturb
    <2>2. CASE Raise \/ Agree \/ ChooseImages \/ UNCHANGED bundleVars
      <3>1. UNCHANGED <<artifacts, matches, next>>
        BY <2>2 DEF Raise, Agree, ChooseImages, bundleVars, files
      <3>. QED  BY <3>1 DEF RulesRunStand, StandsOn
    <2>. QED  BY <2>1, <2>2 DEF BundleNext
  <1>. QED  BY <1>1, <1>2, BundleTypeCorrect, PTL DEF BundleSpec

\* Every published artifact matches one of its alternatives, and what the code
\* looks up freshly of it is published too.
THEOREM OnePassIsEnough == BundleSpec => []PassIsEnough
  <1>1. BundleTypeOK /\ ChosenAtTheEnd /\ RulesRunStand => PassIsEnough
    <2> SUFFICES ASSUME BundleTypeOK, ChosenAtTheEnd, RulesRunStand, choice = "chosen",
                        NEW i \in 1..Len(Rules), Rules[i].artifact \in artifacts
                 PROVE  StandsOn(Rules[i], Rules[i].early)
      BY DEF PassIsEnough
    <2>1. i \in 1..next - 1
      BY DEF ChosenAtTheEnd, BundleTypeOK
    <2>. QED  BY <2>1 DEF RulesRunStand
  <1>. QED  BY <1>1, BundleTypeCorrect, EndIsReached, RulesThatRanStand, PTL

-----------------------------------------------------------------------------
(* What is loaded is held back on two grounds only. *)

\* Nothing is dropped before the rules run, they run on artifacts that agree, and
\* an artifact is out for a reason that will last.
OutForAReason ==
    /\ choice \in {"identities", "raised"} => artifacts = loaded
    /\ choice = "raised" => artifacts = {} \/ Clash
    /\ choice \in {"rules", "chosen"} => ~Clash
    /\ loaded \cap Base \subseteq artifacts
    /\ \A i \in 1..Len(Rules) :
         Rules[i].artifact \in loaded \ artifacts => ~StandsOn(Rules[i], {})

LEMMA ReasonsLast == BundleSpec => []OutForAReason
  <1>1. BundleInit => OutForAReason
    BY DEF BundleInit, OutForAReason
  <1>2. BundleTypeOK /\ OutForAReason /\ [BundleNext]_bundleVars => OutForAReason'
    <2> SUFFICES ASSUME BundleTypeOK, OutForAReason, [BundleNext]_bundleVars PROVE OutForAReason'
      OBVIOUS
    <2>1. CASE ApplyRule
      <3>1. next \in 1..Len(Rules) /\ UNCHANGED <<loaded, disagreeing, choice>>
        BY <2>1 DEF ApplyRule, BundleTypeOK, files
      <3>2. choice = "rules" /\ artifacts' \subseteq artifacts
        BY <2>1 DEF ApplyRule
      <3>3. (loaded \cap Base \subseteq artifacts)'
        BY <2>1, <3>1, RuleIsDerived DEF ApplyRule, OutForAReason
      <3>4. ~Clash'
        BY <3>1, <3>2 DEF OutForAReason, Clash
      <3>5. ASSUME NEW i \in 1..Len(Rules),
                   (Rules[i].artifact \in loaded \ artifacts)',
                   StandsOn(Rules[i], {})'
            PROVE  FALSE
        <4>1. StandsOn(Rules[i], {})
          BY <2>1, <3>5, StandsIsMonotone DEF BundleNext
        <4>2. Rules[i].artifact \in artifacts
          BY <3>1, <3>5, <4>1 DEF OutForAReason
        <4>3. i = next /\ ~Supported(Rules[next])
          BY <2>1, <3>1, <3>5, <4>2 DEF ApplyRule
        <4>. QED  BY <4>1, <4>3, StandsIsSupported
      <3>. QED  BY <3>1, <3>2, <3>3, <3>4, <3>5 DEF OutForAReason
    <2>2. CASE Raise \/ Agree \/ ChooseImages \/ UNCHANGED bundleVars
      <3>1. UNCHANGED <<artifacts, loaded, matches, disagreeing>>
        BY <2>2 DEF Raise, Agree, ChooseImages, bundleVars, files
      <3>2. Clash' <=> Clash
        BY <3>1 DEF Clash
      <3>3. \A i \in 1..Len(Rules) : StandsOn(Rules[i], {})' <=> StandsOn(Rules[i], {})
        BY <3>1 DEF StandsOn
      <3>4. /\ choice' \in {"identities", "raised"} => artifacts' = loaded'
            /\ choice' = "raised" => artifacts' = {} \/ Clash'
            /\ choice' \in {"rules", "chosen"} => ~Clash'
        BY <2>2, <3>1, <3>2 DEF Raise, Agree, ChooseImages, bundleVars, OutForAReason
      <3>. QED  BY <3>1, <3>3, <3>4 DEF OutForAReason
    <2>. QED  BY <2>1, <2>2 DEF BundleNext
  <1>. QED  BY <1>1, <1>2, BundleTypeCorrect, PTL DEF BundleSpec

\* Whatever is not published, raise or not, is held back on one of two grounds.
THEOREM NothingElseIsHeldBack == BundleSpec => []OnTwoGroundsOnly
  <1>1. OutForAReason => OnTwoGroundsOnly
    BY DEF OutForAReason, OnTwoGroundsOnly, Clash
  <1>. QED  BY <1>1, ReasonsLast, PTL
=============================================================================
