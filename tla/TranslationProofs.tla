--------------------------- MODULE TranslationProofs ---------------------------
(***************************************************************************)
(* Proofs about the chain from the script to the ROM, for every script,      *)
(* image, corpus and run of the game.  First the operators: plans of writes, *)
(* the patched ROM, the pairs of lines and records; then the specification.  *)
(***************************************************************************)
EXTENDS Translation, GroupRecordsProofs, FiniteSetTheorems, SequenceTheorems

-----------------------------------------------------------------------------
(* Plans of writes *)

Bytes == Nat
Writes == [at : Int, before : Seq(Bytes), after : Seq(Bytes), lo : Int, hi : Int]

\* What the plan leaves at an offset is what the write that touches it leaves:
\* no other write touches that offset.
LEMMA OwnWrite ==
  ASSUME NEW source, NEW plan, ValidPlan(source, plan),
         NEW i \in DOMAIN plan, NEW o \in Touched(plan[i])
  PROVE  /\ o \in Planned(plan)
         /\ After(plan, o) = plan[i].after[o - plan[i].at + 1]
<1>1. o \in Planned(plan)
  BY DEF Planned
<1> DEFINE j == CHOOSE n \in DOMAIN plan : o \in Touched(plan[n])
<1>2. j \in DOMAIN plan /\ o \in Touched(plan[j])
  OBVIOUS
<1>3. i = j
  BY <1>2 DEF ValidPlan
<1>4. QED
  BY <1>1, <1>3 DEF After

\* The offsets of a write are those of its bytes, and lie in the image.
LEMMA OffsetsOfAWrite ==
  ASSUME NEW source, NEW w \in Writes, ValidWrite(source, w)
  PROVE  /\ DOMAIN w.after = DOMAIN w.before
         /\ Touched(w) \subseteq DOMAIN source
         /\ \A k \in DOMAIN w.after : w.at + k - 1 \in Touched(w)
         /\ \A o \in Touched(w) : /\ o - w.at + 1 \in DOMAIN w.after
                                  /\ source[o] = w.before[o - w.at + 1]
<1> DEFINE n == Len(w.after)
<1>1. n \in Nat /\ DOMAIN w.after = 1 .. n /\ DOMAIN w.before = 1 .. n /\ w.at \in Int
  BY DEF ValidWrite, Writes
<1>2. Touched(w) \subseteq DOMAIN source
  BY DEF ValidWrite
<1>3. \A k \in DOMAIN w.after : w.at + k - 1 \in Touched(w)
  BY <1>1 DEF Touched
<1>4. ASSUME NEW o \in Touched(w)
      PROVE  o - w.at + 1 \in DOMAIN w.after /\ source[o] = w.before[o - w.at + 1]
  <2>1. o \in Int /\ o - w.at + 1 \in 1 .. n
    BY <1>1 DEF Touched
  <2>2. w.at + (o - w.at + 1) - 1 = o
    BY <1>1, <2>1
  <2>3. source[w.at + (o - w.at + 1) - 1] = w.before[o - w.at + 1]
    BY <1>1, <2>1 DEF ValidWrite
  <2>4. QED
    BY <1>1, <2>1, <2>2, <2>3
<1>5. QED
  BY <1>1, <1>2, <1>3, <1>4

\* apply_expected_writes never raises in its audit: of a plan that was
\* accepted, every write arrives whole and nothing else changes.
THEOREM AppliedPlanPassesAudit ==
  ASSUME NEW source, NEW plan \in Seq(Writes), ValidPlan(source, plan)
  PROVE  AuditPasses(source, Applied(source, plan), plan)
<1> DEFINE target == Applied(source, plan)
<1>0. \A i \in DOMAIN plan : plan[i] \in Writes /\ ValidWrite(source, plan[i])
  BY DEF ValidPlan
<1>1. DOMAIN target = DOMAIN source
  BY DEF Applied
<1>2. ASSUME NEW i \in DOMAIN plan, NEW o \in Touched(plan[i])
      PROVE  o \in DOMAIN source /\ target[o] = plan[i].after[o - plan[i].at + 1]
  <2>1. o \in DOMAIN source
    BY <1>0, OffsetsOfAWrite
  <2>2. o \in Planned(plan) /\ After(plan, o) = plan[i].after[o - plan[i].at + 1]
    BY OwnWrite
  <2>3. QED
    BY <2>1, <2>2 DEF Applied
<1>3. ASSUME NEW i \in DOMAIN plan, NEW o \in Touched(plan[i])
      PROVE  source[o] = plan[i].before[o - plan[i].at + 1]
  BY <1>0, OffsetsOfAWrite
<1>4. {o \in DOMAIN source : target[o] # source[o]} \subseteq PlannedChanges(plan)
  <2> SUFFICES ASSUME NEW o \in DOMAIN source, target[o] # source[o]
               PROVE  o \in PlannedChanges(plan)
    OBVIOUS
  <2>1. o \in Planned(plan)
    BY DEF Applied
  <2>2. PICK i \in DOMAIN plan : o \in Touched(plan[i])
    BY <2>1 DEF Planned
  <2>3. plan[i].before[o - plan[i].at + 1] # plan[i].after[o - plan[i].at + 1]
    BY <1>2, <1>3, <2>2
  <2>4. QED
    BY <2>2, <2>3 DEF PlannedChanges
<1>5. PlannedChanges(plan) \subseteq {o \in DOMAIN source : target[o] # source[o]}
  <2> SUFFICES ASSUME NEW i \in DOMAIN plan, NEW o \in Touched(plan[i]),
                      plan[i].before[o - plan[i].at + 1] # plan[i].after[o - plan[i].at + 1]
               PROVE  o \in DOMAIN source /\ target[o] # source[o]
    BY DEF PlannedChanges
  <2>1. QED
    BY <1>2, <1>3
<1>6. ASSUME NEW i \in DOMAIN plan, NEW k \in DOMAIN plan[i].after
      PROVE  target[plan[i].at + k - 1] = plan[i].after[k]
  <2>1. plan[i].at + k - 1 \in Touched(plan[i])
    BY <1>0, OffsetsOfAWrite
  <2>2. plan[i].at \in Int /\ k \in Int
    BY <1>0 DEF Writes
  <2>3. (plan[i].at + k - 1) - plan[i].at + 1 = k
    BY <2>2
  <2>4. QED
    BY <1>2, <2>1, <2>3
<1>7. QED
  BY <1>1, <1>4, <1>5, <1>6 DEF AuditPasses

-----------------------------------------------------------------------------
(* The patched ROM *)

\* A ROM that has the length bytes of a walk has the walk.
LEMMA PatchedWalk ==
  ASSUME NEW bytes, NEW rom, NEW limit, Readable(bytes, limit), Readable(rom, limit),
         NEW n \in Nat, NEW at \in Nat, NEW w, FullWalk(bytes, at, limit, n, w),
         \A k \in 1 .. Len(w) : rom[w[k].at] = bytes[w[k].at]
  PROVE  \A k \in 1 .. Len(w) : /\ k \in 1 .. Len(RecordsFrom(rom, at, n, limit))
                                /\ RecordsFrom(rom, at, n, limit)[k] = w[k]
<1>1. IsWalk(rom, at, limit, w) /\ Len(w) <= n
  BY DEF FullWalk, IsWalk
<1>2. FullWalk(rom, at, limit, n, RecordsFrom(rom, at, n, limit))
  BY RecordsAreWalk
<1> QED BY <1>1, <1>2, FullWalkHasAll

FontWrite(tiles) == WriteTo(FontAt, tiles, FontAt + Len(tiles))
RowWrite(row) == WriteTo(row.at + 1, row.bytes, row.at + 1 + Image.bytes[row.at])

\* The writes of a build: the font's and one of each row
LEMMA PlanHasRows ==
  ASSUME NEW tiles, NEW plan, IsSeq(plan)
  PROVE  /\ \A i \in DOMAIN plan : \E j \in DOMAIN Plan(tiles, plan) :
                Plan(tiles, plan)[j] = RowWrite(plan[i])
         /\ \A j \in DOMAIN Plan(tiles, plan) :
                \/ Plan(tiles, plan)[j] = FontWrite(tiles)
                \/ \E i \in DOMAIN plan : Plan(tiles, plan)[j] = RowWrite(plan[i])
<1> DEFINE font == FontWrite(tiles)
           first == IF font.before = font.after THEN <<>> ELSE <<font>>
           rows == [i \in DOMAIN plan |-> RowWrite(plan[i])]
           S == {font} \cup {RowWrite(plan[i]) : i \in DOMAIN plan}
<1>1. Plan(tiles, plan) = first \o rows
  BY DEF Plan, FontWrite, RowWrite
<1>2. DOMAIN plan = 1 .. Len(plan) /\ Len(plan) \in Nat
  BY DEF IsSeq
<1> HIDE DEF font
<1>3. first \in Seq(S) /\ Len(first) \in {0, 1} /\ \A k \in 1 .. Len(first) : first[k] = font
  <2>1. first = <<>> \/ first = <<font>>
    OBVIOUS
  <2>2. font \in S
    OBVIOUS
  <2> HIDE DEF first, S
  <2>3. CASE first = <<>>
    BY <2>3
  <2>4. CASE first = <<font>>
    <3>1. <<font>> \in Seq(S) /\ Len(<<font>>) = 1 /\ <<font>>[1] = font
      BY <2>2
    <3>2. \A k \in 1 .. 1 : k = 1
      OBVIOUS
    <3> QED BY <2>4, <3>1, <3>2
  <2> QED BY <2>1, <2>3, <2>4
<1>4. rows \in Seq(S) /\ Len(rows) = Len(plan) /\ \A i \in DOMAIN plan : rows[i] = RowWrite(plan[i])
  BY <1>2
<1> HIDE DEF first, rows, S
<1> DEFINE all == first \o rows
<1>5. DOMAIN all = 1 .. Len(first) + Len(plan)
  BY <1>3, <1>4
<1>6. \A i \in DOMAIN plan : Len(first) + i \in DOMAIN all /\ all[Len(first) + i] = RowWrite(plan[i])
  BY <1>2, <1>3, <1>4
<1>7. \A j \in DOMAIN all : j <= Len(first) => all[j] = font
  BY <1>3, <1>4
<1>8. \A j \in DOMAIN all : j > Len(first) =>
         j - Len(first) \in DOMAIN plan /\ all[j] = RowWrite(plan[j - Len(first)])
  BY <1>2, <1>3, <1>4
<1>9. \A j \in DOMAIN all : j <= Len(first) \/ j > Len(first)
  BY <1>3, <1>5
<1> QED BY <1>1, <1>6, <1>7, <1>8, <1>9, Zenon DEF font

\* Each row of a plan that is ready has its record, counted from the anchor.
LEMMA PlanIsAlongWalk ==
  ASSUME NEW plan, SoundPlan(plan), ReinsertionReady(plan), NEW i \in DOMAIN plan
  PROVE  /\ AnchorOrdinal + i \in DOMAIN Addressed(Image, AnchorSelector)
         /\ Addressed(Image, AnchorSelector)[AnchorOrdinal + i].at = plan[i].at
<1>1. <<AnchorSelector, AnchorOrdinal + i - 1>> \in Aliases(plan[i].at)
  BY DEF SoundPlan, ReinsertionReady
<1>2. i \in Nat /\ AnchorOrdinal \in Nat
  BY AnchorAssumption DEF SoundPlan, IsSeq
<1>3. AnchorOrdinal + i - 1 + 1 = AnchorOrdinal + i
  BY <1>2
<1>4. /\ AnchorOrdinal + i - 1 + 1 \in DOMAIN Addressed(Image, AnchorSelector)
      /\ Addressed(Image, AnchorSelector)[AnchorOrdinal + i - 1 + 1].at = plan[i].at
  BY <1>1 DEF Aliases
<1> QED BY <1>3, <1>4

\* The ROM of a build has every byte of a row in its record, and the walk along
\* the records is what it was.
LEMMA BuildIsAlongWalk ==
  ASSUME NEW plan, SoundPlan(plan), ReinsertionReady(plan), NEW tiles,
         ValidPlan(Image.bytes, Plan(tiles, plan)),
         NEW rom, rom = Applied(Image.bytes, Plan(tiles, plan)),
         \A i \in DOMAIN plan : plan[i].bytes \in Seq(Nat)
  PROVE  \A i \in DOMAIN plan :
            LET walk == Addressed([bytes |-> rom, table |-> Image.table], AnchorSelector)
                row  == plan[i]
            IN  Slice(rom, walk[AnchorOrdinal + i].at + 1, Len(row.bytes)) = row.bytes
<1> DEFINE all == Plan(tiles, plan)
           w == Addressed(Image, AnchorSelector)
           start == Physical(Image, AnchorSelector)
<1>1. Readable(Image.bytes, BankEnd) /\ start \in Nat /\ Addressable \in Nat /\ BankEnd \in Nat
  BY ImageIsReadable, ImageAssumption, AnchorAssumption, RecordsAssumption DEF Readable
<1>2. FullWalk(Image.bytes, start, BankEnd, Addressable, w)
  BY <1>1, RecordsAreWalk DEF Addressed
<1>3. \A i \in DOMAIN plan : AnchorOrdinal + i \in 1 .. Len(w) /\ w[AnchorOrdinal + i].at = plan[i].at
  <2>1. w \in Seq(Spans)
    BY <1>2 DEF FullWalk, IsWalk
  <2> HIDE DEF w
  <2>2. DOMAIN w = 1 .. Len(w)
    BY <2>1
  <2> QED BY <2>2, PlanIsAlongWalk DEF w
<1> HIDE DEF w, start, all
<1>4. \A i \in DOMAIN plan : /\ plan[i].at \in Nat /\ plan[i].at + 1 + Image.bytes[plan[i].at] <= BankEnd
                             /\ Image.bytes[plan[i].at] \in Nat
  <2> TAKE i \in DOMAIN plan
  <2>1. w[AnchorOrdinal + i] \in Spans /\ w[AnchorOrdinal + i].at < BankEnd
    BY <1>1, <1>2, <1>3, WalkGrows DEF FullWalk
  <2>2. /\ w[AnchorOrdinal + i].end <= BankEnd
        /\ w[AnchorOrdinal + i].end = plan[i].at + 1 + Image.bytes[plan[i].at]
    BY <1>2, <1>3 DEF FullWalk, IsWalk
  <2> QED BY <1>1, <1>3, <2>1, <2>2 DEF Spans, Readable
<1>5. \A i \in DOMAIN plan : /\ RowWrite(plan[i]).at = plan[i].at + 1
                             /\ RowWrite(plan[i]).after = plan[i].bytes
                             /\ RowWrite(plan[i]).lo = plan[i].at + 1
                             /\ RowWrite(plan[i]).hi = plan[i].at + 1 + Image.bytes[plan[i].at]
  BY DEF RowWrite, WriteTo
<1>6. ASSUME NEW i \in DOMAIN plan, NEW o \in Touched(RowWrite(plan[i]))
      PROVE  /\ o \in Planned(all) /\ o \in DOMAIN Image.bytes
             /\ After(all, o) = plan[i].bytes[o - plan[i].at]
             /\ o \in Nat /\ o > plan[i].at /\ o < plan[i].at + 1 + Image.bytes[plan[i].at]
             /\ o - plan[i].at \in 1 .. Len(plan[i].bytes)
  <2>1. PICK j \in DOMAIN all : all[j] = RowWrite(plan[i])
    BY PlanHasRows DEF all, SoundPlan
  <2>2. o \in Planned(all) /\ After(all, o) = all[j].after[o - all[j].at + 1]
    BY <2>1, OwnWrite DEF all
  <2>3. /\ Touched(all[j]) \subseteq all[j].lo .. all[j].hi - 1
        /\ all[j].lo .. all[j].hi - 1 \subseteq DOMAIN Image.bytes
    BY DEF all, ValidPlan, ValidWrite
  <2>4. o \in RowWrite(plan[i]).lo .. RowWrite(plan[i]).hi - 1 /\ o \in DOMAIN Image.bytes
    <3>1. Touched(RowWrite(plan[i])) \subseteq RowWrite(plan[i]).lo .. RowWrite(plan[i]).hi - 1
      BY <2>1, <2>3
    <3>2. RowWrite(plan[i]).lo .. RowWrite(plan[i]).hi - 1 \subseteq DOMAIN Image.bytes
      BY <2>1, <2>3
    <3> QED BY <3>1, <3>2
  <2>5. o \in plan[i].at + 1 .. plan[i].at + 1 + Len(plan[i].bytes) - 1
    BY <1>5 DEF Touched
  <2>6. Len(plan[i].bytes) \in Nat /\ plan[i].at \in Nat /\ Image.bytes[plan[i].at] \in Nat
    BY <1>4
  <2>7. o - (plan[i].at + 1) + 1 = o - plan[i].at
    BY <2>5, <2>6
  <2>8. o \in Nat /\ o > plan[i].at /\ o < plan[i].at + 1 + Image.bytes[plan[i].at]
    <3>1. /\ RowWrite(plan[i]).lo = plan[i].at + 1
          /\ RowWrite(plan[i]).hi = plan[i].at + 1 + Image.bytes[plan[i].at]
      BY <1>5
    <3> QED BY <2>4, <2>6, <3>1
  <2>9. o - plan[i].at \in 1 .. Len(plan[i].bytes)
    BY <2>5, <2>6
  <2> QED BY <1>5, <2>1, <2>2, <2>4, <2>7, <2>8, <2>9
<1>7. ASSUME NEW o \in Planned(all), o < BankEnd
      PROVE  \E i \in DOMAIN plan : o \in Touched(RowWrite(plan[i]))
  <2>1. PICK j \in DOMAIN all : o \in Touched(all[j])
    BY DEF Planned
  <2>2. all[j] # FontWrite(tiles)
    <3> SUFFICES ASSUME all[j] = FontWrite(tiles) PROVE FALSE
      OBVIOUS
    <3>1. o >= FontAt
      BY <2>1 DEF Touched, FontWrite, WriteTo
    <3>2. o \in Int
      BY <2>1 DEF Touched
    <3> QED BY <1>1, <1>7, <3>1, <3>2, FontAssumption
  <2> QED BY <2>1, <2>2, PlanHasRows DEF all, SoundPlan
<1>8. \A k \in 1 .. Len(w) : w[k].at \notin Planned(all)
  <2> SUFFICES ASSUME NEW k \in 1 .. Len(w), w[k].at \in Planned(all) PROVE FALSE
    OBVIOUS
  <2>0. IsWalk(Image.bytes, start, BankEnd, w)
    BY <1>2 DEF FullWalk
  <2>1. w[k] \in Spans /\ w[k].at < w[k].end /\ w[k].at < BankEnd
    BY <1>1, <2>0, WalkGrows
  <2>2. PICK i \in DOMAIN plan : w[k].at \in Touched(RowWrite(plan[i]))
    BY <1>7, <2>1
  <2> DEFINE l == AnchorOrdinal + i
  <2>3. l \in 1 .. Len(w) /\ w[l].at = plan[i].at
    BY <1>3
  <2>4. w[k].at > w[l].at /\ w[k].at < w[l].at + 1 + Image.bytes[w[l].at]
    BY <1>6, <2>2, <2>3
  <2> HIDE DEF l
  <2>5. w[l].end = w[l].at + 1 + Image.bytes[w[l].at] /\ w[l] \in Spans
    BY <2>0, <2>3 DEF IsWalk
  <2>6. k < l \/ k = l \/ l < k
    BY <2>3
  <2>7. CASE k < l
    BY <1>1, <2>0, <2>1, <2>3, <2>4, <2>5, <2>7, WalkIsOrdered DEF Spans
  <2>8. CASE k = l
    BY <2>1, <2>4, <2>8 DEF Spans
  <2>9. CASE l < k
    <3>1. w[l].end <= w[k].at
      BY <1>1, <2>0, <2>3, <2>9, WalkIsOrdered
    <3> QED BY <2>1, <2>4, <2>5, <3>1 DEF Spans
  <2> QED BY <2>6, <2>7, <2>8, <2>9
<1>9. \A a \in 0 .. BankEnd - 1 : a \in DOMAIN Image.bytes /\ Image.bytes[a] \in Nat
  BY ImageAssumption DEF IsImage
<1>10. \A a \in 0 .. BankEnd - 1 :
          rom[a] = IF a \in Planned(all) THEN After(all, a) ELSE Image.bytes[a]
  BY <1>9 DEF Applied, all
<1>11. Readable(rom, BankEnd)
  <2> SUFFICES ASSUME NEW a \in 0 .. BankEnd - 1, a \in Planned(all) PROVE After(all, a) \in Nat
    BY <1>1, <1>9, <1>10 DEF Readable
  <2>1. PICK i \in DOMAIN plan : a \in Touched(RowWrite(plan[i]))
    BY <1>1, <1>7
  <2>2. After(all, a) = plan[i].bytes[a - plan[i].at] /\ a - plan[i].at \in 1 .. Len(plan[i].bytes)
    BY <1>6, <2>1
  <2>3. plan[i].bytes \in Seq(Nat)
    OBVIOUS
  <2> QED BY <2>2, <2>3
<1>12. \A k \in 1 .. Len(w) : rom[w[k].at] = Image.bytes[w[k].at]
  <2> TAKE k \in 1 .. Len(w)
  <2>1. w[k] \in Spans /\ w[k].at < BankEnd
    BY <1>1, <1>2, WalkGrows DEF FullWalk
  <2>2. w[k].at \in 0 .. BankEnd - 1
    BY <1>1, <2>1 DEF Spans
  <2> QED BY <1>8, <1>10, <2>2
<1> DEFINE walk == Addressed([bytes |-> rom, table |-> Image.table], AnchorSelector)
<1>13. walk = RecordsFrom(rom, start, Addressable, BankEnd)
  BY DEF Addressed, Physical, start
<1> HIDE DEF walk
<1>14. \A k \in 1 .. Len(w) : walk[k] = w[k]
  BY <1>1, <1>2, <1>11, <1>12, <1>13, PatchedWalk
<1>15. ASSUME NEW i \in DOMAIN plan
       PROVE  Slice(rom, walk[AnchorOrdinal + i].at + 1, Len(plan[i].bytes)) = plan[i].bytes
  <2>1. walk[AnchorOrdinal + i].at = plan[i].at
    BY <1>3, <1>14
  <2>2. plan[i].bytes \in Seq(Nat) /\ plan[i].at \in Nat
    BY <1>4
  <2>3. ASSUME NEW k \in 1 .. Len(plan[i].bytes)
        PROVE  rom[plan[i].at + 1 + k - 1] = plan[i].bytes[k]
    <3> DEFINE o == plan[i].at + 1 + k - 1
    <3>0. Len(plan[i].bytes) \in Nat
      BY <2>2
    <3>1. /\ o \in plan[i].at + 1 .. plan[i].at + 1 + Len(plan[i].bytes) - 1
          /\ o - plan[i].at = k
      BY <2>2, <3>0
    <3>3. o \in Touched(RowWrite(plan[i]))
      BY <1>5, <3>1 DEF Touched
    <3>2. o \in Planned(all) /\ After(all, o) = plan[i].bytes[k] /\ o \in DOMAIN Image.bytes
      BY <1>6, <3>1, <3>3
    <3> QED BY <3>2 DEF Applied, all
  <2>4. Slice(rom, plan[i].at + 1, Len(plan[i].bytes)) = [k \in 1 .. Len(plan[i].bytes) |-> plan[i].bytes[k]]
    BY <2>3 DEF Slice
  <2> QED BY <2>1, <2>2, <2>4
<1> QED BY <1>15 DEF walk

-----------------------------------------------------------------------------
(* Lines and records *)

\* The records with text are a sequence.
LEMMA RecordsWithText ==
  ASSUME NEW c
  PROVE  DOMAIN WithText(c) = 1 .. Len(WithText(c)) /\ Len(WithText(c)) \in Nat
<1>1. Physical(Image, AnchorSelector) \in Nat /\ Readable(Image.bytes, BankEnd) /\ Addressable \in Nat
  BY ImageIsReadable, ImageAssumption, AnchorAssumption, RecordsAssumption
<1>2. Addressed(Image, AnchorSelector) \in Seq(Spans)
  BY <1>1, RecordsAreWalk DEF Addressed, FullWalk, IsWalk
<1>3. ByOrdinal \in Seq(Range(ByOrdinal))
  <2> DEFINE walk == Addressed(Image, AnchorSelector)
  <2>1. DOMAIN walk = 1 .. Len(walk) /\ Len(walk) \in Nat
    BY <1>2
  <2>2. ByOrdinal = [k \in DOMAIN walk |-> [ordinal |-> k - 1, at |-> walk[k].at]]
    BY DEF ByOrdinal
  <2> HIDE DEF walk
  <2>3. DOMAIN ByOrdinal = 1 .. Len(walk) /\ ByOrdinal = [k \in 1 .. Len(walk) |-> ByOrdinal[k]]
    BY <2>1, <2>2
  <2>4. \A k \in 1 .. Len(walk) : ByOrdinal[k] \in Range(ByOrdinal)
    BY <2>3 DEF Range
  <2> QED BY <2>1, <2>3, <2>4
<1>4. WithText(c) \in Seq(Range(ByOrdinal))
  BY <1>3, KeptElements DEF WithText
<1> QED BY <1>4

\* The line of the anchor is a line of its section.
LEMMA AnchorLineIsInSection ==
  ASSUME NEW source \in Sources, NEW c, AnchorIsUnique(c, source)
  PROVE  /\ AnchorLine(source) \in DOMAIN Section(source)
         /\ DOMAIN Section(source) = 1 .. Len(Section(source)) /\ Len(Section(source)) \in Nat
         /\ \A l \in DOMAIN Section(source) : Section(source)[l].text \in DOMAIN Encoded
<1> DEFINE p == CHOOSE p \in AnchorLines(source) : TRUE
<1>1. AnchorLines(source) # {}
  BY FS_EmptySet DEF AnchorIsUnique
<1>2. p \in AnchorLines(source)
  BY <1>1
<1>3. PICK n \in DOMAIN source : p \in {n} \X DOMAIN source[n]
  BY <1>2 DEF AnchorLines
<1>4. p[1] = n /\ p[2] \in DOMAIN source[n]
  BY <1>3
<1>5. Section(source) = source[n] /\ AnchorLine(source) = p[2]
  BY <1>4 DEF Section, AnchorLine
<1>6. source[n] \in Seq(Range(source[n])) /\ \A l \in DOMAIN source[n] : source[n][l].text \in DOMAIN Encoded
  BY SourcesAssumption
<1>7. DOMAIN source[n] = 1 .. Len(source[n]) /\ Len(source[n]) \in Nat
  BY <1>6
<1> QED BY <1>4, <1>5, <1>6, <1>7

\* Every pair has a line of the section, and one of them is the anchor's.
LEMMA PairsHaveLines ==
  ASSUME NEW source \in Sources, NEW c, AnchorIsUnique(c, source), NEW pairs, pairs = Pairs(c, source)
  PROVE  /\ DOMAIN pairs = 1 .. Len(pairs) /\ Len(pairs) \in Nat
         /\ \A p \in DOMAIN pairs : /\ pairs[p].line \in DOMAIN Section(source)
                                    /\ pairs[p].text = Section(source)[pairs[p].line].text
         /\ \E p \in DOMAIN pairs : /\ pairs[p].line = AnchorLine(source)
                                    /\ pairs[p].ordinal = AnchorOrdinal
<1> DEFINE records == WithText(c)
           anchor == CHOOSE k \in DOMAIN records : records[k].ordinal = AnchorOrdinal
           other(l) == anchor + l - AnchorLine(source)
           all == [l \in DOMAIN Section(source) |-> l]
           near == {l \in DOMAIN Section(source) : other(l) \in DOMAIN records}
           lines == Kept(all, near)
           L == AnchorLine(source)
<1>1. anchor \in DOMAIN records /\ records[anchor].ordinal = AnchorOrdinal
  BY DEF AnchorIsUnique
<1>2. anchor \in Nat
  BY <1>1, RecordsWithText
<1>3. L \in DOMAIN Section(source) /\ DOMAIN Section(source) = 1 .. Len(Section(source))
      /\ Len(Section(source)) \in Nat
  BY AnchorLineIsInSection
<1>4. all \in Seq(DOMAIN Section(source)) /\ Range(all) = DOMAIN Section(source)
  BY <1>3 DEF Range
<1>5. lines \in Seq(DOMAIN Section(source)) /\ Range(lines) = near
  <2> HIDE DEF all
  <2>1. near \subseteq DOMAIN Section(source)
    OBVIOUS
  <2> HIDE DEF near
  <2>2. Kept(all, near) \in Seq(DOMAIN Section(source)) /\ Range(Kept(all, near)) = Range(all) \cap near
    BY <1>4, KeptElements
  <2> QED BY <1>4, <2>1, <2>2
<1>6. L \in near
  <2>1. other(L) = anchor
    BY <1>2, <1>3
  <2> QED BY <1>1, <1>3, <2>1
<1>7. DOMAIN pairs = DOMAIN lines
  BY DEF Pairs
<1>8. \A p \in DOMAIN lines : /\ pairs[p].line = lines[p]
                              /\ pairs[p].text = Section(source)[lines[p]].text
                              /\ pairs[p].ordinal = records[other(lines[p])].ordinal
  BY DEF Pairs
<1> HIDE DEF records, anchor, all, near, lines
<1>9. DOMAIN lines = 1 .. Len(lines) /\ Len(lines) \in Nat
      /\ \A p \in DOMAIN lines : lines[p] \in DOMAIN Section(source)
  BY <1>5
<1>10. Len(pairs) = Len(lines)
  <2>1. pairs = [p \in 1 .. Len(lines) |-> pairs[p]]
    BY <1>7, <1>9 DEF Pairs
  <2>2. pairs \in Seq(Range(pairs))
    BY <1>7, <1>9, <2>1 DEF Range
  <2> QED BY <1>7, <1>9, <2>2
<1>11. PICK p \in DOMAIN lines : lines[p] = L
  BY <1>5, <1>6 DEF Range
<1>12. anchor + L - L = anchor
  BY <1>2, <1>3
<1>13. pairs[p].line = L /\ pairs[p].ordinal = AnchorOrdinal
  BY <1>1, <1>8, <1>11, <1>12
<1> QED BY <1>7, <1>8, <1>9, <1>10, <1>11, <1>13

\* A capture starts at the anchor.
LEMMA CapturedIsSound ==
  ASSUME NEW play \in Plays, Captured(play) # <<>>
  PROVE  SoundSeen(Captured(play))
<1> DEFINE found == {k \in 1 .. Min({MaxRejected, Len(play)}) :
                       play[k] = AnchorEntry /\ \A h \in 1 .. k - 1 : play[h] # Silence}
           last  == Min({Len(play), Min(found) + MaxPresses})
           rest  == SubSeq(play, Min(found) + 1, last)
           same(n) == {k \in 1 .. n : rest[k].selector = AnchorSelector}
           enough == {n \in DOMAIN rest : Cardinality(same(n)) = EntryGoal} \cup {Len(rest)}
           part == SubSeq(rest, 1, Min(enough))
<1>1. play \in Seq(Entries) /\ Len(play) \in Nat /\ MaxRejected \in Nat /\ MaxPresses \in Nat
  BY PlaysAssumption, AnchorAssumption
<1>2. /\ found # {}
      /\ Captured(play) = <<AnchorEntry>> \o Kept(part, Range(rest) \ {Silence})
  BY DEF Captured
<1>3. found \subseteq Nat
  OBVIOUS
<1>4. Min(found) \in found
  BY <1>2, <1>3, MinOfNaturals
<1> HIDE DEF found
<1>5. Min(found) \in Nat
  BY <1>3, <1>4
<1>6. Min(found) <= Len(play)
  <2>1. Min(found) \in 1 .. Min({MaxRejected, Len(play)})
    BY <1>4 DEF found
  <2>2. {MaxRejected, Len(play)} \subseteq Nat /\ {MaxRejected, Len(play)} # {}
    BY <1>1
  <2>3. Min({MaxRejected, Len(play)}) \in Nat /\ Min({MaxRejected, Len(play)}) <= Len(play)
    BY <2>2, MinOfNaturals
  <2> QED BY <1>1, <1>5, <2>1, <2>3
<1>7. last \in Nat /\ last <= Len(play)
  <2>1. {Len(play), Min(found) + MaxPresses} \subseteq Nat /\ {Len(play), Min(found) + MaxPresses} # {}
    BY <1>1, <1>5
  <2> QED BY <2>1, MinOfNaturals
<1> HIDE DEF last
<1>8. rest \in Seq(Entries)
  <2>1. \A i \in Min(found) + 1 .. last : play[i] \in Entries
    BY <1>1, <1>5, <1>7
  <2> QED BY <1>5, <1>7, <2>1, SubSeqProperties
<1> HIDE DEF rest
<1>9. Min(enough) \in Nat /\ Min(enough) <= Len(rest)
  <2>1. enough \subseteq Nat /\ enough # {} /\ Len(rest) \in enough
    BY <1>8
  <2> QED BY <2>1, MinOfNaturals
<1> HIDE DEF enough
<1>10. part \in Seq(Entries)
  <2>1. \A i \in 1 .. Min(enough) : rest[i] \in Entries
    BY <1>8, <1>9
  <2> QED BY <1>9, <2>1, SubSeqProperties
<1> HIDE DEF part
<1>11. Kept(part, Range(rest) \ {Silence}) \in Seq(Entries)
  BY <1>10, KeptElements
<1>12. AnchorEntry \in Entries
  BY AnchorAssumption DEF AnchorEntry, Entries
<1> DEFINE more == Kept(part, Range(rest) \ {Silence})
<1> HIDE DEF more
<1>13. <<AnchorEntry>> \o more \in Seq(Entries) /\ Len(<<AnchorEntry>> \o more) > 0
       /\ (<<AnchorEntry>> \o more)[1] = AnchorEntry
  BY <1>11, <1>12 DEF more
<1> QED BY <1>2, <1>13 DEF SoundSeen, more

\* If all that was seen is of the anchor's selector, a sequence that is ready
\* is the records from the anchor on, one after the other.
LEMMA ReadyIsInOrder ==
  ASSUME NEW seen, SoundSeen(seen), SequenceStatus(seen) = "ready",
         \A i \in DOMAIN seen : seen[i].selector = AnchorSelector
  PROVE  \A i \in DOMAIN seen :
            seen[i] = [selector |-> AnchorSelector, ordinal |-> AnchorOrdinal + i - 1]
<1> DEFINE keep == {e \in Range(seen) : e.selector = AnchorSelector}
           t == Tail(seen)
<1>1. seen \in Seq(Entries) /\ seen # <<>> /\ seen[1] = AnchorEntry
  BY DEF SoundSeen
<1>2. /\ t \in Seq(Entries) /\ Len(t) = Len(seen) - 1 /\ Len(seen) \in Nat
      /\ \A i \in 1 .. Len(t) : t[i] = seen[i + 1]
  BY <1>1, HeadTailProperties
<1> HIDE DEF t
<1>3. Range(t) \subseteq keep
  <2> SUFFICES ASSUME NEW i \in DOMAIN t PROVE t[i] \in keep
    BY DEF Range
  <2>1. i \in 1 .. Len(t) /\ i + 1 \in DOMAIN seen
    BY <1>1, <1>2
  <2> QED BY <1>2, <2>1 DEF Range
<1> HIDE DEF keep
<1>4. SameSelector(seen) = t
  <2>1. Kept(t, keep) = t
    BY <1>2, <1>3, KeptElements
  <2> QED BY <2>1 DEF SameSelector, t, keep
<1>5. \A k \in DOMAIN t : t[k].ordinal = AnchorOrdinal + k
  BY <1>4 DEF SequenceStatus
<1> SUFFICES ASSUME NEW i \in DOMAIN seen
             PROVE  seen[i] = [selector |-> AnchorSelector, ordinal |-> AnchorOrdinal + i - 1]
  OBVIOUS
<1>6. seen[i] \in Entries /\ i \in Nat /\ AnchorOrdinal \in Nat
  BY <1>1, AnchorAssumption
<1>7. seen[i].ordinal = AnchorOrdinal + i - 1
  <2>1. CASE i = 1
    BY <1>1, <1>6, <2>1 DEF AnchorEntry
  <2>2. CASE i # 1
    <3>1. i - 1 \in 1 .. Len(t) /\ i - 1 + 1 = i
      BY <1>1, <1>2, <2>2
    <3>2. t[i - 1] = seen[i] /\ i - 1 \in DOMAIN t
      BY <1>2, <3>1
    <3>3. seen[i].ordinal = AnchorOrdinal + (i - 1)
      BY <1>5, <3>2
    <3> QED BY <1>6, <3>3
  <2> QED BY <2>1, <2>2
<1> QED BY <1>6, <1>7 DEF Entries

\* Lines in step are as far from the first as their rows.
LEMMA StepByStep ==
  ASSUME NEW rows, IsSeq(rows), LinesInStep(rows), rows # <<>>, rows[1].pair.line \in Nat
  PROVE  \A i \in DOMAIN rows : rows[i].pair.line = rows[1].pair.line + i - 1
<1> DEFINE first == rows[1].pair.line
           Known == {i \in Nat : i \in DOMAIN rows => rows[i].pair.line = first + i - 1}
<1>0. DOMAIN rows = 1 .. Len(rows) /\ Len(rows) \in Nat
  BY DEF IsSeq
<1>1. 0 \in Known
  BY <1>0
<1>2. ASSUME NEW i \in Nat, i \in Known PROVE i + 1 \in Known
  <2> SUFFICES ASSUME i + 1 \in DOMAIN rows PROVE rows[i + 1].pair.line = first + (i + 1) - 1
    OBVIOUS
  <2>1. CASE i = 0
    BY <2>1
  <2>2. CASE i # 0
    <3>1. i \in DOMAIN rows /\ i + 1 \in DOMAIN rows \ {1} /\ i + 1 - 1 = i
      BY <1>0, <2>2
    <3>2. rows[i + 1].pair.line = rows[i].pair.line + 1
      <4> DEFINE j == i + 1
      <4>1. j \in DOMAIN rows \ {1} /\ j - 1 = i
        BY <3>1
      <4> HIDE DEF j
      <4>2. rows[j].pair.line = rows[j - 1].pair.line + 1
        BY <4>1 DEF LinesInStep
      <4>3. rows[j].pair.line = rows[i].pair.line + 1
        BY <4>1, <4>2, Zenon
      <4> QED BY <4>3 DEF j
    <3>3. rows[i].pair.line = first + i - 1
      BY <1>2, <3>1
    <3> QED BY <3>2, <3>3
  <2> QED BY <2>1, <2>2
<1> HIDE DEF Known
<1>3. Nat \subseteq Known
  BY <1>1, <1>2, Induction
<1> QED BY <1>0, <1>3 DEF Known

\* The rows of a sequence that is ready, with the pairs of one version of the
\* page: in order, and if their lines are in step, lines from the anchor's on.
LEMMA RowsAreSound ==
  ASSUME NEW seen, SoundSeen(seen), SequenceStatus(seen) = "ready",
         NEW pairs, SoundPairs(pairs), NEW rows, rows = ContextRows(seen, pairs)
  PROVE  SoundContext(rows)
<1>1. PICK c \in Corpora, source \in Sources : AnchorIsUnique(c, source) /\ pairs = Pairs(c, source)
  BY DEF SoundPairs
<1>2. /\ DOMAIN pairs = 1 .. Len(pairs) /\ Len(pairs) \in Nat
      /\ \A p \in DOMAIN pairs : /\ pairs[p].line \in DOMAIN Section(source)
                                 /\ pairs[p].text = Section(source)[pairs[p].line].text
      /\ \E p \in DOMAIN pairs : /\ pairs[p].line = AnchorLine(source)
                                 /\ pairs[p].ordinal = AnchorOrdinal
  BY <1>1, PairsHaveLines
<1>3. /\ AnchorLine(source) \in DOMAIN Section(source)
      /\ DOMAIN Section(source) = 1 .. Len(Section(source)) /\ Len(Section(source)) \in Nat
      /\ \A l \in DOMAIN Section(source) : Section(source)[l].text \in DOMAIN Encoded
  BY <1>1, AnchorLineIsInSection
<1>4. seen \in Seq(Entries) /\ DOMAIN seen = 1 .. Len(seen) /\ Len(seen) \in Nat /\ 1 \in DOMAIN seen
      /\ seen[1] = AnchorEntry
  BY DEF SoundSeen
<1>5. /\ DOMAIN rows = DOMAIN seen
      /\ \A i \in DOMAIN rows :
            /\ rows[i].entry = seen[i]
            /\ rows[i].pair = IF Cardinality(Matches(seen[i], pairs)) = 1
                             THEN pairs[CHOOSE p \in Matches(seen[i], pairs) : TRUE] ELSE NoPair
  BY DEF ContextRows
<1>6. IsSeq(rows)
  <2>1. rows = [i \in 1 .. Len(seen) |-> rows[i]]
    BY <1>4 DEF ContextRows
  <2> QED BY <1>4, <2>1 DEF IsSeq, Range
<1>7. ASSUME AllMapped(rows), NEW i \in DOMAIN rows
      PROVE  \E p \in DOMAIN pairs : /\ Matches(seen[i], pairs) = {p} /\ rows[i].pair = pairs[p]
                                    /\ seen[i].selector = AnchorSelector
  <2> DEFINE M == Matches(seen[i], pairs)
  <2>1. Cardinality(M) = 1 /\ rows[i].pair = pairs[CHOOSE p \in M : TRUE]
    BY <1>5, <1>7 DEF AllMapped
  <2>2. M \subseteq DOMAIN pairs
    BY DEF Matches
  <2>3. IsFiniteSet(DOMAIN pairs)
    BY <1>2, FS_Interval
  <2>4. IsFiniteSet(M)
    BY <2>2, <2>3, FS_Subset
  <2> HIDE DEF M
  <2>5. PICK p : M = {p}
    BY <2>1, <2>4, FS_Singleton
  <2>6. (CHOOSE q \in M : TRUE) = p /\ p \in DOMAIN pairs
    BY <2>2, <2>5
  <2>7. seen[i].selector = AnchorSelector
    BY <2>5 DEF M, Matches
  <2> QED BY <2>1, <2>5, <2>6, <2>7 DEF M
<1>8. ASSUME AllMapped(rows), NEW i \in DOMAIN rows
      PROVE  rows[i].entry = [selector |-> AnchorSelector, ordinal |-> AnchorOrdinal + i - 1]
  <2>1. \A k \in DOMAIN seen : seen[k].selector = AnchorSelector
    BY <1>5, <1>7, <1>8
  <2> QED BY <1>5, <2>1, ReadyIsInOrder
<1>9. ASSUME AllMapped(rows), LinesInStep(rows) PROVE RowsFromPage(rows)
  <2>1. PICK q \in DOMAIN pairs : /\ pairs[q].line = AnchorLine(source)
                                 /\ pairs[q].ordinal = AnchorOrdinal
    BY <1>2
  <2>2. q \in Matches(seen[1], pairs)
    BY <1>4, <2>1 DEF Matches, AnchorEntry
  <2>3. rows[1].pair = pairs[q]
    BY <1>4, <1>5, <1>7, <1>9, <2>2
  <2>4. rows # <<>> /\ rows[1].pair.line = AnchorLine(source) /\ AnchorLine(source) \in Nat
    BY <1>3, <1>4, <1>5, <2>1, <2>3
  <2>5. \A i \in DOMAIN rows : rows[i].pair.line = AnchorLine(source) + i - 1
    BY <1>6, <1>9, <2>4, StepByStep
  <2>6. ASSUME NEW i \in DOMAIN rows
        PROVE  /\ rows[i].pair.text = PageLine(source, i).text
               /\ rows[i].pair.text \in DOMAIN Encoded
    <3>1. PICK p \in DOMAIN pairs : rows[i].pair = pairs[p]
      BY <1>7, <1>9
    <3>2. /\ rows[i].pair.line \in DOMAIN Section(source)
          /\ rows[i].pair.text = Section(source)[rows[i].pair.line].text
      BY <1>2, <3>1
    <3>3. rows[i].pair.text = Section(source)[AnchorLine(source) + i - 1].text
      BY <2>5, <3>2
    <3> QED BY <1>3, <3>2, <3>3 DEF PageLine
  <2> QED BY <2>4, <2>5, <2>6 DEF RowsFromPage
<1> QED BY <1>6, <1>8, <1>9 DEF SoundContext

-----------------------------------------------------------------------------
(* What the tools make of sound files *)

LEMMA SequenceOfRows ==
  ASSUME NEW n \in Nat, NEW s, DOMAIN s = 1 .. n, s = [i \in 1 .. n |-> s[i]]
  PROVE  IsSeq(s) /\ Len(s) = n
<1>1. \A i \in 1 .. n : s[i] \in Range(s)
  BY DEF Range
<1>2. s \in Seq(Range(s))
  BY <1>1
<1> QED BY <1>2 DEF IsSeq

LEMMA IsSeqDomain ==
  ASSUME NEW s, IsSeq(s)
  PROVE  Len(s) \in Nat /\ DOMAIN s = 1 .. Len(s) /\ s = [i \in 1 .. Len(s) |-> s[i]]
BY DEF IsSeq

LEMMA ReviewIsSound ==
  ASSUME NEW rows, SoundContext(rows), Reviewable(rows)
  PROVE  Batch(rows) # <<>> /\ SoundBatch(Batch(rows))
<1>1. Len(rows) \in Nat /\ DOMAIN rows = 1 .. Len(rows) /\ Len(rows) # 0
  BY DEF SoundContext, IsSeq, Reviewable
<1>2. DOMAIN Batch(rows) = 1 .. Len(rows) /\ Batch(rows) = [i \in 1 .. Len(rows) |-> Batch(rows)[i]]
  BY <1>1 DEF Batch
<1>3. IsSeq(Batch(rows)) /\ Len(Batch(rows)) = Len(rows)
  BY <1>1, <1>2, SequenceOfRows
<1>4. RowsFromPage(rows)
  BY DEF SoundContext, Reviewable
<1>5. \A i \in DOMAIN rows : Batch(rows)[i].text = rows[i].pair.text
  BY DEF Batch
<1>6. \A i \in DOMAIN rows : Texts(Batch(rows))[i] = rows[i].pair.text
  BY <1>1, <1>2, <1>5 DEF Texts
<1>7. DOMAIN Texts(Batch(rows)) = DOMAIN rows
  BY <1>1, <1>2 DEF Texts
<1>8. FromPage(Texts(Batch(rows)))
  BY <1>4, <1>6, <1>7 DEF FromPage, RowsFromPage
<1>9. Batch(rows) # <<>>
  BY <1>1, <1>3
<1> QED BY <1>3, <1>8, <1>9 DEF SoundBatch

LEMMA ApprovalIsSound ==
  ASSUME NEW read, SoundBatch(read), NEW a, a.targets = Texts(read)
  PROVE  SoundApproval(a)
<1>1. Len(read) \in Nat /\ DOMAIN read = 1 .. Len(read)
  BY DEF SoundBatch, IsSeq
<1>2. DOMAIN Texts(read) = 1 .. Len(read) /\ Texts(read) = [i \in 1 .. Len(read) |-> Texts(read)[i]]
  BY <1>1 DEF Texts
<1>3. IsSeq(Texts(read))
  BY <1>1, <1>2, SequenceOfRows
<1> QED BY <1>3 DEF SoundApproval, SoundBatch

\* The private file of an approval
IsApproved(local, known) ==
    /\ local = [batch |-> local.batch, targets |-> local.targets]
    /\ Approved(local, known)

LEMMA ApprovedIsSound ==
  ASSUME NEW known, \A a \in known : SoundApproval(a), NEW local, Approved(local, known)
  PROVE  IsSeq(local.targets) /\ FromPage(local.targets)
<1>1. PICK a \in known : a.targets = local.targets
  BY DEF Approved
<1> QED BY <1>1 DEF SoundApproval

LEMMA EncodingIsSound ==
  ASSUME NEW known, NEW local, IsApproved(local, known), IsSeq(local.targets),
         NEW stored, IsSeq(stored), NEW pairs, NEW visible,
         Len(local.targets) = Len(Rejoined(stored, pairs))
  PROVE  SoundEncoding([batch |-> local.batch,
                        rows |-> EncodedRows(Rejoined(stored, pairs), local.targets, visible)],
                       known)
<1> DEFINE rows == Rejoined(stored, pairs)
           encoded == EncodedRows(rows, local.targets, visible)
           n == Len(rows)
<1>1. n \in Nat /\ DOMAIN rows = 1 .. n
  <2>1. DOMAIN rows = 1 .. Len(stored) /\ rows = [i \in 1 .. Len(stored) |-> rows[i]]
    BY IsSeqDomain DEF Rejoined, ContextRows
  <2>2. Len(rows) = Len(stored)
    <3> HIDE DEF rows
    <3> QED BY <2>1, IsSeqDomain, SequenceOfRows
  <2> QED BY <2>1, <2>2, IsSeqDomain
<1> HIDE DEF rows
<1>2. /\ DOMAIN encoded = 1 .. n /\ encoded = [i \in 1 .. n |-> encoded[i]]
      /\ \A i \in 1 .. n : /\ encoded[i].text = local.targets[i]
                           /\ encoded[i].bytes = Encoded[local.targets[i]]
  BY <1>1 DEF EncodedRows
<1> HIDE DEF encoded
<1>3. IsSeq(encoded) /\ Len(encoded) = n
  BY <1>1, <1>2, SequenceOfRows
<1>4. local.targets = [i \in 1 .. n |-> local.targets[i]]
  <2>1. IsSeq(local.targets) /\ Len(local.targets) = n
    BY DEF rows
  <2> QED BY <2>1, IsSeqDomain
<1>5. Texts(encoded) = local.targets
  BY <1>2, <1>4 DEF Texts
<1>6. Approved([batch |-> local.batch, targets |-> Texts(encoded)], known)
  BY <1>5 DEF IsApproved
<1>7. \A i \in DOMAIN encoded : encoded[i].bytes = Encoded[encoded[i].text]
  BY <1>2
<1> QED BY <1>3, <1>6, <1>7 DEF SoundEncoding, encoded, rows

LEMMA PlanIsSound ==
  ASSUME NEW known, \A a \in known : SoundApproval(a),
         NEW rows, SoundContext(rows), NEW local, SoundEncoding(local, known),
         NEW pairs, Insertable(rows, pairs, local.rows)
  PROVE  SoundPlan(ReinsertionRows(rows, local.rows))
<1> DEFINE encoded == local.rows
           plan == ReinsertionRows(rows, encoded)
           n == Len(rows)
<1>1. n \in Nat /\ DOMAIN rows = 1 .. n /\ DOMAIN encoded = 1 .. n
  BY DEF SoundContext, SoundEncoding, IsSeq, Insertable
<1>2. /\ DOMAIN plan = 1 .. n /\ plan = [i \in 1 .. n |-> plan[i]]
      /\ \A i \in 1 .. n :
            /\ plan[i].at = encoded[i].at /\ plan[i].bytes = encoded[i].bytes
            /\ plan[i].aliases = Aliases(encoded[i].at)
            /\ plan[i].selected = <<rows[i].entry.selector, rows[i].entry.ordinal>>
  BY <1>1 DEF ReinsertionRows
<1>3. IsSeq(plan)
  <2> HIDE DEF plan, n
  <2> QED BY <1>1, <1>2, SequenceOfRows
<1>4. \A i \in 1 .. n : rows[i].entry = [selector |-> AnchorSelector, ordinal |-> AnchorOrdinal + i - 1]
  BY <1>1 DEF SoundContext, Insertable
<1>5. \A i \in 1 .. n : encoded[i].bytes = Encoded[encoded[i].text]
  BY <1>1 DEF SoundEncoding
<1>6. FromPage(Texts(encoded))
  <2> DEFINE a == [batch |-> local.batch, targets |-> Texts(encoded)]
  <2>1. Approved(a, known)
    BY DEF SoundEncoding
  <2> HIDE DEF a
  <2>2. FromPage(a.targets)
    BY <2>1, ApprovedIsSound
  <2> QED BY <2>2 DEF a
<1>7. PICK source \in Sources : \A i \in 1 .. n :
         encoded[i].text \in DOMAIN Encoded /\ encoded[i].text = PageLine(source, i).text
  BY <1>1, <1>6 DEF FromPage, Texts
<1> HIDE DEF plan
<1>8. \A i \in DOMAIN plan : /\ PageLine(source, i).text \in DOMAIN Encoded
                             /\ plan[i].bytes = Encoded[PageLine(source, i).text]
  BY <1>2, <1>5, <1>7
<1>9. \A i \in DOMAIN plan : /\ plan[i].selected = <<AnchorSelector, AnchorOrdinal + i - 1>>
                             /\ plan[i].aliases = Aliases(plan[i].at)
  <2> TAKE i \in DOMAIN plan
  <2>1. i \in 1 .. n
    BY <1>2
  <2>2. rows[i].entry.selector = AnchorSelector /\ rows[i].entry.ordinal = AnchorOrdinal + i - 1
    <3>1. rows[i].entry = [selector |-> AnchorSelector, ordinal |-> AnchorOrdinal + i - 1]
      BY <1>4, <2>1
    <3> QED BY <3>1
  <2>3. plan[i].selected = <<rows[i].entry.selector, rows[i].entry.ordinal>>
        /\ plan[i].at = encoded[i].at /\ plan[i].aliases = Aliases(encoded[i].at)
    BY <1>2, <2>1
  <2> QED BY <2>2, <2>3, Zenon
<1> QED BY <1>3, <1>8, <1>9 DEF SoundPlan, plan

LEMMA BuildShows ==
  ASSUME NEW plan, SoundPlan(plan), ReinsertionReady(plan), NEW tiles, Buildable(tiles, plan)
  PROVE  RomShows(Applied(Image.bytes, Plan(tiles, plan)), Len(plan))
<1> DEFINE rom == Applied(Image.bytes, Plan(tiles, plan))
           walk == Addressed([bytes |-> rom, table |-> Image.table], AnchorSelector)
<1>1. PICK source \in Sources : \A i \in DOMAIN plan :
         /\ PageLine(source, i).text \in DOMAIN Encoded
         /\ plan[i].bytes = Encoded[PageLine(source, i).text]
  BY DEF SoundPlan
<1>2. \A i \in DOMAIN plan : plan[i].bytes \in Seq(Nat)
  BY <1>1, EncodedAssumption
<1>3. ValidPlan(Image.bytes, Plan(tiles, plan))
  BY DEF Buildable
<1>4. \A i \in DOMAIN plan :
         Slice(rom, walk[AnchorOrdinal + i].at + 1, Len(plan[i].bytes)) = plan[i].bytes
  BY <1>2, <1>3, BuildIsAlongWalk
<1> HIDE DEF rom
<1>5. \A i \in DOMAIN plan : Shows(rom, walk[AnchorOrdinal + i].at, PageLine(source, i).text)
  BY <1>1, <1>4 DEF Shows
<1>6. DOMAIN plan = 1 .. Len(plan)
  BY IsSeqDomain DEF SoundPlan
<1> QED BY <1>5, <1>6 DEF RomShows, rom

-----------------------------------------------------------------------------
(* The files, write by write *)

FilesInv == FilesAreSound /\ OwnFilesFit /\ PlanHasInputs

Inv ==
  /\ WorldIsKnown /\ ReadingIsSound /\ ApprovalsAreSound
  /\ FilesInv /\ TodoIsSound /\ QueueIsChain /\ PlanIsNew

ReinsertionInputs == Both({"encoding"}) \cup {Priv("context"), Priv("projection")}

LEMMA ItemsDiffer ==
  /\ \A t, u : /\ Priv(t) # Pub(u) /\ Priv(t) # Overlay /\ Priv(t) # Rom
               /\ Pub(t) # Overlay /\ Pub(t) # Rom /\ Priv(t) # Quality
               /\ Priv(t) = Priv(u) => t = u
               /\ Pub(t) = Pub(u) => t = u
  /\ Overlay # Rom
BY DEF Priv, Pub, Overlay, Rom, Quality

LEMMA ToolNames ==
  /\ Chain \in Seq(Tools) /\ Len(Chain) = 16
  /\ \A k \in 2 .. 16 : Chain[k] = "build" => Chain[k - 1] = "reinsertion"
  /\ {"source", "anchor", "projection", "corroboration", "sequence", "context",
      "demand", "candidates", "glyphReview", "preservation", "review", "approval",
      "capacity", "encoding", "reinsertion", "build"} \subseteq Tools
<1>1. DOMAIN Chain = 1 .. 16
  BY DEF Chain
<1>2. Len(Chain) = 16
  BY DEF Chain
<1>3. Chain = [k \in 1 .. 16 |-> Chain[k]]
  BY DEF Chain
<1>4. \A k \in 1 .. 16 : Chain[k] \in Tools
  BY <1>1 DEF Tools, Range
<1>5. Chain \in Seq(Tools)
  BY <1>3, <1>4
<1>6. /\ Chain[1] = "source" /\ Chain[2] = "anchor" /\ Chain[3] = "projection"
      /\ Chain[4] = "corroboration" /\ Chain[5] = "sequence" /\ Chain[6] = "context"
      /\ Chain[7] = "demand" /\ Chain[8] = "candidates" /\ Chain[9] = "glyphReview"
      /\ Chain[10] = "preservation" /\ Chain[11] = "review" /\ Chain[12] = "approval"
      /\ Chain[13] = "capacity" /\ Chain[14] = "encoding" /\ Chain[15] = "reinsertion"
      /\ Chain[16] = "build"
  BY DEF Chain
<1>7. \A k \in 2 .. 16 : Chain[k] = "build" => Chain[k - 1] = "reinsertion"
  BY DEF Chain
<1>8. {Chain[1], Chain[2], Chain[3], Chain[4], Chain[5], Chain[6], Chain[7], Chain[8], Chain[9],
       Chain[10], Chain[11], Chain[12], Chain[13], Chain[14], Chain[15], Chain[16]} \subseteq Tools
  BY <1>4
<1> QED BY <1>2, <1>5, <1>6, <1>7, <1>8

\* What was approved stays approved.
LEMMA SoundStays ==
  ASSUME NEW known, NEW more, known \subseteq more, NEW t, NEW data, Sound(t, data, known)
  PROVE  Sound(t, data, more)
BY DEF Sound, SoundEncoding, Approved

LEMMA WritePrivate ==
  ASSUME FilesInv, NEW t \in Tools, NEW data, Sound(t, data, approvals'),
         t = "reinsertion" => Exist(ReinsertionInputs),
         Written(PrivateFile(t, data)), approvals \subseteq approvals'
  PROVE  /\ FilesInv' /\ Exist({Priv(t)})' /\ file'[Priv(t)] = data
         /\ \A f \in DOMAIN file : f # Priv(t) => file'[f] = file[f]
         /\ DOMAIN file' = DOMAIN file \cup {Priv(t)}
         /\ \A u \in Tools : u # t => (NamesOwn(u)' <=> NamesOwn(u))
<1>1. /\ DOMAIN file' = DOMAIN file \cup {Priv(t)} /\ file'[Priv(t)] = data
      /\ \A f \in DOMAIN file : f # Priv(t) => file'[f] = file[f]
      /\ \A u \in Tools : names'[u] = names[u] \ {Priv(t)}
  BY ItemsDiffer DEF Written, PrivateFile
<1>2. FilesAreSound'
  <2> SUFFICES ASSUME NEW u \in Tools, Exist({Priv(u)})'
               PROVE  Sound(u, file'[Priv(u)], approvals')
    BY DEF FilesAreSound
  <2>1. CASE u = t
    BY <1>1, <2>1
  <2>2. CASE u # t
    <3>1. Exist({Priv(u)}) /\ file'[Priv(u)] = file[Priv(u)]
      BY <1>1, <2>2, ItemsDiffer DEF Exist
    <3>2. Sound(u, file[Priv(u)], approvals)
      BY <3>1 DEF FilesInv, FilesAreSound
    <3> QED BY <3>1, <3>2, SoundStays
  <2> QED BY <2>1, <2>2
<1>3. \A u \in Tools : u # t => (NamesOwn(u)' <=> NamesOwn(u))
  BY <1>1, ItemsDiffer DEF NamesOwn
<1>4. OwnFilesFit'
  <2>1. Rom \in names'["build"] => Exist({Rom})' /\ Rom \in names["build"] /\ file'[Rom] = file[Rom]
    BY <1>1, ItemsDiffer, ToolNames DEF FilesInv, OwnFilesFit, Exist
  <2>2. ASSUME NEW u \in Tools, NamesOwn(u)'
        PROVE  /\ Exist({Priv(u), Pub(u)})'
               /\ (u = "build" => Rom \in names'[u]) =>
                      Fits(u, file'[Priv(u)], file'[Pub(u)], file'[Rom])
    <3>1. u # t /\ NamesOwn(u) /\ Exist({Priv(u), Pub(u)})
      BY <1>1, <1>3, <2>2 DEF NamesOwn, FilesInv, OwnFilesFit
    <3>2. Exist({Priv(u), Pub(u)})' /\ file'[Priv(u)] = file[Priv(u)] /\ file'[Pub(u)] = file[Pub(u)]
      BY <1>1, <3>1, ItemsDiffer DEF Exist
    <3>3. ASSUME u = "build" => Rom \in names'[u]
          PROVE  Fits(u, file'[Priv(u)], file'[Pub(u)], file'[Rom])
      <4>1. u = "build" => Rom \in names[u] /\ file'[Rom] = file[Rom]
        BY <2>1, <3>3
      <4>2. Fits(u, file[Priv(u)], file[Pub(u)], file[Rom])
        BY <3>1, <4>1 DEF FilesInv, OwnFilesFit
      <4> QED BY <3>2, <4>1, <4>2 DEF Fits
    <3> QED BY <3>2, <3>3
  <2> QED BY <2>1, <2>2 DEF OwnFilesFit
<1>5. PlanHasInputs'
  <2>1. DOMAIN file \subseteq DOMAIN file'
    BY <1>1
  <2>2. Exist({Priv("reinsertion")})' => Exist(ReinsertionInputs)
    BY <1>1, ItemsDiffer, Zenon DEF Exist, FilesInv, PlanHasInputs, ReinsertionInputs
  <2> QED BY <2>1, <2>2 DEF Exist, PlanHasInputs, ReinsertionInputs
<1>6. Exist({Priv(t)})'
  BY <1>1 DEF Exist
<1> QED BY <1>1, <1>2, <1>3, <1>4, <1>5, <1>6 DEF FilesInv

LEMMA WritePublished ==
  ASSUME FilesInv, NEW t \in Tools, NEW data, NEW from, Priv(t) \in from, Exist({Priv(t)}),
         t = "build" => Exist({Rom}), Fits(t, file[Priv(t)], data, file[Rom]),
         Written(PublishedFile(t, data, from)), UNCHANGED approvals
  PROVE  FilesInv' /\ NamesOwn(t)' /\ \A u \in Tools : NamesOwn(u) => NamesOwn(u)'
<1>1. /\ DOMAIN file' = DOMAIN file \cup {Pub(t)} /\ file'[Pub(t)] = data
      /\ \A f \in DOMAIN file : f # Pub(t) => file'[f] = file[f]
      /\ names'[t] = from
      /\ \A u \in Tools : u # t => names'[u] = names[u] \ {Pub(t)}
  BY ItemsDiffer DEF Written, PublishedFile
<1>2. FilesAreSound'
  BY <1>1, ItemsDiffer DEF FilesInv, FilesAreSound, Exist
<1>3. NamesOwn(t)' /\ \A u \in Tools : u # t => (NamesOwn(u)' <=> NamesOwn(u))
  BY <1>1, ItemsDiffer DEF NamesOwn
<1>4. OwnFilesFit'
  <2>1. Rom \in names'["build"] => Exist({Rom})' /\ file'[Rom] = file[Rom]
    <3>1. Rom \in names'["build"] => Rom \in DOMAIN file
      BY <1>1, ToolNames DEF FilesInv, OwnFilesFit, Exist
    <3> QED BY <1>1, <3>1, ItemsDiffer DEF Exist
  <2>2. CASE TRUE
    <3>1. Exist({Priv(t), Pub(t)})' /\ file'[Priv(t)] = file[Priv(t)]
      BY <1>1, ItemsDiffer DEF Exist
    <3>2. (t = "build" => Rom \in names'[t]) => Fits(t, file'[Priv(t)], file'[Pub(t)], file'[Rom])
      BY <1>1, <2>1, <3>1 DEF Fits
    <3>3. ASSUME NEW u \in Tools, u # t, NamesOwn(u)
          PROVE  /\ Exist({Priv(u), Pub(u)})'
                 /\ (u = "build" => Rom \in names'[u]) =>
                        Fits(u, file'[Priv(u)], file'[Pub(u)], file'[Rom])
      <4>1. Exist({Priv(u), Pub(u)})
        BY <3>3 DEF FilesInv, OwnFilesFit
      <4>2. Exist({Priv(u), Pub(u)})' /\ file'[Priv(u)] = file[Priv(u)] /\ file'[Pub(u)] = file[Pub(u)]
        BY <1>1, <3>3, <4>1, ItemsDiffer DEF Exist
      <4>3. ASSUME u = "build" => Rom \in names'[u]
            PROVE  Fits(u, file'[Priv(u)], file'[Pub(u)], file'[Rom])
        <5>1. u = "build" => Rom \in names[u] /\ file'[Rom] = file[Rom]
          BY <1>1, <2>1, <3>3, <4>3
        <5>2. Fits(u, file[Priv(u)], file[Pub(u)], file[Rom])
          BY <3>3, <5>1 DEF FilesInv, OwnFilesFit
        <5> QED BY <4>2, <5>1, <5>2 DEF Fits
      <4> QED BY <4>2, <4>3
    <3> QED BY <1>3, <2>1, <3>1, <3>2, <3>3 DEF OwnFilesFit
  <2> QED BY <2>2
<1>5. PlanHasInputs'
  <2>1. DOMAIN file \subseteq DOMAIN file'
    BY <1>1
  <2>2. Exist({Priv("reinsertion")})' => Exist(ReinsertionInputs)
    BY <1>1, ItemsDiffer, Zenon DEF Exist, FilesInv, PlanHasInputs, ReinsertionInputs
  <2> QED BY <2>1, <2>2 DEF Exist, PlanHasInputs, ReinsertionInputs
<1> QED BY <1>2, <1>3, <1>4, <1>5 DEF FilesInv

\* The font overlay, and the ROM
LEMMA WriteOther ==
  ASSUME FilesInv, NEW item \in {Overlay, Rom}, NEW data,
         Written([item |-> item, data |-> data, from |-> {}]), UNCHANGED approvals
  PROVE  /\ FilesInv' /\ file'[item] = data /\ DOMAIN file' = DOMAIN file \cup {item}
         /\ \A u \in Tools : NamesOwn(u)' <=> NamesOwn(u)
<1>1. /\ DOMAIN file' = DOMAIN file \cup {item} /\ file'[item] = data
      /\ \A f \in DOMAIN file : f # item => file'[f] = file[f]
      /\ \A u \in Tools : names'[u] = names[u] \ {item}
  BY ItemsDiffer DEF Written
<1>2. FilesAreSound'
  BY <1>1, ItemsDiffer DEF FilesInv, FilesAreSound, Exist
<1>3. \A u \in Tools : NamesOwn(u)' <=> NamesOwn(u)
  BY <1>1, ItemsDiffer DEF NamesOwn
<1>4. OwnFilesFit'
  <2>1. Rom \in names'["build"] => Exist({Rom})' /\ Rom \in names["build"] /\ file'[Rom] = file[Rom]
    BY <1>1, ItemsDiffer, ToolNames DEF FilesInv, OwnFilesFit, Exist
  <2>2. ASSUME NEW u \in Tools, NamesOwn(u)'
        PROVE  /\ Exist({Priv(u), Pub(u)})'
               /\ (u = "build" => Rom \in names'[u]) =>
                      Fits(u, file'[Priv(u)], file'[Pub(u)], file'[Rom])
    <3>1. NamesOwn(u) /\ Exist({Priv(u), Pub(u)})
      BY <1>3, <2>2 DEF FilesInv, OwnFilesFit
    <3>2. Exist({Priv(u), Pub(u)})' /\ file'[Priv(u)] = file[Priv(u)] /\ file'[Pub(u)] = file[Pub(u)]
      BY <1>1, <3>1, ItemsDiffer DEF Exist
    <3>3. ASSUME u = "build" => Rom \in names'[u]
          PROVE  Fits(u, file'[Priv(u)], file'[Pub(u)], file'[Rom])
      <4>1. u = "build" => Rom \in names[u] /\ file'[Rom] = file[Rom]
        BY <2>1, <3>3
      <4>2. Fits(u, file[Priv(u)], file[Pub(u)], file[Rom])
        BY <3>1, <4>1 DEF FilesInv, OwnFilesFit
      <4> QED BY <3>2, <4>1, <4>2 DEF Fits
    <3> QED BY <3>2, <3>3
  <2> QED BY <2>1, <2>2 DEF OwnFilesFit
<1>5. PlanHasInputs'
  <2>1. DOMAIN file \subseteq DOMAIN file'
    BY <1>1
  <2>2. Exist({Priv("reinsertion")})' => Exist(ReinsertionInputs)
    BY <1>1, ItemsDiffer, Zenon DEF Exist, FilesInv, PlanHasInputs, ReinsertionInputs
  <2> QED BY <2>1, <2>2 DEF Exist, PlanHasInputs, ReinsertionInputs
<1> QED BY <1>1, <1>2, <1>3, <1>4, <1>5 DEF FilesInv

-----------------------------------------------------------------------------
(* The steps of a tool *)

LEMMA NextTool ==
  ASSUME QueueIsChain, queue # <<>>, queue' = Tail(queue)
  PROVE  /\ QueueIsChain' /\ Head(queue) \in Tools
         /\ queue' # <<>> /\ Head(queue') = "build" => Head(queue) = "reinsertion"
<1>1. queue \in Seq(Tools)
  BY DEF QueueIsChain
<1> DEFINE t == Tail(queue)
<1>2. /\ Head(queue) \in Tools /\ t \in Seq(Tools) /\ Len(t) = Len(queue) - 1
      /\ \A i \in 1 .. Len(t) : t[i] = queue[i + 1]
  BY <1>1, HeadTailProperties
<1>3. Head(queue) = queue[1] /\ Len(queue) \in Nat
  BY <1>1
<1> HIDE DEF t
<1>4. ASSUME NEW k \in DOMAIN t, t[k] = "build"
      PROVE  k + 1 \in DOMAIN queue \ {1} /\ queue[k] = "reinsertion" /\ k \in 1 .. Len(t)
  <2>1. k \in 1 .. Len(t) /\ k + 1 \in DOMAIN queue \ {1} /\ k + 1 - 1 = k
    BY <1>1, <1>2, <1>3
  <2>2. queue[k + 1] = "build"
    BY <1>2, <1>4, <2>1
  <2>3. queue[k] = "reinsertion"
    <3> DEFINE j == k + 1
    <3>1. j \in DOMAIN queue \ {1} /\ queue[j] = "build" /\ j - 1 = k
      BY <2>1, <2>2
    <3> HIDE DEF j
    <3>2. queue[j - 1] = "reinsertion"
      BY <3>1 DEF QueueIsChain
    <3> QED BY <3>1, <3>2, Zenon
  <2> QED BY <2>1, <2>3
<1>5. ASSUME NEW k \in DOMAIN t \ {1}, t[k] = "build" PROVE t[k - 1] = "reinsertion"
  <2>1. k \in 1 .. Len(t) /\ queue[k] = "reinsertion"
    BY <1>4, <1>5
  <2>2. k - 1 \in 1 .. Len(t) /\ k - 1 + 1 = k
    BY <1>2, <1>5, <2>1
  <2>3. t[k - 1] = queue[k - 1 + 1]
    BY <1>2, <2>2
  <2> QED BY <2>1, <2>2, <2>3
<1>6. ASSUME t # <<>>, Head(t) = "build" PROVE queue[1] = "reinsertion"
  <2>1. 1 \in DOMAIN t /\ t[1] = "build"
    BY <1>2, <1>6
  <2> QED BY <1>4, <2>1
<1> QED BY <1>2, <1>3, <1>5, <1>6 DEF QueueIsChain, t

\* What no step of a tool touches
Aside == UNCHANGED <<corpus, page, reading>>

LEMMA RestKeeps ==
  ASSUME Inv, Aside, UNCHANGED approvals
  PROVE  WorldIsKnown' /\ ReadingIsSound' /\ ApprovalsAreSound'
BY DEF Inv, Aside, WorldIsKnown, ReadingIsSound, ApprovalsAreSound

\* A tool has nothing to do, or is refused.
LEMMA IdleKeeps ==
  ASSUME Inv, Aside, UNCHANGED approvals, NEW t, Turn(t), Pass \/ Refuse,
         t = "reinsertion" => Refuse \/ ~Exist(Both({"reinsertion"}))
  PROVE  Inv'
<1>1. WorldIsKnown' /\ ReadingIsSound' /\ ApprovalsAreSound'
  BY RestKeeps
<1>2. UNCHANGED <<file, names, todo>> /\ todo = <<>> /\ queue # <<>> /\ Head(queue) = t
  BY DEF Pass, Refuse, Turn
<1>3. FilesInv'
  BY <1>2 DEF Inv, FilesInv, FilesAreSound, OwnFilesFit, PlanHasInputs, Exist, NamesOwn
<1>4. TodoIsSound'
  BY <1>2 DEF TodoIsSound
<1>5. CASE Refuse
  <2>1. queue' = <<>>
    BY <1>5 DEF Refuse
  <2>2. QueueIsChain' /\ PlanIsNew'
    BY <2>1 DEF QueueIsChain, PlanIsNew
  <2> QED BY <1>1, <1>3, <1>4, <2>2 DEF Inv
<1>6. CASE Pass /\ ~Refuse
  <2>1. queue' = Tail(queue)
    BY <1>6 DEF Pass
  <2>2. QueueIsChain' /\ (queue' # <<>> /\ Head(queue') = "build" => t = "reinsertion")
    BY <1>2, <2>1, NextTool DEF Inv
  <2>3. t = "reinsertion" => ~Exist(Both({"reinsertion"}))'
    BY <1>2, <1>6 DEF Exist
  <2>4. PlanIsNew'
    BY <2>2, <2>3 DEF PlanIsNew
  <2> QED BY <1>1, <1>3, <1>4, <2>2, <2>4 DEF Inv
<1> QED BY <1>5, <1>6

\* A tool writes its private file, and has the published one to write.
LEMMA FirstWrite ==
  ASSUME Inv, Aside, approvals \subseteq approvals', ApprovalsAreSound', NEW t \in Tools \ {"build"}, Turn(t),
         NEW data, NEW published, NEW from, Priv(t) \in from,
         Sound(t, data, approvals'), Fits(t, data, published, file[Rom]),
         t = "reinsertion" => Exist(ReinsertionInputs),
         Make(<<PrivateFile(t, data), PublishedFile(t, published, from)>>)
  PROVE  Inv'
<1> DEFINE e == PublishedFile(t, published, from)
<1>1. WorldIsKnown' /\ ReadingIsSound' /\ ApprovalsAreSound'
  BY DEF Inv, Aside, WorldIsKnown, ReadingIsSound
<1>2. todo' = <<e>> /\ queue' = queue /\ Written(PrivateFile(t, data))
  BY DEF Make, Remaining
<1>3. FilesInv' /\ Exist({Priv(t)})' /\ file'[Priv(t)] = data
  BY <1>2, WritePrivate DEF Inv
<1>4. e = PublishedFile(t, e.data, e.from) /\ e.data = published /\ e.from = from
  BY DEF PublishedFile
<1> HIDE DEF e
<1>5. IsPublished(t, file'[Priv(t)], file'[Rom], e)
  BY <1>3, <1>4 DEF IsPublished, Fits
<1>6. TodoIsSound'
  <2>1. todo'[1] = e /\ queue' # <<>> /\ Head(queue') = t
    BY <1>2 DEF Turn
  <2>2. todo' = <<todo'[1]>>
    BY <1>2, <2>1
  <2> QED BY <1>3, <1>5, <2>1, <2>2 DEF TodoIsSound
<1>7. QueueIsChain' /\ PlanIsNew'
  BY <1>2 DEF QueueIsChain, PlanIsNew, Inv, Turn
<1> QED BY <1>1, <1>3, <1>6, <1>7 DEF Inv

\* The last write of a tool is its published file.
LEMMA LastWrite ==
  ASSUME Inv, Aside, UNCHANGED approvals, queue # <<>>, NEW t, t = Head(queue),
         NEW e, IsPublished(t, file[Priv(t)], file[Rom], e), Exist({Priv(t)}),
         t = "build" => Exist({Rom}),
         Written(e), Remaining(<<>>)
  PROVE  Inv'
<1>1. WorldIsKnown' /\ ReadingIsSound' /\ ApprovalsAreSound'
  BY RestKeeps
<1>2. todo' = <<>> /\ queue' = Tail(queue)
  BY DEF Remaining
<1>3. /\ QueueIsChain' /\ t \in Tools
      /\ queue' # <<>> /\ Head(queue') = "build" => t = "reinsertion"
  BY <1>2, NextTool DEF Inv
<1>4. Written(PublishedFile(t, e.data, e.from))
  BY DEF IsPublished
<1>5. FilesInv' /\ NamesOwn(t)'
  BY <1>3, <1>4, WritePublished DEF IsPublished, Inv
<1>6. TodoIsSound'
  BY <1>2 DEF TodoIsSound
<1>7. PlanIsNew'
  BY <1>3, <1>5 DEF PlanIsNew
<1> QED BY <1>1, <1>3, <1>5, <1>6, <1>7 DEF Inv

LEMMA WriteOnKeeps ==
  ASSUME Inv, WriteOn
  PROVE  Inv'
<1>0. PICK t : t = Head(queue)
  OBVIOUS
<1>1. Aside /\ UNCHANGED approvals /\ todo # <<>> /\ Written(Head(todo)) /\ Remaining(Tail(todo))
  BY DEF WriteOn, Rest, Aside, world
<1>2. queue # <<>> /\ (t = "build" => Exist({Rom}))
  BY <1>0, <1>1 DEF Inv, TodoIsSound
<1>3. t \in Tools
  BY <1>0, <1>2, HeadTailProperties DEF Inv, QueueIsChain
<1>4. CASE todo = <<todo[1]>> /\ Exist({Priv(t)}) /\ IsPublished(t, file[Priv(t)], file[Rom], todo[1])
  <2> DEFINE e == todo[1]
  <2> HIDE DEF e
  <2>1. todo = <<e>>
    BY <1>4 DEF e
  <2>2. Written(e) /\ Remaining(<<>>)
    BY <1>1, <2>1
  <2>3. IsPublished(t, file[Priv(t)], file[Rom], e)
    BY <1>4 DEF e
  <2> QED BY <1>0, <1>1, <1>2, <1>4, <2>2, <2>3, LastWrite
<1>5. CASE /\ todo = <<todo[1], todo[2]>> /\ t # "reinsertion"
           /\ todo[1] = PrivateFile(t, todo[1].data) /\ Sound(t, todo[1].data, approvals)
           /\ IsPublished(t, todo[1].data, file[Rom], todo[2])
  <2>0. PICK p, e, d : p = todo[1] /\ e = todo[2] /\ d = p.data
    OBVIOUS
  <2>1. todo = <<p, e>>
    BY <1>5, <2>0
  <2>2. Written(p) /\ todo' = <<e>> /\ queue' = queue
    BY <1>1, <2>1 DEF Remaining
  <2>3. p = PrivateFile(t, p.data) /\ Sound(t, p.data, approvals) /\ IsPublished(t, p.data, file[Rom], e)
    BY <1>5, <2>0
  <2>4. Written(PrivateFile(t, p.data))
    BY <2>2, <2>3
  <2>12. t = "reinsertion" => Exist(ReinsertionInputs)
    BY <1>5
  <2>13. /\ FilesInv /\ Sound(t, d, approvals') /\ Written(PrivateFile(t, d))
         /\ approvals \subseteq approvals'
    BY <1>1, <2>0, <2>3, <2>4 DEF Inv
  <2>5. /\ FilesInv' /\ Exist({Priv(t)})' /\ file'[Priv(t)] = d
        /\ \A f \in DOMAIN file : f # Priv(t) => file'[f] = file[f]
        /\ DOMAIN file' = DOMAIN file \cup {Priv(t)}
        /\ \A u \in Tools : u # t => (NamesOwn(u)' <=> NamesOwn(u))
    BY <1>3, <2>12, <2>13, WritePrivate
  <2>6. t = "build" => Exist({Rom})' /\ file'[Rom] = file[Rom]
    BY <1>2, <2>5, ItemsDiffer DEF Exist
  <2>7. IsPublished(t, file'[Priv(t)], file'[Rom], e)
    BY <2>0, <2>3, <2>5, <2>6 DEF IsPublished, Fits
  <2>8. TodoIsSound'
    <3>1. todo'[1] = e /\ queue' # <<>> /\ Head(queue') = t
      BY <1>0, <1>2, <2>2
    <3>2. todo' = <<todo'[1]>>
      BY <2>2, <3>1
    <3> QED BY <2>5, <2>6, <2>7, <3>1, <3>2 DEF TodoIsSound
  <2>9. QueueIsChain'
    BY <2>2 DEF QueueIsChain, Inv
  <2>10. PlanIsNew'
    <3>1. t = "build" => (NamesOwn("reinsertion")' <=> NamesOwn("reinsertion"))
      BY <2>5, ToolNames
    <3>2. t = "build" => (Exist(Both({"reinsertion"}))' => Exist(Both({"reinsertion"})))
      BY <2>5, ItemsDiffer DEF Exist, Both
    <3> QED BY <1>0, <2>2, <3>1, <3>2 DEF PlanIsNew, Inv
  <2>11. WorldIsKnown' /\ ReadingIsSound' /\ ApprovalsAreSound'
    BY <1>1, RestKeeps
  <2> QED BY <2>5, <2>8, <2>9, <2>10, <2>11 DEF Inv
<1> QED BY <1>0, <1>1, <1>4, <1>5 DEF Inv, TodoIsSound

-----------------------------------------------------------------------------
(* The tools *)

\* Tools whose files say nothing the others rely on
LEMMA SmallTool ==
  ASSUME Inv, NEW t \in Tools, NEW inputs, NEW data, NEW published, NEW from,
         t \notin {"source", "projection", "sequence", "context", "review", "approval",
                   "encoding", "reinsertion", "build"},
         Turn(t), Rest,
         \/ NotReady \/ Refuse
         \/ Make(<<PrivateFile(t, data), PublishedFile(t, published, from \cup {Priv(t)})>>)
  PROVE  Inv'
<1>1. Aside /\ UNCHANGED approvals
  BY DEF Rest, Aside, world
<1>2. CASE NotReady \/ Refuse
  BY <1>1, <1>2, IdleKeeps DEF NotReady
<1>3. CASE Make(<<PrivateFile(t, data), PublishedFile(t, published, from \cup {Priv(t)})>>)
  <2>1. Sound(t, data, approvals) /\ Fits(t, data, published, file[Rom])
    BY DEF Sound, Fits
  <2>2. Priv(t) \in from \cup {Priv(t)}
    OBVIOUS
  <2>3. ApprovalsAreSound' /\ approvals \subseteq approvals' /\ Sound(t, data, approvals')
    BY <1>1, <2>1, RestKeeps
  <2> QED BY <1>1, <1>3, <2>1, <2>2, <2>3, FirstWrite
<1> QED BY <1>2, <1>3

LEMMA SmallToolsKeep ==
  ASSUME Inv, Anchor \/ Corroboration \/ GlyphDemand \/ Candidates \/ ReviewOfGlyphs
                \/ Preservation \/ Capacity
  PROVE  Inv'
<1>1. CASE Anchor
  BY <1>1, SmallTool, ToolNames DEF Anchor, Tool
<1>2. CASE Corroboration
  BY <1>2, SmallTool, ToolNames DEF Corroboration, Tool
<1>3. CASE GlyphDemand
  BY <1>3, SmallTool, ToolNames DEF GlyphDemand, Tool
<1>4. CASE Candidates
  BY <1>4, SmallTool, ToolNames DEF Candidates, Tool
<1>5. CASE ReviewOfGlyphs
  BY <1>5, SmallTool, ToolNames DEF ReviewOfGlyphs, Tool
<1>6. CASE Preservation
  BY <1>6, SmallTool, ToolNames DEF Preservation, Tool
<1>7. CASE Capacity
  BY <1>7, SmallTool, ToolNames DEF Capacity, Tool
<1> QED BY <1>1, <1>2, <1>3, <1>4, <1>5, <1>6, <1>7

LEMMA FileIsSound ==
  ASSUME Inv, NEW t \in Tools, Exist(Both({t})) \/ Exist({Priv(t)})
  PROVE  Sound(t, file[Priv(t)], approvals)
BY DEF Inv, FilesInv, FilesAreSound, Exist, Both

\* What a tool makes that is run with all its inputs and not refused
LEMMA SoundTool ==
  ASSUME Inv, NEW t \in Tools \ {"build", "reinsertion"}, NEW data, NEW published, NEW from,
         Turn(t), Rest,
         \/ NotReady \/ Refuse
         \/ /\ Make(<<PrivateFile(t, data), PublishedFile(t, published, from)>>)
            /\ Sound(t, data, approvals) /\ Fits(t, data, published, file[Rom]) /\ Priv(t) \in from
  PROVE  Inv'
<1>1. Aside /\ UNCHANGED approvals
  BY DEF Rest, Aside, world
<1>2. CASE NotReady \/ Refuse
  BY <1>1, <1>2, IdleKeeps DEF NotReady
<1>3. CASE ~(NotReady \/ Refuse)
  <2>1. ApprovalsAreSound' /\ approvals \subseteq approvals' /\ Sound(t, data, approvals')
    BY <1>1, <1>3, RestKeeps
  <2> QED BY <1>1, <1>3, <2>1, FirstWrite
<1> QED BY <1>2, <1>3

LEMMA SourceKeeps == ASSUME Inv, SourceScript PROVE Inv'
<1>1. Turn("source") /\ Rest /\ "source" \in Tools \ {"build", "reinsertion"}
  BY ToolNames DEF SourceScript
<1>2. PICK text : /\ text = page \/ (Exist({Priv("source")}) /\ text = file[Priv("source")])
                  /\ \/ Make(<<PrivateFile("source", text),
                                PublishedFile("source", Yes, {Priv("source")})>>)
                     \/ Pass
  BY DEF SourceScript
<1>3. text \in Sources
  BY <1>2, FileIsSound, ToolNames DEF Sound, Inv, WorldIsKnown
<1>4. Sound("source", text, approvals) /\ Fits("source", text, Yes, file[Rom])
  BY <1>3 DEF Sound, Fits
<1>5. CASE Pass
  <2>1. Aside /\ UNCHANGED approvals
    BY <1>1 DEF Rest, Aside, world
  <2> QED BY <1>1, <1>5, <2>1, IdleKeeps
<1>6. CASE ~Pass
  <2>1. Priv("source") \in {Priv("source")}
    OBVIOUS
  <2> QED BY <1>1, <1>2, <1>4, <1>6, <2>1, SoundTool
<1> QED BY <1>5, <1>6

LEMMA ProjectionKeeps == ASSUME Inv, Projection PROVE Inv'
<1>1. "projection" \in Tools \ {"build", "reinsertion"} /\ "source" \in Tools
  BY ToolNames
<1>2. PICK source, pairs, from :
        /\ source = file[Priv("source")] /\ pairs = Pairs(corpus, source)
        /\ from = {Quality, Pub("source"), Pub("anchor")} \cup {Priv("projection")}
  OBVIOUS
<1>3. /\ Turn("projection") /\ Rest
      /\ \/ NotReady \/ Refuse
         \/ /\ Exist(Both({"source", "anchor"})) /\ AnchorIsUnique(corpus, source)
            /\ Make(<<PrivateFile("projection", pairs),
                      PublishedFile("projection", ProjectionFile(pairs, source), from)>>)
  BY <1>2 DEF Projection, Tool
<1>4. ASSUME Exist(Both({"source", "anchor"})), AnchorIsUnique(corpus, source)
      PROVE  Sound("projection", pairs, approvals)
  <2>1. Exist(Both({"source"}))
    BY <1>4 DEF Exist, Both
  <2>2. source \in Sources
    BY <1>1, <1>2, <2>1, FileIsSound DEF Sound
  <2>3. SoundPairs(pairs)
    BY <1>2, <1>4, <2>2 DEF SoundPairs, Inv, WorldIsKnown
  <2> QED BY <2>3 DEF Sound
<1>5. Fits("projection", pairs, ProjectionFile(pairs, source), file[Rom]) /\ Priv("projection") \in from
  BY <1>2 DEF Fits
<1> QED BY <1>1, <1>3, <1>4, <1>5, SoundTool

LEMMA SequenceKeeps == ASSUME Inv, Sequence PROVE Inv'
<1>1. "sequence" \in Tools \ {"build", "reinsertion"} /\ Turn("sequence") /\ Rest
  BY ToolNames DEF Sequence
<1>2. \/ NotReady \/ Refuse \/ Pass
      \/ \E seen : Make(SequenceFiles(seen, testRom)) /\ SoundSeen(seen)
  <2>1. CASE SequenceReusable
    <3>1. SoundSeen(file[Priv("sequence")].seen)
      BY <1>1, <2>1, FileIsSound DEF SequenceReusable, Sound
    <3> QED BY <2>1, <3>1 DEF Sequence
  <2>2. CASE ~SequenceReusable
    BY <2>2, CapturedIsSound DEF Sequence
  <2> QED BY <2>1, <2>2
<1>3. Aside /\ UNCHANGED approvals
  BY <1>1 DEF Rest, Aside, world
<1>4. CASE NotReady \/ Refuse \/ Pass
  BY <1>1, <1>3, <1>4, IdleKeeps DEF NotReady
<1>5. CASE \E seen : Make(SequenceFiles(seen, testRom)) /\ SoundSeen(seen)
  <2>1. PICK seen : Make(SequenceFiles(seen, testRom)) /\ SoundSeen(seen)
    BY <1>5
  <2>2. PICK data, published, from :
          /\ data = [seen |-> seen, rom |-> testRom] /\ published = [status |-> SequenceStatus(seen)]
          /\ from = {Priv("sequence"), Pub("corroboration")}
    OBVIOUS
  <2>3. Make(<<PrivateFile("sequence", data), PublishedFile("sequence", published, from)>>)
    BY <2>1, <2>2 DEF SequenceFiles
  <2>4. Sound("sequence", data, approvals)
    BY <2>1, <2>2 DEF Sound
  <2>5. Fits("sequence", data, published, file[Rom]) /\ Priv("sequence") \in from
    BY <2>2 DEF Fits
  <2> QED BY <1>1, <2>3, <2>4, <2>5, SoundTool
<1> QED BY <1>2, <1>4, <1>5

LEMMA ContextKeeps == ASSUME Inv, Context PROVE Inv'
<1>1. /\ "context" \in Tools \ {"build", "reinsertion"}
      /\ "projection" \in Tools /\ "sequence" \in Tools
  BY ToolNames
<1>2. PICK seen, pairs, rows, from :
        /\ seen = file[Priv("sequence")].seen /\ pairs = file[Priv("projection")]
        /\ rows = ContextRows(seen, pairs)
        /\ from = {Pub("projection"), Pub("sequence")} \cup {Priv("context")}
  OBVIOUS
<1>3. /\ Turn("context") /\ Rest
      /\ \/ NotReady \/ Refuse
         \/ /\ Exist(Both({"projection", "sequence"})) /\ NamesOwn("sequence")
            /\ file[Pub("sequence")].status = "ready"
            /\ Make(<<PrivateFile("context", rows), PublishedFile("context", ContextFile(rows), from)>>)
  BY <1>2 DEF Context, Tool
<1>4. ASSUME Exist(Both({"projection", "sequence"})), NamesOwn("sequence"),
             file[Pub("sequence")].status = "ready"
      PROVE  Sound("context", rows, approvals)
  <2>1. Exist(Both({"projection"})) /\ Exist(Both({"sequence"}))
    BY <1>4 DEF Exist, Both
  <2>2. SoundPairs(pairs) /\ SoundSeen(seen)
    BY <1>1, <1>2, <2>1, FileIsSound DEF Sound
  <2>3. Fits("sequence", file[Priv("sequence")], file[Pub("sequence")], file[Rom])
    BY <1>1, <1>4 DEF Inv, FilesInv, OwnFilesFit
  <2>4. SequenceStatus(seen) = "ready"
    BY <1>2, <1>4, <2>3 DEF Fits
  <2>5. SoundContext(rows)
    BY <1>2, <2>2, <2>4, RowsAreSound
  <2> QED BY <2>5 DEF Sound
<1>5. Fits("context", rows, ContextFile(rows), file[Rom]) /\ Priv("context") \in from
  BY <1>2 DEF Fits, ContextFile
<1> QED BY <1>1, <1>3, <1>4, <1>5, SoundTool

LEMMA ReviewKeeps == ASSUME Inv, Review PROVE Inv'
<1>1. "review" \in Tools \ {"build", "reinsertion"} /\ "context" \in Tools
  BY ToolNames
<1>2. PICK rows, batch, published, from :
        /\ rows = file[Priv("context")] /\ batch = Batch(rows) /\ published = ReviewFile(rows)
        /\ from = {Pub("context"), Pub("preservation")} \cup {Priv("review")}
  OBVIOUS
<1>3. /\ Turn("review") /\ Rest
      /\ \/ NotReady \/ Refuse
         \/ /\ Exist(Both({"context", "preservation"})) /\ Reviewable(rows)
            /\ Make(<<PrivateFile("review", batch), PublishedFile("review", published, from)>>)
  BY <1>2 DEF Review, Tool
<1>4. ASSUME Exist(Both({"context", "preservation"})), Reviewable(rows)
      PROVE  Sound("review", batch, approvals)
  <2>1. Exist(Both({"context"}))
    BY <1>4 DEF Exist, Both
  <2>2. SoundContext(rows)
    BY <1>1, <1>2, <2>1, FileIsSound DEF Sound
  <2>3. batch # <<>> /\ SoundBatch(batch)
    BY <1>2, <1>4, <2>2, ReviewIsSound
  <2> QED BY <2>3 DEF Sound
<1>5. Fits("review", batch, published, file[Rom]) /\ Priv("review") \in from
  BY <1>2 DEF Fits
<1> QED BY <1>1, <1>3, <1>4, <1>5, SoundTool

LEMMA ApprovalKeeps == ASSUME Inv, Approval PROVE Inv'
<1>1. "approval" \in Tools /\ Turn("approval") /\ Rest
  BY ToolNames DEF Approval
<1>2. Aside /\ UNCHANGED approvals
  BY <1>1 DEF Rest, Aside, world
<1>3. PICK data, from :
        /\ data = [batch |-> file[Priv("approval")].batch] /\ from = {Priv("approval")}
  OBVIOUS
<1>4. \/ Pass \/ Refuse
      \/ /\ Exist({Priv("approval")}) /\ file[Priv("approval")].batch = Unstamped
         /\ Make(ApprovalFiles(Migrated(file[Priv("approval")])))
      \/ /\ Exist({Priv("approval")})
         /\ Make(Tail(ApprovalFiles(file[Priv("approval")])))
  BY DEF Approval
<1>5. CASE Pass \/ Refuse
  BY <1>1, <1>2, <1>5, IdleKeeps
<1>7. CASE /\ Exist({Priv("approval")}) /\ file[Priv("approval")].batch = Unstamped
           /\ Make(ApprovalFiles(Migrated(file[Priv("approval")])))
  <2>1. PICK old : old = file[Priv("approval")]
    OBVIOUS
  <2>2. old = [batch |-> old.batch, targets |-> old.targets] /\ Approved(old, approvals)
    BY <1>1, <1>7, <2>1, FileIsSound DEF Sound
  <2>3. PICK new : new = [old EXCEPT !.batch = file[Pub("review")].batch]
    OBVIOUS
  <2>4. new = [batch |-> new.batch, targets |-> new.targets] /\ new.targets = old.targets
    BY <2>2, <2>3
  <2>5. Approved(new, approvals)
    BY <1>7, <2>1, <2>2, <2>4 DEF Approved
  <2>6. Sound("approval", new, approvals)
    BY <2>4, <2>5 DEF Sound
  <2>7. PICK published : published = [batch |-> new.batch]
    OBVIOUS
  <2>8. Make(<<PrivateFile("approval", new), PublishedFile("approval", published, from)>>)
    BY <1>3, <1>7, <2>1, <2>3, <2>7 DEF ApprovalFiles, Migrated
  <2>9. ApprovalsAreSound' /\ approvals \subseteq approvals' /\ Sound("approval", new, approvals')
    BY <1>2, <2>6, RestKeeps
  <2>10. Fits("approval", new, published, file[Rom]) /\ Priv("approval") \in from
    BY <1>3 DEF Fits
  <2> QED BY <1>1, <1>2, <2>8, <2>9, <2>10, FirstWrite
<1>6. CASE /\ Exist({Priv("approval")})
           /\ Make(Tail(ApprovalFiles(file[Priv("approval")])))
  <2>1. PICK e : e = PublishedFile("approval", data, from)
    OBVIOUS
  <2>2. Tail(ApprovalFiles(file[Priv("approval")])) = <<e>>
    BY <1>3, <2>1 DEF ApprovalFiles
  <2>3. Written(e) /\ Remaining(<<>>)
    <3>1. Make(<<e>>)
      BY <1>6, <2>2
    <3>2. Head(<<e>>) = e /\ Tail(<<e>>) = <<>>
      OBVIOUS
    <3> QED BY <3>1, <3>2 DEF Make
  <2>4. e.data = data /\ e.from = from
    BY <2>1 DEF PublishedFile
  <2>5. IsPublished("approval", file[Priv("approval")], file[Rom], e)
    BY <1>3, <2>1, <2>4 DEF IsPublished, Fits
  <2> QED BY <1>1, <1>2, <1>6, <2>3, <2>5, LastWrite DEF Turn
<1> QED BY <1>4, <1>5, <1>6, <1>7

\* Lines the person gives are known from then on.
LEMMA GivenIsSound ==
  ASSUME ApprovalsAreSound, SoundBatch(reading), NEW batch, NEW local,
         local = [batch |-> batch, targets |-> Texts(reading)],
         approvals' = approvals \cup {Given(local)}
  PROVE  /\ ApprovalsAreSound' /\ approvals \subseteq approvals'
         /\ Sound("approval", local, approvals')
<1>1. PICK a : a = Given(local)
  OBVIOUS
<1>2. /\ local.targets = Texts(reading)
      /\ local = [batch |-> local.batch, targets |-> local.targets]
  OBVIOUS
<1>3. a.targets = Texts(reading) /\ a.over = local.batch
  BY <1>1, <1>2 DEF Given
<1>4. SoundApproval(a)
  BY <1>3, ApprovalIsSound
<1>5. approvals' = approvals \cup {a}
  BY <1>1
<1>6. Approved(local, approvals')
  BY <1>2, <1>3, <1>5 DEF Approved
<1> QED BY <1>2, <1>4, <1>5, <1>6 DEF ApprovalsAreSound, Sound

LEMMA ApproveByHandKeeps == ASSUME Inv, ApproveByHand PROVE Inv'
<1>1. "approval" \in Tools \ {"build"} /\ "review" \in Tools /\ Turn("approval") /\ Aside
  BY ToolNames DEF ApproveByHand, Aside, world
<1>2. PICK local, published, from :
        /\ local = [batch |-> file[Pub("review")].batch, targets |-> Texts(reading)]
        /\ published = [batch |-> local.batch] /\ from = {Priv("approval")}
  OBVIOUS
<1>3. \/ Refuse /\ UNCHANGED approvals
      \/ /\ Exist(Both({"review"})) /\ Len(reading) = Len(file[Priv("review")])
         /\ Make(<<PrivateFile("approval", local), PublishedFile("approval", published, from)>>)
         /\ approvals' = approvals \cup {Given(local)}
  BY <1>2 DEF ApproveByHand, ApprovalFiles
<1>4. CASE Refuse /\ UNCHANGED approvals
  BY <1>1, <1>4, IdleKeeps
<1>5. CASE /\ Exist(Both({"review"})) /\ Len(reading) = Len(file[Priv("review")])
           /\ Make(<<PrivateFile("approval", local), PublishedFile("approval", published, from)>>)
           /\ approvals' = approvals \cup {Given(local)}
  <2>1. file[Priv("review")] # <<>> /\ SoundBatch(file[Priv("review")])
    BY <1>1, <1>5, FileIsSound DEF Sound
  <2>2. Len(file[Priv("review")]) # 0
    <3> DEFINE r == file[Priv("review")]
    <3>1. r \in Seq(Range(r)) /\ r # <<>>
      BY <2>1 DEF SoundBatch, IsSeq
    <3> HIDE DEF r
    <3>2. Len(r) # 0
      BY <3>1
    <3> QED BY <3>2 DEF r
  <2>3. SoundBatch(reading)
    <3>1. Len(<<>>) = 0
      OBVIOUS
    <3> QED BY <1>5, <2>2, <3>1 DEF Inv, ReadingIsSound
  <2>5. /\ ApprovalsAreSound' /\ approvals \subseteq approvals'
        /\ Sound("approval", local, approvals')
    BY <1>2, <1>5, <2>3, GivenIsSound DEF Inv
  <2>7. Fits("approval", local, published, file[Rom]) /\ Priv("approval") \in from
    BY <1>2 DEF Fits
  <2> QED BY <1>1, <1>5, <2>5, <2>7, FirstWrite
<1> QED BY <1>3, <1>4, <1>5

LEMMA ApproveBySchema1Keeps == ASSUME Inv, ApproveBySchema1 PROVE Inv'
<1>1. /\ queue = <<>> /\ UNCHANGED <<corpus, page, reading, queue, todo>> /\ reading # <<>>
      /\ "approval" \in Tools
  BY ToolNames DEF ApproveBySchema1, world
<1>2. PICK local : local = [batch |-> Unstamped, targets |-> Texts(reading)]
  OBVIOUS
<1>3. Written(PrivateFile("approval", local)) /\ approvals' = approvals \cup {Given(local)}
  BY <1>2 DEF ApproveBySchema1
<1>4. SoundBatch(reading)
  BY <1>1 DEF Inv, ReadingIsSound
<1>5. /\ ApprovalsAreSound' /\ approvals \subseteq approvals'
      /\ Sound("approval", local, approvals')
  BY <1>2, <1>3, <1>4, GivenIsSound DEF Inv
<1>6. FilesInv'
  BY <1>1, <1>3, <1>5, WritePrivate DEF Inv
<1>7. WorldIsKnown' /\ ReadingIsSound'
  BY <1>1 DEF Inv, WorldIsKnown, ReadingIsSound
<1>8. todo = <<>>
  BY <1>1 DEF Inv, TodoIsSound
<1>9. TodoIsSound' /\ QueueIsChain' /\ PlanIsNew'
  BY <1>1, <1>8 DEF TodoIsSound, QueueIsChain, PlanIsNew
<1> QED BY <1>5, <1>6, <1>7, <1>9 DEF Inv

\* A tool writes the font or the ROM, and has its two files to write.
LEMMA WriteBefore ==
  ASSUME Inv, Aside, UNCHANGED approvals, NEW t \in {"encoding", "build"}, Turn(t),
         NEW item, item = (IF t = "build" THEN Rom ELSE Overlay), NEW image,
         NEW data, NEW published, NEW from, Priv(t) \in from, Sound(t, data, approvals),
         t = "build" /\ published.complete => RomShows(image, published.rows),
         Make(<<[item |-> item, data |-> image, from |-> {}],
                PrivateFile(t, data), PublishedFile(t, published, from)>>)
  PROVE  Inv'
<1> DEFINE d == PrivateFile(t, data)
           e == PublishedFile(t, published, from)
<1>1. /\ WorldIsKnown' /\ ReadingIsSound' /\ ApprovalsAreSound'
      /\ todo = <<>> /\ queue # <<>> /\ Head(queue) = t
  BY RestKeeps DEF Turn
<1>2. d = PrivateFile(t, d.data) /\ d.data = data
  BY DEF PrivateFile
<1>3. e = PublishedFile(t, e.data, e.from) /\ e.data = published /\ e.from = from
  BY DEF PublishedFile
<1>4. Make(<<[item |-> item, data |-> image, from |-> {}], d, e>>)
  OBVIOUS
<1> HIDE DEF d, e
<1>5. todo' = <<d, e>> /\ queue' = queue /\ Written([item |-> item, data |-> image, from |-> {}])
  BY <1>4 DEF Make, Remaining
<1>6. /\ FilesInv' /\ file'[item] = image /\ DOMAIN file' = DOMAIN file \cup {item}
      /\ \A u \in Tools : NamesOwn(u)' <=> NamesOwn(u)
  BY <1>5, WriteOther DEF Inv
<1>7. IsPublished(t, data, file'[Rom], e)
  BY <1>3, <1>6 DEF IsPublished, Fits
<1>8. TodoIsSound'
  <2>1. todo'[1] = d /\ todo'[2] = e /\ queue' # <<>> /\ Head(queue') = t /\ t # "reinsertion"
    BY <1>1, <1>5
  <2>2. todo' = <<todo'[1], todo'[2]>>
    BY <1>5, <2>1
  <2>3. t = "build" => Exist({Rom})'
    BY <1>6 DEF Exist
  <2> QED BY <1>2, <1>7, <2>1, <2>2, <2>3 DEF TodoIsSound
<1>9. QueueIsChain'
  BY <1>5 DEF QueueIsChain, Inv
<1>10. PlanIsNew'
  <2>1. Exist(Both({"reinsertion"}))' => Exist(Both({"reinsertion"}))
    BY <1>6, ItemsDiffer DEF Exist, Both
  <2>2. NamesOwn("reinsertion")' <=> NamesOwn("reinsertion")
    BY <1>6, ToolNames
  <2> QED BY <1>5, <2>1, <2>2 DEF PlanIsNew, Inv
<1> QED BY <1>1, <1>6, <1>8, <1>9, <1>10 DEF Inv

LEMMA EncodingKeeps == ASSUME Inv, Encoding PROVE Inv'
<1>1. /\ {"approval", "context", "encoding"} \subseteq Tools
      /\ Turn("encoding") /\ Rest /\ Aside /\ UNCHANGED approvals
  BY ToolNames DEF Encoding, Rest, Aside, world
<1>2. PICK local, stored, pairs, batch, from :
        /\ local = file[Priv("approval")] /\ stored = file[Priv("context")]
        /\ pairs = file[Priv("projection")] /\ batch = file[Pub("capacity")].batch
        /\ from = {Priv("encoding")}
  OBVIOUS
<1> DEFINE rows(visible) == EncodedRows(Rejoined(stored, pairs), local.targets, visible)
<1>3. \/ NotReady \/ Pass \/ Refuse
      \/ \E visible \in Visibles :
            /\ Exist(EncodingInputs) /\ SameBatch
            /\ Encodable(stored, pairs, local.targets, file[Priv("preservation")], visible)
            /\ Make(<<[item |-> Overlay, data |-> Tiles(rows(visible)), from |-> {}],
                      PrivateFile("encoding", [batch |-> batch, rows |-> rows(visible)]),
                      PublishedFile("encoding", [batch |-> batch], from)>>)
  BY <1>2 DEF Encoding
<1>4. CASE NotReady \/ Pass \/ Refuse
  BY <1>1, <1>4, IdleKeeps DEF NotReady
<1>5. ASSUME NEW visible \in Visibles, Exist(EncodingInputs), SameBatch,
             Encodable(stored, pairs, local.targets, file[Priv("preservation")], visible),
             Make(<<[item |-> Overlay, data |-> Tiles(rows(visible)), from |-> {}],
                    PrivateFile("encoding", [batch |-> batch, rows |-> rows(visible)]),
                    PublishedFile("encoding", [batch |-> batch], from)>>)
      PROVE  Inv'
  <2>1. Exist({Priv("approval")}) /\ Exist({Priv("context")})
    BY <1>5 DEF EncodingInputs, Both, Exist
  <2>2. IsApproved(local, approvals) /\ IsSeq(stored)
    BY <1>1, <1>2, <2>1, FileIsSound DEF Sound, SoundContext, IsApproved
  <2>3. IsSeq(local.targets)
    BY <2>2, ApprovedIsSound DEF Inv, ApprovalsAreSound, IsApproved
  <2>4. Len(local.targets) = Len(Rejoined(stored, pairs))
    BY <1>5 DEF Encodable
  <2>5. batch = local.batch
    BY <1>2, <1>5 DEF SameBatch
  <2>6. SoundEncoding([batch |-> batch, rows |-> rows(visible)], approvals)
    BY <2>2, <2>3, <2>4, <2>5, EncodingIsSound
  <2>7. PICK data, published, tiles :
          /\ data = [batch |-> batch, rows |-> rows(visible)]
          /\ published = [batch |-> batch] /\ tiles = Tiles(rows(visible))
    OBVIOUS
  <2>8. Sound("encoding", data, approvals) /\ Priv("encoding") \in from
    BY <1>2, <2>6, <2>7 DEF Sound
  <2>9. Make(<<[item |-> Overlay, data |-> tiles, from |-> {}],
               PrivateFile("encoding", data), PublishedFile("encoding", published, from)>>)
    BY <1>5, <2>7
  <2> QED BY <1>1, <2>8, <2>9, WriteBefore
<1> QED BY <1>3, <1>4, <1>5

LEMMA ReinsertionKeeps == ASSUME Inv, Reinsertion PROVE Inv'
<1>1. /\ "reinsertion" \in Tools \ {"build"} /\ {"context", "encoding"} \subseteq Tools
      /\ Turn("reinsertion") /\ Rest /\ Aside /\ UNCHANGED approvals
  BY ToolNames DEF Reinsertion, Tool, Rest, Aside, world
<1>2. PICK rows, local, pairs, plan, published, from :
        /\ rows = file[Priv("context")] /\ local = file[Priv("encoding")]
        /\ pairs = file[Priv("projection")] /\ plan = ReinsertionRows(rows, local.rows)
        /\ published = ReinsertionFile(plan)
        /\ from = {Pub("encoding")} \cup {Priv("reinsertion")}
  OBVIOUS
<1>3. \/ NotReady /\ ~Exist(ReinsertionInputs)
      \/ Refuse
      \/ /\ Exist(ReinsertionInputs) /\ Insertable(rows, pairs, local.rows)
         /\ Make(<<PrivateFile("reinsertion", plan), PublishedFile("reinsertion", published, from)>>)
  BY <1>2 DEF Reinsertion, Tool, ReinsertionInputs
<1>4. CASE (NotReady /\ ~Exist(ReinsertionInputs)) \/ Refuse
  <2>1. ~Exist(ReinsertionInputs) => ~Exist(Both({"reinsertion"}))
    BY DEF Inv, FilesInv, PlanHasInputs, ReinsertionInputs, Exist, Both
  <2> QED BY <1>1, <1>4, <2>1, IdleKeeps DEF NotReady
<1>5. CASE /\ Exist(ReinsertionInputs) /\ Insertable(rows, pairs, local.rows)
           /\ Make(<<PrivateFile("reinsertion", plan), PublishedFile("reinsertion", published, from)>>)
  <2>1. Exist({Priv("encoding")}) /\ Exist({Priv("context")})
    BY <1>5 DEF ReinsertionInputs, Both, Exist
  <2>2. SoundContext(rows) /\ SoundEncoding(local, approvals)
    BY <1>1, <1>2, <2>1, FileIsSound DEF Sound
  <2>3. \A a \in approvals : SoundApproval(a)
    BY DEF Inv, ApprovalsAreSound
  <2>4. SoundPlan(plan)
    BY <1>2, <1>5, <2>2, <2>3, PlanIsSound
  <2>5. ApprovalsAreSound' /\ approvals \subseteq approvals' /\ Sound("reinsertion", plan, approvals')
    BY <1>1, <2>4, RestKeeps DEF Sound
  <2>6. Fits("reinsertion", plan, published, file[Rom]) /\ Priv("reinsertion") \in from
    BY <1>2 DEF Fits, ReinsertionFile
  <2> QED BY <1>1, <1>5, <2>5, <2>6, FirstWrite
<1> QED BY <1>3, <1>4, <1>5

LEMMA BuildKeeps == ASSUME Inv, Build PROVE Inv'
<1>1. /\ {"reinsertion", "build"} \subseteq Tools
      /\ Turn("build") /\ Rest /\ Aside /\ UNCHANGED approvals
  BY ToolNames DEF Build, Rest, Aside, world
<1>2. PICK plan, encoded, tiles, rom, published, from :
        /\ plan = file[Priv("reinsertion")] /\ encoded = file[Priv("encoding")].rows
        /\ tiles = file[Overlay] /\ rom = Applied(Image.bytes, Plan(tiles, plan))
        /\ published = BuildFile(rom, plan, encoded) /\ from = {Priv("build"), Rom}
  OBVIOUS
<1>3. \/ NotReady \/ Refuse
      \/ /\ Exist(Both({"reinsertion"})) /\ file[Pub("reinsertion")].ready
         /\ Buildable(tiles, plan)
         /\ Make(<<[item |-> Rom, data |-> rom, from |-> {}],
                   PrivateFile("build", Yes), PublishedFile("build", published, from)>>)
  BY <1>2 DEF Build, Exist
<1>4. CASE NotReady \/ Refuse
  BY <1>1, <1>4, IdleKeeps DEF NotReady
<1>5. CASE /\ Exist(Both({"reinsertion"})) /\ file[Pub("reinsertion")].ready
           /\ Buildable(tiles, plan)
           /\ Make(<<[item |-> Rom, data |-> rom, from |-> {}],
                     PrivateFile("build", Yes), PublishedFile("build", published, from)>>)
  <2>1. NamesOwn("reinsertion")
    BY <1>1, <1>5 DEF Inv, PlanIsNew, Turn
  <2>2. Fits("reinsertion", plan, file[Pub("reinsertion")], file[Rom])
    BY <1>1, <1>2, <2>1 DEF Inv, FilesInv, OwnFilesFit
  <2>3. ReinsertionReady(plan)
    BY <1>5, <2>2 DEF Fits
  <2>4. SoundPlan(plan)
    BY <1>1, <1>2, <1>5, FileIsSound DEF Sound
  <2>5. RomShows(rom, Len(plan))
    BY <1>2, <1>5, <2>3, <2>4, BuildShows
  <2>6. published.rows = Len(plan) /\ Priv("build") \in from
    BY <1>2 DEF BuildFile
  <2>7. Sound("build", Yes, approvals)
    BY DEF Sound
  <2> QED BY <1>1, <1>5, <2>5, <2>6, <2>7, WriteBefore
<1> QED BY <1>3, <1>4, <1>5

-----------------------------------------------------------------------------
(* The other steps *)

LEMMA StartedChains ==
  ASSUME NEW tools \in {Chain, DirectChain, <<"source">>, <<"approval">>}
  PROVE  /\ tools \in Seq(Tools) /\ Head(tools) # "build"
         /\ \A k \in DOMAIN tools \ {1} : tools[k] = "build" => tools[k - 1] = "reinsertion"
<1>1. CASE tools = Chain
  <2>1. DOMAIN Chain \ {1} = 2 .. 16 /\ Head(Chain) = "source"
    BY DEF Chain
  <2> QED BY <1>1, <2>1, ToolNames
<1>2. CASE tools = DirectChain
  <2>1. DirectChain \in Seq(Tools)
    BY ToolNames DEF DirectChain
  <2>2. DOMAIN DirectChain \ {1} = {2, 3} /\ Head(DirectChain) = "encoding"
    BY DEF DirectChain
  <2>3. DirectChain[2] = "reinsertion" /\ 2 = 3 - 1
    BY DEF DirectChain
  <2>4. \A k \in {2, 3} : DirectChain[k] = "build" => DirectChain[k - 1] = "reinsertion"
    BY DEF DirectChain
  <2> QED BY <1>2, <2>1, <2>2, <2>4
<1>3. CASE tools = <<"source">> \/ tools = <<"approval">>
  <2>1. PICK t \in {"source", "approval"} : tools = <<t>>
    BY <1>3
  <2>2. tools \in Seq(Tools) /\ DOMAIN tools = {1}
    BY <2>1, ToolNames
  <2>3. Head(tools) = t
    BY <2>1
  <2> QED BY <2>1, <2>2, <2>3
<1> QED BY <1>1, <1>2, <1>3

LEMMA StartKeeps ==
  ASSUME Inv, NEW why, NEW tools \in {Chain, DirectChain, <<"source">>, <<"approval">>},
         Start(why, tools),
         names' = [t \in Tools |-> names[t] \ {Quality}] \/ UNCHANGED names
  PROVE  Inv'
<1>1. UNCHANGED <<corpus, page, reading, file, todo, approvals>> /\ queue' = tools /\ queue = <<>>
  BY DEF Start, world
<1>2. \A t \in Tools : NamesOwn(t)' <=> NamesOwn(t)
  BY ItemsDiffer DEF NamesOwn
<1>3. Rom \in names'["build"] <=> Rom \in names["build"]
  BY ItemsDiffer, ToolNames DEF Quality
<1>4. FilesInv'
  <2>1. FilesAreSound' /\ PlanHasInputs'
    BY <1>1 DEF Inv, FilesInv, FilesAreSound, PlanHasInputs, Exist
  <2>2. OwnFilesFit'
    <3>1. \A t \in Tools : Rom \in names'[t] => Rom \in names[t]
      OBVIOUS
    <3>2. Rom \in names'["build"] => Exist({Rom})'
      BY <1>1, <1>3 DEF Inv, FilesInv, OwnFilesFit, Exist
    <3>3. ASSUME NEW t \in Tools, NamesOwn(t)'
          PROVE  /\ Exist({Priv(t), Pub(t)})'
                 /\ (t = "build" => Rom \in names'[t]) =>
                        Fits(t, file'[Priv(t)], file'[Pub(t)], file'[Rom])
      <4>1. NamesOwn(t)
        BY <1>2, <3>3
      <4>2. /\ Exist({Priv(t), Pub(t)})
            /\ (t = "build" => Rom \in names[t]) => Fits(t, file[Priv(t)], file[Pub(t)], file[Rom])
        BY <4>1 DEF Inv, FilesInv, OwnFilesFit
      <4> QED BY <1>1, <3>1, <4>2 DEF Exist
    <3> QED BY <3>2, <3>3 DEF OwnFilesFit
  <2> QED BY <2>1, <2>2 DEF FilesInv
<1>5. WorldIsKnown' /\ ReadingIsSound' /\ ApprovalsAreSound'
  BY <1>1, RestKeeps DEF Aside
<1>6. TodoIsSound'
  BY <1>1 DEF Inv, TodoIsSound
<1>7. QueueIsChain' /\ PlanIsNew'
  BY <1>1, StartedChains DEF QueueIsChain, PlanIsNew
<1> QED BY <1>4, <1>5, <1>6, <1>7 DEF Inv

LEMMA StartsKeep ==
  ASSUME Inv, StartStage \/ StartDirect \/ StartRefresh \/ StartApprove
  PROVE  Inv'
<1>1. CASE StartStage
  BY <1>1, StartKeeps DEF StartStage
<1>2. CASE StartDirect
  BY <1>2, StartKeeps DEF StartDirect
<1>3. CASE StartRefresh
  BY <1>3, StartKeeps DEF StartRefresh
<1>4. CASE StartApprove
  BY <1>4, StartKeeps DEF StartApprove
<1> QED BY <1>1, <1>2, <1>3, <1>4

\* Nothing of the files and of the tools that run is touched.
LEMMA FilesStay ==
  ASSUME Inv, UNCHANGED <<file, names, queue, todo, approvals>>
  PROVE  FilesInv' /\ TodoIsSound' /\ QueueIsChain' /\ PlanIsNew' /\ ApprovalsAreSound'
<1>1. FilesInv'
  BY DEF Inv, FilesInv, FilesAreSound, OwnFilesFit, PlanHasInputs, Exist, NamesOwn
<1>2. TodoIsSound'
  BY DEF Inv, TodoIsSound, Exist
<1>3. QueueIsChain' /\ PlanIsNew' /\ ApprovalsAreSound'
  BY DEF Inv, QueueIsChain, PlanIsNew, ApprovalsAreSound, Exist, NamesOwn
<1> QED BY <1>1, <1>2, <1>3

LEMMA ReadReviewKeeps == ASSUME Inv, ReadReview PROVE Inv'
<1>1. UNCHANGED <<corpus, page, file, names, queue, todo, approvals>>
  BY DEF ReadReview, world
<1>2. WorldIsKnown'
  BY <1>1 DEF Inv, WorldIsKnown
<1>3. ReadingIsSound'
  BY FileIsSound, ToolNames DEF ReadReview, Sound, ReadingIsSound
<1> QED BY <1>1, <1>2, <1>3, FilesStay DEF Inv

LEMMA ChangeWorldKeeps == ASSUME Inv, ChangeWorld PROVE Inv'
<1>1. UNCHANGED <<reading, file, names, queue, todo, approvals>>
  BY DEF ChangeWorld
<1>2. WorldIsKnown'
  BY DEF Inv, WorldIsKnown, ChangeWorld
<1>3. ReadingIsSound'
  BY <1>1 DEF Inv, ReadingIsSound
<1> QED BY <1>1, <1>2, <1>3, FilesStay DEF Inv

LEMMA KillKeeps == ASSUME Inv, Kill PROVE Inv'
<1>1. UNCHANGED <<corpus, page, reading, file, names, approvals>> /\ queue' = <<>> /\ todo' = <<>>
  BY DEF Kill, world
<1>2. FilesInv'
  BY <1>1 DEF Inv, FilesInv, FilesAreSound, OwnFilesFit, PlanHasInputs, Exist, NamesOwn
<1>3. WorldIsKnown' /\ ReadingIsSound' /\ ApprovalsAreSound'
  BY <1>1, RestKeeps DEF Aside
<1>4. TodoIsSound' /\ QueueIsChain' /\ PlanIsNew'
  BY <1>1 DEF TodoIsSound, QueueIsChain, PlanIsNew
<1> QED BY <1>2, <1>3, <1>4 DEF Inv

LEMMA InitIsSound == ASSUME Init PROVE Inv
<1>1. WorldIsKnown
  BY SourcesAssumption DEF Init, WorldIsKnown
<1>2. \A t : ~Exist({Priv(t)})
  BY DEF Init, Exist
<1>3. \A t \in Tools : names[t] = {}
  BY DEF Init
<1>4. FilesInv
  <2>1. FilesAreSound /\ PlanHasInputs
    BY <1>2 DEF FilesAreSound, PlanHasInputs
  <2>2. OwnFilesFit
    BY <1>3, ToolNames DEF OwnFilesFit, NamesOwn
  <2> QED BY <2>1, <2>2 DEF FilesInv
<1>5. ReadingIsSound /\ ApprovalsAreSound /\ TodoIsSound /\ QueueIsChain /\ PlanIsNew
  BY DEF Init, ReadingIsSound, ApprovalsAreSound, TodoIsSound, QueueIsChain, PlanIsNew
<1> QED BY <1>1, <1>4, <1>5 DEF Inv

-----------------------------------------------------------------------------
(* The invariant *)

\* Each file holds what the tool before it may rely on, whatever files it was
\* made from, whether or not its hash is still named (main of each tool); a stored
\* approval, also one a release with schema 1 left and this one put a batch over
\* (migrate_legacy_local_approval), has the lines of one the person gave.
THEOREM FilesInvariant == Spec => []Inv
<1>1. Init => Inv
  BY InitIsSound
<1>2. Inv /\ [Next]_vars => Inv'
  <2> SUFFICES ASSUME Inv, [Next]_vars PROVE Inv'
    OBVIOUS
  <2>1. CASE StageTool
    <3>1. CASE Anchor \/ Corroboration \/ GlyphDemand \/ Candidates \/ ReviewOfGlyphs
               \/ Preservation \/ Capacity
      BY <3>1, SmallToolsKeep
    <3>2. CASE SourceScript \/ Projection \/ Sequence \/ Context \/ Review \/ Approval
      BY <3>2, SourceKeeps, ProjectionKeeps, SequenceKeeps, ContextKeeps, ReviewKeeps, ApprovalKeeps
    <3>3. CASE Encoding \/ Reinsertion \/ Build
      BY <3>3, EncodingKeeps, ReinsertionKeeps, BuildKeeps
    <3> QED BY <2>1, <3>1, <3>2, <3>3 DEF StageTool
  <2>2. CASE ApproveByHand \/ ApproveBySchema1
    BY <2>2, ApproveByHandKeeps, ApproveBySchema1Keeps
  <2>3. CASE WriteOn
    BY <2>3, WriteOnKeeps
  <2>4. CASE StartStage \/ StartDirect \/ StartRefresh \/ StartApprove
    BY <2>4, StartsKeep
  <2>5. CASE ReadReview
    BY <2>5, ReadReviewKeeps
  <2>6. CASE ChangeWorld
    BY <2>6, ChangeWorldKeeps
  <2>7. CASE Kill
    BY <2>7, KillKeeps
  <2>8. CASE UNCHANGED vars
    <3>1. UNCHANGED <<corpus, page, reading, file, names, queue, todo, approvals>>
      BY <2>8 DEF vars, world
    <3>2. WorldIsKnown' /\ ReadingIsSound'
      BY <3>1 DEF Inv, WorldIsKnown, ReadingIsSound
    <3> QED BY <3>1, <3>2, FilesStay DEF Inv
  <2> QED BY <2>1, <2>2, <2>3, <2>4, <2>5, <2>6, <2>7, <2>8 DEF Next
<1> QED BY <1>1, <1>2, PTL DEF Spec

\* A window released for translation starts at the anchor, and its lines are in
\* step with its records (map_runtime_context, project_anchored_section).
THEOREM ContextStaysInStep == Spec => []ReadyContextIsInStep
<1>1. Inv => ReadyContextIsInStep
  <2> SUFFICES ASSUME Inv, Exist({Pub("context")}), NamesOwn("context"), file[Pub("context")].ready
               PROVE  LET rows == file[Priv("context")]
                      IN  \A i \in DOMAIN rows :
                /\ rows[i].entry = [selector |-> AnchorSelector, ordinal |-> AnchorOrdinal + i - 1]
                /\ rows[i].pair.line - rows[1].pair.line = rows[i].entry.ordinal - AnchorOrdinal
    BY DEF ReadyContextIsInStep
  <2>1. PICK rows : rows = file[Priv("context")]
    OBVIOUS
  <2>2. "context" \in Tools
    BY ToolNames
  <2>3. Exist({Priv("context")}) /\ Fits("context", rows, file[Pub("context")], file[Rom])
    BY <2>1, <2>2 DEF Inv, FilesInv, OwnFilesFit, Exist
  <2>4. SoundContext(rows) /\ ContextReady(rows)
    BY <2>1, <2>2, <2>3, FileIsSound DEF Sound, Fits
  <2>5. AllMapped(rows) /\ LinesInStep(rows)
    BY <2>4 DEF ContextReady
  <2>6. PICK source \in Sources :
          /\ AnchorLine(source) \in Nat
          /\ \A i \in DOMAIN rows : rows[i].pair.line = AnchorLine(source) + i - 1
    BY <2>4, <2>5 DEF SoundContext, RowsFromPage
  <2>7. \A i \in DOMAIN rows :
          rows[i].entry = [selector |-> AnchorSelector, ordinal |-> AnchorOrdinal + i - 1]
    BY <2>4, <2>5 DEF SoundContext
  <2>8. \A i \in DOMAIN rows : i \in Nat /\ 1 \in DOMAIN rows
    BY <2>4, IsSeqDomain DEF SoundContext
  <2>9. ASSUME NEW i \in DOMAIN rows
        PROVE  rows[i].pair.line - rows[1].pair.line = rows[i].entry.ordinal - AnchorOrdinal
    <3>1. /\ rows[i].pair.line = AnchorLine(source) + i - 1
          /\ rows[1].pair.line = AnchorLine(source) + 1 - 1
      BY <2>6, <2>8
    <3>2. rows[i].entry.ordinal = AnchorOrdinal + i - 1
      <4>1. rows[i].entry = [selector |-> AnchorSelector, ordinal |-> AnchorOrdinal + i - 1]
        BY <2>7
      <4> QED BY <4>1
    <3>3. AnchorOrdinal \in Int /\ i \in Int /\ AnchorLine(source) \in Int
      BY <2>6, <2>8, AnchorAssumption
    <3> QED BY <3>1, <3>2, <3>3
  <2> QED BY <2>1, <2>7, <2>9
<1> QED BY <1>1, FilesInvariant, PTL

\* A published encoding holds the lines of one approval of a person, under the batch
\* that was put over them, or of one of schema 1, which names none: approvals are
\* never mixed (_main of v5_1_first_context_translation_encoding.py).  That the
\* person read this batch is not claimed, nor true.
THEOREM OnlyApprovedIsEncoded == Spec => []EncodedTextsWereApproved
<1>1. Inv => EncodedTextsWereApproved
  <2> SUFFICES ASSUME Inv, NamesOwn("encoding")
               PROVE  Approved(EncodedApproval, approvals)
    BY DEF EncodedTextsWereApproved
  <2>1. "encoding" \in Tools
    BY ToolNames
  <2>2. Exist({Priv("encoding")})
    BY <2>1 DEF Inv, FilesInv, OwnFilesFit, Exist
  <2> QED BY <2>1, <2>2, FileIsSound DEF Sound, SoundEncoding, EncodedApproval
<1> QED BY <1>1, FilesInvariant, PTL

\* A published and complete build shows the lines of one version of the page in
\* the records from the anchor on (build_translation_writes,
\* verify_translation_build).
THEOREM TextsReachTheirRecords == Spec => []TextsGoToTheirRecords
<1>1. Inv => TextsGoToTheirRecords
  <2>1. "build" \in Tools
    BY ToolNames
  <2>2. ASSUME Inv, {Priv("build"), Rom} \subseteq names["build"]
        PROVE  Fits("build", file[Priv("build")], file[Pub("build")], file[Rom])
    BY <2>1, <2>2 DEF Inv, FilesInv, OwnFilesFit, NamesOwn
  <2> QED BY <2>2 DEF TextsGoToTheirRecords, Fits
<1> QED BY <1>1, FilesInvariant, PTL

=============================================================================
