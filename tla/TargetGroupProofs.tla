-------------------------- MODULE TargetGroupProofs --------------------------
(***************************************************************************)
(* The files of the target group chain: no two records that are addressed  *)
(* share a byte once the stream map is aligned, the tools of a stage agree  *)
(* on their files whatever a kill left, and the decode is the one of now.   *)
(*                                                                         *)
(* Inv says how far a stage has come (QueueIsRest), what the running tool   *)
(* has still to write (WritingIsOwn), and what each tool that has run       *)
(* leaves to the later ones (StageIsFit).  What the tools compute from the  *)
(* records is not looked into: that two files were made from the same start *)
(* pages and font catalog is all that is asked.                             *)
(***************************************************************************)
EXTENDS TargetGroup, GroupRecordsProofs, FiniteSetTheorems

Inv ==
    /\ FilesAreFiles /\ QueueIsRest /\ WorldIsKnown /\ InputsStay /\ WritingIsOwn
    /\ PairsAreWhole /\ StageIsFit /\ RefusalIsKnown

-----------------------------------------------------------------------------
(* The chain *)

LEMMA ChainPlaces ==
  /\ Chain \in Seq(Tools) /\ Len(Chain) = 17 /\ DOMAIN Chain = 1 .. 17
  /\ Chain[1] = "visible" /\ Chain[2] = "extract" /\ Chain[3] = "usage" /\ Chain[4] = "stream"
  /\ Chain[5] = "population" /\ Chain[6] = "decode" /\ Chain[7] = "expanded"
  /\ Chain[8] = "nonHangul" /\ Chain[9] = "corpus" /\ Chain[10] = "quality"
  /\ Chain[11] = "context" /\ Chain[12] = "runtime" /\ Chain[13] = "delta"
  /\ Chain[14] = "text" /\ Chain[15] = "fuzzy" /\ Chain[16] = "script" /\ Chain[17] = "unicode"
<1>1. DOMAIN Chain = 1 .. 17
  BY DEF Chain
<1>2. Len(Chain) = 17
  BY DEF Chain
<1>3. Chain = [k \in 1 .. 17 |-> Chain[k]]
  BY DEF Chain
<1>4. \A k \in 1 .. 17 : Chain[k] \in Tools
  BY <1>1 DEF Tools, Range
<1>5. Chain \in Seq(Tools)
  BY <1>3, <1>4
<1>6. /\ Chain[1] = "visible" /\ Chain[2] = "extract" /\ Chain[3] = "usage" /\ Chain[4] = "stream"
      /\ Chain[5] = "population" /\ Chain[6] = "decode" /\ Chain[7] = "expanded"
      /\ Chain[8] = "nonHangul" /\ Chain[9] = "corpus" /\ Chain[10] = "quality"
      /\ Chain[11] = "context" /\ Chain[12] = "runtime" /\ Chain[13] = "delta"
      /\ Chain[14] = "text" /\ Chain[15] = "fuzzy" /\ Chain[16] = "script" /\ Chain[17] = "unicode"
  BY DEF Chain
<1> QED BY <1>1, <1>2, <1>5, <1>6

LEMMA ToolNames ==
  {"visible", "extract", "usage", "stream", "population", "decode", "expanded", "nonHangul",
   "corpus", "quality", "context", "runtime", "delta", "text", "fuzzy", "script", "unicode"}
      \subseteq Tools
BY ChainPlaces DEF Tools, Range

\* No tool comes twice.
LEMMA ChainIsOnce ==
  ASSUME NEW m \in 1 .. 17, NEW n \in 1 .. 17, Chain[m] = Chain[n]
  PROVE  m = n
BY ChainPlaces, SMTT(60)

\* The tool at the head of the queue is the one of its place; what has run are the
\* tools before it.
LEMMA HeadOfQueue ==
  ASSUME QueueIsRest, queue # <<>>
  PROVE  /\ Place \in 1 .. 17 /\ Head(queue) = Chain[Place] /\ Head(queue) \in Tools
         /\ Len(queue) = 18 - Place
<1>1. queue \in Seq(Tools) /\ Len(queue) <= 17 /\ Len(queue) \in Nat
  BY ChainPlaces DEF QueueIsRest
<1>2. Len(queue) # 0
  BY <1>1
<1>3. Place = 18 - Len(queue)
  BY ChainPlaces, <1>1 DEF Place
<1>4. Place \in 1 .. 17 /\ Len(queue) = 18 - Place
  BY <1>1, <1>2, <1>3
<1>5. 1 \in DOMAIN queue /\ Head(queue) = queue[1]
  BY <1>1, <1>2
<1>6. queue[1] = Chain[Place + 1 - 1]
  BY <1>5 DEF QueueIsRest
<1>7. Head(queue) = Chain[Place]
  BY <1>4, <1>5, <1>6
<1>8. Head(queue) \in Tools
  BY <1>1, <1>2
<1> QED BY <1>4, <1>7, <1>8

LEMMA Before ==
  ASSUME QueueIsRest, queue # <<>>, NEW n \in 1 .. 17, Head(queue) = Chain[n]
  PROVE  \A m \in 1 .. 17 : HasRun(Chain[m]) <=> m < n
<1>1. Place \in 1 .. 17 /\ Chain[Place] = Chain[n]
  BY HeadOfQueue
<1>2. Place = n
  BY <1>1, ChainIsOnce
<1> SUFFICES ASSUME NEW m \in 1 .. 17
             PROVE  HasRun(Chain[m]) <=> m < n
  OBVIOUS
<1>3. ASSUME m < n PROVE HasRun(Chain[m])
  BY <1>2, <1>3 DEF HasRun
<1>4. ASSUME HasRun(Chain[m]) PROVE m < n
  <2>1. PICK k \in 1 .. n - 1 : Chain[k] = Chain[m]
    BY <1>2, <1>4 DEF HasRun
  <2>2. k \in 1 .. 17 /\ k < n
    BY <2>1
  <2>3. k = m
    BY <2>1, <2>2, ChainIsOnce
  <2> QED BY <2>2, <2>3
<1> QED BY <1>3, <1>4

\* What has run when a tool runs, by name
LEMMA RunSoFar ==
  ASSUME QueueIsRest, queue # <<>>
  PROVE  /\ ~HasRun(Head(queue))
         /\ Head(queue) = "expanded" => HasRun("decode")
         /\ Head(queue) = "nonHangul" => HasRun("expanded")
         /\ Head(queue) = "corpus" => HasRun("decode") /\ HasRun("expanded") /\ HasRun("nonHangul")
         /\ Head(queue) = "quality" => HasRun("corpus")
         /\ Head(queue) = "runtime" => HasRun("context")
         /\ Head(queue) = "delta" => HasRun("runtime")
         /\ Head(queue) = "text" => HasRun("runtime") /\ HasRun("delta")
         /\ Head(queue) = "fuzzy" => HasRun("text")
         /\ Head(queue) = "script" => HasRun("fuzzy")
         /\ Head(queue) = "unicode" => HasRun("runtime")
         /\ HasRun("decode") => HasRun("population") /\ HasRun("visible")
         /\ HasRun("expanded") => HasRun("decode")
         /\ HasRun("nonHangul") => HasRun("expanded")
         /\ HasRun("corpus") => HasRun("decode")
         /\ HasRun("context") => HasRun("extract")
         /\ HasRun("runtime") => HasRun("context") /\ HasRun("extract")
         /\ HasRun("delta") => HasRun("extract")
         /\ HasRun("fuzzy") => HasRun("text")
<1>1. PICK n \in 1 .. 17 : Head(queue) = Chain[n]
  BY HeadOfQueue
<1>2. \A m \in 1 .. 17 : HasRun(Chain[m]) <=> m < n
  BY <1>1, Before
<1>3. ~HasRun(Head(queue))
  BY <1>1, <1>2
<1>4. \A m \in 1 .. 17 : Chain[m] = Head(queue) => m = n
  BY <1>1, ChainIsOnce
<1>5. /\ HasRun("visible") <=> 1 < n
      /\ HasRun("extract") <=> 2 < n
      /\ HasRun("population") <=> 5 < n
      /\ HasRun("decode") <=> 6 < n
      /\ HasRun("expanded") <=> 7 < n
      /\ HasRun("nonHangul") <=> 8 < n
      /\ HasRun("corpus") <=> 9 < n
      /\ HasRun("context") <=> 11 < n
      /\ HasRun("runtime") <=> 12 < n
      /\ HasRun("delta") <=> 13 < n
      /\ HasRun("text") <=> 14 < n
      /\ HasRun("fuzzy") <=> 15 < n
  BY <1>2, ChainPlaces
<1>6. /\ Head(queue) = "expanded" => n = 7
      /\ Head(queue) = "nonHangul" => n = 8
      /\ Head(queue) = "corpus" => n = 9
      /\ Head(queue) = "quality" => n = 10
      /\ Head(queue) = "runtime" => n = 12
      /\ Head(queue) = "delta" => n = 13
      /\ Head(queue) = "text" => n = 14
      /\ Head(queue) = "fuzzy" => n = 15
      /\ Head(queue) = "script" => n = 16
      /\ Head(queue) = "unicode" => n = 17
  BY <1>4, ChainPlaces
<1> QED BY <1>3, <1>5, <1>6

\* The queue without its first tool
LEMMA NextInQueue ==
  ASSUME QueueIsRest, queue # <<>>, queue' = Tail(queue)
  PROVE  /\ QueueIsRest'
         /\ \A t : HasRun(t)' => HasRun(t) \/ t = Head(queue)
<1>1. Place \in 1 .. 17 /\ Head(queue) = Chain[Place] /\ Len(queue) = 18 - Place
  BY HeadOfQueue
<1>2. queue \in Seq(Tools)
  BY DEF QueueIsRest
<1>3. /\ queue' \in Seq(Tools) /\ Len(queue') = Len(queue) - 1
      /\ \A k \in DOMAIN queue' : k + 1 \in DOMAIN queue /\ queue'[k] = queue[k + 1]
  BY <1>2
<1>4. Place' = Place + 1
  BY <1>1, <1>3, ChainPlaces DEF Place
<1>5. \A k \in DOMAIN queue' : queue'[k] = Chain[Place' + k - 1]
  <2> SUFFICES ASSUME NEW k \in DOMAIN queue'
               PROVE  queue'[k] = Chain[Place' + k - 1]
    OBVIOUS
  <2>1. k \in Nat
    BY <1>3
  <2>2. queue[k + 1] = Chain[Place + (k + 1) - 1]
    BY <1>3 DEF QueueIsRest
  <2>3. Place + (k + 1) - 1 = Place' + k - 1
    BY <2>1, <1>1, <1>4
  <2> QED BY <1>3, <2>2, <2>3
<1>6. Len(queue') <= Len(Chain)
  BY <1>1, <1>3, ChainPlaces
<1>7. QueueIsRest'
  BY <1>3, <1>5, <1>6 DEF QueueIsRest
<1>8. ASSUME NEW t, HasRun(t)' PROVE HasRun(t) \/ t = Head(queue)
  <2>1. PICK n \in 1 .. Place' - 1 : Chain[n] = t
    BY <1>8 DEF HasRun
  <2>2. n \in 1 .. Place - 1 \/ n = Place
    BY <1>1, <1>4, <2>1
  <2> QED BY <1>1, <2>1, <2>2 DEF HasRun
<1> QED BY <1>7, <1>8

-----------------------------------------------------------------------------
(* Rewritten files *)

\* The same file, but for the hash of a tool that was published again
Renamed(f, g, t) ==
    /\ f.seen = g.seen /\ f.pages = g.pages /\ f.catalog = g.catalog
    /\ f.named = g.named /\ f.code = g.code
    /\ \A x : x # t => (x \in f.from <=> x \in g.from)

LEMMA HashDropped ==
  ASSUME NEW f, IsFile(f), NEW t, NEW g, g = [f EXCEPT !.from = @ \ {t}]
  PROVE  IsFile(g) /\ Renamed(f, g, t)
<1>1. f = [seen |-> f.seen, pages |-> f.pages, catalog |-> f.catalog,
           named |-> f.named, code |-> f.code, from |-> f.from]
  BY DEF IsFile
<1>2. g = [seen |-> f.seen, pages |-> f.pages, catalog |-> f.catalog,
           named |-> f.named, code |-> f.code, from |-> f.from \ {t}]
  BY <1>1
<1>3. /\ g.seen = f.seen /\ g.pages = f.pages /\ g.catalog = f.catalog
      /\ g.named = f.named /\ g.code = f.code /\ g.from = f.from \ {t}
  BY <1>2
<1> QED BY <1>2, <1>3 DEF IsFile, Renamed

LEMMA NotRewritten == \A f, t : Renamed(f, f, t)
BY DEF Renamed

\* Every file but those of t is the same, and those of t are not lost.
Rewritten(old, new, t) ==
    /\ DOMAIN new = Tools
    /\ \A u \in Tools : IsFile(new[u])
    /\ \A u \in Tools \ {t} : Renamed(old[u], new[u], t)
    /\ old[t].code # 0 => new[t].code # 0

LEMMA ReplacedFiles ==
  ASSUME NEW files, NEW t \in Tools, NEW file, IsFile(file), file.code # 0,
         \A u \in Tools : IsFile(files[u]),
         NEW new, new = Replace(files, t, file)
  PROVE  Rewritten(files, new, t) /\ new[t] = file
<1>1. DOMAIN new = Tools /\ new[t] = file
  BY DEF Replace
<1>2. \A u \in Tools \ {t} : new[u] = [files[u] EXCEPT !.from = @ \ {t}]
  BY DEF Replace
<1>3. \A u \in Tools \ {t} : IsFile(new[u]) /\ Renamed(files[u], new[u], t)
  BY <1>2, HashDropped
<1> QED BY <1>1, <1>3 DEF Rewritten

LEMMA StaleFiles ==
  ASSUME NEW files, NEW t \in Tools, \A u \in Tools : IsFile(files[u]),
         NEW new, new = Stale(files, t)
  PROVE  Rewritten(files, new, t) /\ Renamed(files[t], new[t], t)
<1>1. DOMAIN new = Tools
  BY DEF Stale
<1>2. \A u \in Tools : new[u] = [files[u] EXCEPT !.from = @ \ {t}]
  BY DEF Stale
<1>3. \A u \in Tools : IsFile(new[u]) /\ Renamed(files[u], new[u], t)
  BY <1>2, HashDropped
<1>4. files[t].code # 0 => new[t].code # 0
  BY <1>3 DEF Renamed
<1> QED BY <1>1, <1>3, <1>4 DEF Rewritten

LEMMA SecondFiles ==
  ASSUME NEW files, DOMAIN files = Tools, NEW t \in Tools, NEW file, IsFile(file), file.code # 0,
         \A u \in Tools : IsFile(files[u]),
         NEW new, new = [files EXCEPT ![t] = file]
  PROVE  Rewritten(files, new, t) /\ new[t] = file
<1>1. DOMAIN new = Tools /\ new[t] = file /\ \A u \in Tools \ {t} : new[u] = files[u]
  OBVIOUS
<1> QED BY <1>1, NotRewritten DEF Rewritten

LEMMA SameFiles ==
  ASSUME NEW files, DOMAIN files = Tools, NEW t, \A u \in Tools : IsFile(files[u])
  PROVE  Rewritten(files, files, t)
BY NotRewritten DEF Rewritten

\* What a file gives goes by the font catalog and the start pages it was made
\* from.
LEMMA TextsByMaking ==
  ASSUME NEW f, NEW g, SameTexts(f, g)
  PROVE  DecodeTexts(f) = DecodeTexts(g) /\ Counted(f) = Counted(g)
<1>1. DecodeTexts(f) = DecodeTexts(g)
  BY DEF SameTexts, DecodeTexts
<1> QED BY <1>1 DEF Counted

LEMMA GroupTextsByMaking ==
  ASSUME NEW f, NEW g, SameTexts(f, g), f.seen = g.seen
  PROVE  GroupTexts(f) = GroupTexts(g) /\ GroupCounted(f) = GroupCounted(g)
<1>1. GroupTexts(f) = GroupTexts(g)
  BY DEF SameTexts, GroupTexts
<1> QED BY <1>1 DEF GroupCounted

\* The grounds on which a refusal stands
LEMMA GroundsStay ==
  ASSUME image' = image, safe' = safe, local' = local
  PROVE  /\ Complete(safe["extract"].seen) => Complete(safe["extract"].seen)'
         /\ DecodeTexts(local["decode"]) = {} => DecodeTexts(local["decode"])' = {}
         /\ Ambiguous(GroupTexts(local["text"])) => Ambiguous(GroupTexts(local["text"]))'
<1>1. /\ Complete(safe["extract"].seen) => Complete(safe["extract"].seen)'
      /\ DecodeTexts(local["decode"]) = {} => DecodeTexts(local["decode"])' = {}
  BY DEF Complete, Payloads, DecodeTexts, Decodable, Nonempty
<1>2. GroupTexts(local["text"])' = GroupTexts(local["text"])
  BY DEF GroupTexts, Payloads
<1>3. Ambiguous(GroupTexts(local["text"]))' = Ambiguous(GroupTexts(local["text"]))
  BY <1>2 DEF Ambiguous
<1> QED BY <1>1, <1>3

LEMMA CountsByMaking ==
  ASSUME NEW f, NEW g, SameTexts(f, g), f.code = g.code
  PROVE  CorpusCounts(f) = CorpusCounts(g)
BY DEF SameTexts, CorpusCounts

LEMMA TextsStay ==
  ASSUME image' = image, SameTexts(local["decode"], local'["decode"])
  PROVE  DecodeTexts(local["decode"])' = DecodeTexts(local["decode"])
BY DEF SameTexts, DecodeTexts, Decodable, Nonempty, Font

-----------------------------------------------------------------------------
(* What writing a file of the running tool leaves as it was *)

\* A step that writes files of t
Wrote(t) ==
    /\ Rewritten(safe, safe', t) /\ Rewritten(local, local', t)
    /\ UNCHANGED <<image, seen, code, catalog, torn, refusal>>

LEMMA OthersAreThere ==
  ASSUME NEW t \in Tools, Wrote(t), NEW u \in Tools
  PROVE  /\ Whole(u) => Whole(u)'
         /\ safe[u].code # 0 => safe'[u].code # 0
         /\ u # t => (Begun(u)' => Begun(u)) /\ (Whole(u)' => Whole(u))
                     /\ (safe'[u].code # 0 => safe[u].code # 0)
                     /\ (local'[u].code # 0 => local[u].code # 0)
BY DEF Wrote, Rewritten, Renamed, Whole, Begun

LEMMA InputsKept ==
  ASSUME NEW t \in Tools, Wrote(t), InputsStay, InputsOf(t)
  PROVE  InputsStay'
<1>1. \A u \in Tools : InputsOf(u) => InputsOf(u)'
  <2> SUFFICES ASSUME NEW u \in Tools, InputsOf(u) PROVE InputsOf(u)'
    OBVIOUS
  <2>1. image' = image /\ seen' = seen
    BY DEF Wrote
  <2>2. \A v \in Tools : (Whole(v) => Whole(v)') /\ (safe[v].code # 0 => safe'[v].code # 0)
    BY OthersAreThere
  <2> QED BY <2>1, <2>2, ToolNames DEF InputsOf
<1>2. \A u \in Tools : Begun(u)' => InputsOf(u)
  BY OthersAreThere DEF InputsStay
<1> QED BY <1>1, <1>2 DEF InputsStay

LEMMA OthersAreTheSame ==
  ASSUME NEW t \in Tools, Wrote(t), NEW u \in Tools, u # t
  PROVE  /\ safe'[u].pages = safe[u].pages /\ safe'[u].catalog = safe[u].catalog
         /\ safe'[u].seen = safe[u].seen /\ safe'[u].code = safe[u].code
         /\ safe'[u].named = safe[u].named
         /\ local'[u].pages = local[u].pages /\ local'[u].catalog = local[u].catalog
         /\ local'[u].seen = local[u].seen /\ local'[u].code = local[u].code
         /\ \A x : x # t => /\ x \in safe'[u].from <=> x \in safe[u].from
                           /\ x \in local'[u].from <=> x \in local[u].from
BY DEF Wrote, Rewritten, Renamed

LEMMA LeftKept ==
  ASSUME NEW t \in Tools, Wrote(t), QueueIsRest, queue # <<>>, t = Head(queue), StageIsFit,
         NEW u \in Tools, HasRun(u)
  PROVE  Left(u)'
<1>1. u # t
  BY RunSoFar
<1>2. Left(u)
  BY DEF StageIsFit
<1>3. catalog' = catalog /\ torn' = torn /\ image' = image
  BY DEF Wrote
<1>4. \A v \in Tools \ {t} : Whole(v)' => Whole(v)
  BY OthersAreThere
<1>5. \A v : HasRun(v) => v # t
  BY RunSoFar
<1>15. \A x : x # t => (x \in safe[u].from => x \in safe'[u].from)
  BY <1>1 DEF Wrote, Rewritten, Renamed
<1>16. SameTexts(safe[u], local[u]) => SameTexts(safe[u], local[u])'
  BY <1>1, OthersAreTheSame DEF SameTexts
<1>17. (Whole(u)' => Whole(u)) /\ (safe'[u].code # 0 => safe[u].code # 0)
  BY <1>1, OthersAreThere
<1>6. u = "decode" /\ DecodeReady' => Whole(u)' /\ SameTexts(safe[u], local[u])' /\ DecodeIsNew'
  <2> SUFFICES ASSUME u = "decode", DecodeReady'
               PROVE  Whole(u)' /\ SameTexts(safe[u], local[u])' /\ DecodeIsNew'
    OBVIOUS
  <2>1. "population" # t /\ "visible" # t
    BY <1>5, RunSoFar
  <2>2. DecodeReady
    BY <2>1, <1>3, OthersAreThere, ToolNames DEF DecodeReady, Exist
  <2>3. Whole("decode") /\ SameTexts(safe["decode"], local["decode"]) /\ DecodeIsNew
    BY <2>2, <1>2 DEF Left
  <2>4. Whole("decode")'
    BY <2>3, OthersAreThere, ToolNames
  <2>5. /\ safe'["decode"].pages = safe["decode"].pages
        /\ safe'["decode"].catalog = safe["decode"].catalog
        /\ local'["decode"].pages = local["decode"].pages
        /\ local'["decode"].catalog = local["decode"].catalog
        /\ local'["visible"].pages = local["visible"].pages
    BY <2>1, <1>1, OthersAreTheSame, ToolNames
  <2> QED BY <2>3, <2>4, <2>5, <1>3 DEF SameTexts, DecodeIsNew
<1>7. u = "expanded" /\ Whole(u)' =>
          SameTexts(safe[u], local[u])' /\ "decode" \in safe'[u].from
  <2>1. u = "expanded" => "decode" # t
    BY <1>5, RunSoFar
  <2> QED BY <2>1, <1>2, <1>15, <1>16, <1>17 DEF Left
<1>8. u = "nonHangul" /\ Whole(u)' =>
          SameTexts(safe[u], local[u])' /\ "expanded" \in safe'[u].from
  <2>1. u = "nonHangul" => "expanded" # t
    BY <1>5, RunSoFar
  <2> QED BY <2>1, <1>2, <1>15, <1>16, <1>17 DEF Left
<1>9. u = "corpus" /\ Whole(u)' =>
          \/ SameTexts(safe[u], local[u])' /\ safe'[u].code = local'[u].code
          \/ "corpus" \in torn' /\ DecodeTexts(local["decode"])' = {}
  <2> SUFFICES ASSUME u = "corpus", Whole(u)'
               PROVE  \/ SameTexts(safe[u], local[u])' /\ safe'[u].code = local'[u].code
                      \/ "corpus" \in torn' /\ DecodeTexts(local["decode"])' = {}
    OBVIOUS
  <2>1. "decode" # t
    BY <1>5, RunSoFar
  <2>2. SameTexts(local["decode"], local'["decode"])
    BY <2>1, OthersAreTheSame, ToolNames DEF SameTexts
  <2>3. DecodeTexts(local["decode"])' = DecodeTexts(local["decode"])
    BY <2>2, <1>3, TextsStay
  <2>4. \/ SameTexts(safe[u], local[u]) /\ safe[u].code = local[u].code
        \/ "corpus" \in torn /\ DecodeTexts(local["decode"]) = {}
    BY <1>1, <1>2, <1>4 DEF Left
  <2>5. SameTexts(safe[u], local[u]) /\ safe[u].code = local[u].code =>
            SameTexts(safe[u], local[u])' /\ safe'[u].code = local'[u].code
    BY <1>1, OthersAreTheSame DEF SameTexts
  <2> QED BY <2>3, <2>4, <2>5, <1>3
<1>10. u = "context" /\ Whole(u)' => Complete(safe["extract"].seen)' \/ Names(u, "extract")'
  <2> SUFFICES ASSUME u = "context", Whole(u)'
               PROVE  Complete(safe["extract"].seen)' \/ Names(u, "extract")'
    OBVIOUS
  <2>1. "extract" # t
    BY <1>5, RunSoFar
  <2>2. Complete(safe["extract"].seen) \/ Names(u, "extract")
    BY <1>1, <1>2, <1>4 DEF Left
  <2>3. Names(u, "extract") => Names(u, "extract")'
    BY <2>1, <1>1, OthersAreTheSame DEF Names
  <2>4. safe'["extract"].seen = safe["extract"].seen
    BY <2>1, OthersAreTheSame, ToolNames
  <2>5. Complete(safe["extract"].seen)' = Complete(safe["extract"].seen)
    BY <2>4, <1>3 DEF Complete, Payloads
  <2> QED BY <2>2, <2>3, <2>5
<1>11. u = "runtime" /\ Whole(u)' =>
           Names(u, "extract")' /\ Names(u, "context")' /\ Names("context", "extract")'
  <2>1. u = "runtime" => "extract" # t /\ "context" # t
    BY <1>5, RunSoFar
  <2> QED BY <2>1, <1>1, <1>2, <1>4, OthersAreTheSame, ToolNames DEF Left, Names
<1>12. u = "delta" /\ safe'[u].code # 0 => "extract" \in safe'[u].from
  <2>1. u = "delta" => "extract" # t
    BY <1>5, RunSoFar
  <2> QED BY <2>1, <1>2, <1>15, <1>17 DEF Left
<1>13. u = "text" /\ Whole(u)' =>
           SameTexts(safe[u], local[u])' /\ safe'[u].seen = local'[u].seen
  BY <1>1, <1>2, <1>4, OthersAreTheSame DEF Left, SameTexts
<1>14. u = "fuzzy" /\ Whole(u)' =>
           /\ "text" \in safe'[u].from
           /\ SameFuzzy(safe[u], local[u])' /\ SameGroup(safe[u], local["text"])'
  <2>1. u = "fuzzy" => "text" # t
    BY <1>5, RunSoFar
  <2>2. /\ SameFuzzy(safe[u], local[u]) => SameFuzzy(safe[u], local[u])'
        /\ u = "fuzzy" /\ SameGroup(safe[u], local["text"]) => SameGroup(safe[u], local["text"])'
    BY <1>1, <2>1, OthersAreTheSame, ToolNames DEF SameFuzzy, SameGroup, SameTexts
  <2> QED BY <2>1, <2>2, <1>2, <1>15, <1>17 DEF Left
<1> QED BY <1>6, <1>7, <1>8, <1>9, <1>10, <1>11, <1>12, <1>13, <1>14 DEF Left

LEMMA NoFileIsNone ==
  /\ Done.tool # "decode" /\ Done.tool # "corpus" /\ Done.tool = "none"
  /\ \A tool, side, file :
         LET w == [tool |-> tool, side |-> side, file |-> file]
         IN  w.tool = tool /\ w.side = side /\ w.file = file
  /\ \A tool, file : [tool |-> tool, side |-> "local", file |-> file] # Done
BY DEF Done

\* Pairs of files that are not written to stay whole.
LEMMA PairsKept ==
  ASSUME NEW t \in Tools, Wrote(t), PairsAreWhole,
         writing.tool \in {"none", t},
         t = "decode" => writing'.tool = "decode" \/ safe'[t].named = local'[t].catalog
                             \/ "decode" \in torn,
         t = "corpus" => \/ writing'.tool = "corpus"
                         \/ SameTexts(safe'[t], local'[t]) /\ safe'[t].code = local'[t].code
  PROVE  PairsAreWhole'
<1>1. torn' = torn
  BY DEF Wrote
<1>2. ASSUME "decode" \notin torn, writing'.tool # "decode"
      PROVE  safe'["decode"].named = local'["decode"].catalog
  <2>1. CASE t = "decode"
    BY <1>2, <2>1
  <2>2. CASE t # "decode"
    BY <1>2, <2>2, OthersAreTheSame, ToolNames DEF PairsAreWhole
  <2> QED BY <2>1, <2>2
<1>3. ASSUME "corpus" \notin torn, writing'.tool # "corpus"
      PROVE  SameTexts(safe'["corpus"], local'["corpus"])
                 /\ safe'["corpus"].code = local'["corpus"].code
  <2>1. CASE t = "corpus"
    BY <1>3, <2>1
  <2>2. CASE t # "corpus"
    <3>1. SameTexts(safe["corpus"], local["corpus"]) /\ safe["corpus"].code = local["corpus"].code
      BY <1>3, <2>2 DEF PairsAreWhole
    <3> QED BY <3>1, <2>2, OthersAreTheSame, ToolNames DEF SameTexts
  <2> QED BY <2>1, <2>2
<1> QED BY <1>1, <1>2, <1>3 DEF PairsAreWhole, SameTexts

\* A tool publishes a file that fits.
LEMMA PublishKeeps ==
  ASSUME Inv, NEW t \in Tools, Running(t), NEW file, IsFile(file), file.code # 0,
         InputsOf(t), Fits(t, file), Publish(t, file)
  PROVE  Inv'
<1>0. /\ FilesAreFiles /\ QueueIsRest /\ WorldIsKnown /\ InputsStay /\ WritingIsOwn
      /\ PairsAreWhole /\ StageIsFit /\ RefusalIsKnown
  BY DEF Inv
<1>1. queue # <<>> /\ t = Head(queue) /\ writing = Done
  BY DEF Running
<1>2. safe' = Replace(safe, t, file) /\ local' = Stale(local, t)
  BY DEF Publish
<1>3. writing' = [tool |-> t, side |-> "local", file |-> file] /\ queue' = queue
  BY DEF Publish
<1>4. \A u \in Tools : IsFile(safe[u]) /\ IsFile(local[u])
  BY <1>0 DEF FilesAreFiles
<1>5. Rewritten(safe, safe', t) /\ safe'[t] = file
  BY <1>2, <1>4, ReplacedFiles
<1>6. Rewritten(local, local', t) /\ Renamed(local[t], local'[t], t)
  BY <1>2, <1>4, StaleFiles
<1>7. Wrote(t)
  BY <1>5, <1>6 DEF Wrote, Publish
<1>8. /\ image' = image /\ seen' = seen /\ code' = code /\ catalog' = catalog
      /\ torn' = torn /\ refusal' = refusal
  BY DEF Publish
<1>9. FilesAreFiles'
  BY <1>0, <1>5, <1>6, <1>8 DEF FilesAreFiles, Rewritten
<1>10. QueueIsRest'
  BY <1>0, <1>3 DEF QueueIsRest, Place
<1>11. WorldIsKnown'
  BY <1>0, <1>3, <1>8 DEF WorldIsKnown
<1>12. InputsStay'
  BY <1>0, <1>7, InputsKept
<1>13. writing'.tool = t /\ writing'.side = "local" /\ writing'.file = file
  BY <1>3
<1>14. Fits(t, file)'
  <2>1. catalog' = catalog
    BY <1>8
  <2>2. t = "decode" => local'["visible"].pages = local["visible"].pages
    BY <1>7, OthersAreTheSame, ToolNames
  <2>3. t = "runtime" /\ Names("context", "extract") => Names("context", "extract")'
    BY <1>7, OthersAreTheSame, ToolNames DEF Names
  <2>4. t = "fuzzy" /\ SameGroup(file, local["text"]) => SameGroup(file, local["text"])'
    BY <1>7, OthersAreTheSame, ToolNames DEF SameGroup, SameTexts
  <2> QED BY <2>1, <2>2, <2>3, <2>4 DEF Fits
<1>15. WritingIsOwn'
  BY <1>1, <1>3, <1>5, <1>13, <1>14 DEF WritingIsOwn
<1>16. PairsAreWhole'
  <2>1. writing.tool = "none"
    BY <1>1, NoFileIsNone
  <2>2. t = "decode" => writing'.tool = "decode"
    BY <1>13
  <2>3. t = "corpus" => writing'.tool = "corpus"
    BY <1>13
  <2> QED BY <1>0, <1>7, <2>1, <2>2, <2>3, PairsKept
<1>17. StageIsFit'
  <2>1. \A u \in Tools : HasRun(u) => Left(u)'
    BY <1>0, <1>1, <1>7, LeftKept
  <2>2. \A u : HasRun(u)' => HasRun(u)
    BY <1>3 DEF HasRun, Place
  <2> QED BY <2>1, <2>2 DEF StageIsFit
<1>18. RefusalIsKnown'
  BY <1>0, <1>1, <1>8 DEF RefusalIsKnown
<1> QED BY <1>9, <1>10, <1>11, <1>12, <1>15, <1>16, <1>17, <1>18 DEF Inv

\* A tool has nothing to do.
LEMMA PassKeeps ==
  ASSUME Inv, NEW t \in Tools, Running(t), Left(t), Pass
  PROVE  Inv'
<1>0. /\ FilesAreFiles /\ QueueIsRest /\ WorldIsKnown /\ InputsStay /\ WritingIsOwn
      /\ PairsAreWhole /\ StageIsFit /\ RefusalIsKnown
  BY DEF Inv
<1>1. queue # <<>> /\ t = Head(queue) /\ writing = Done
  BY DEF Running
<1>2. /\ image' = image /\ seen' = seen /\ code' = code /\ catalog' = catalog /\ safe' = safe
      /\ local' = local /\ torn' = torn /\ refusal' = refusal /\ writing' = writing
      /\ queue' = Tail(queue)
  BY DEF Pass
<1>3. FilesAreFiles'
  BY <1>0, <1>2 DEF FilesAreFiles
<1>4. QueueIsRest' /\ \A u : HasRun(u)' => HasRun(u) \/ u = t
  BY <1>0, <1>1, <1>2, NextInQueue
<1>5. WorldIsKnown'
  BY <1>0, <1>1, <1>2 DEF WorldIsKnown
<1>6. InputsStay'
  BY <1>0, <1>2 DEF InputsStay, InputsOf, Begun, Whole
<1>7. WritingIsOwn'
  BY <1>1, <1>2 DEF WritingIsOwn
<1>8. PairsAreWhole'
  BY <1>0, <1>2 DEF PairsAreWhole
<1>9. \A u \in Tools : Left(u) => Left(u)'
  BY <1>2 DEF Left, DecodeReady, Whole, DecodeIsNew, Names, DecodeTexts, Decodable, Nonempty,
              Complete, Payloads, SameFuzzy, SameGroup, SameTexts
<1>10. StageIsFit'
  BY <1>0, <1>4, <1>9 DEF StageIsFit
<1>11. RefusalIsKnown'
  BY <1>0, <1>1, <1>2 DEF RefusalIsKnown
<1> QED BY <1>3, <1>4, <1>5, <1>6, <1>7, <1>8, <1>10, <1>11 DEF Inv

\* A tool ends the stage.
LEMMA RefuseKeeps ==
  ASSUME Inv, NEW t \in Tools, Running(t), NEW over, Refuse(t, over),
         over = "files" =>
             \/ t = "runtime" /\ Complete(safe["extract"].seen)
             \/ t = "quality" /\ "corpus" \in torn /\ DecodeTexts(local["decode"]) = {}
             \/ t = "script" /\ Ambiguous(GroupTexts(local["text"]))
  PROVE  Inv'
<1>0. /\ FilesAreFiles /\ QueueIsRest /\ WorldIsKnown /\ InputsStay /\ WritingIsOwn
      /\ PairsAreWhole /\ StageIsFit /\ RefusalIsKnown
  BY DEF Inv
<1>1. queue # <<>> /\ t = Head(queue) /\ writing = Done
  BY DEF Running
<1>2. /\ image' = image /\ seen' = seen /\ code' = code /\ catalog' = catalog /\ safe' = safe
      /\ local' = local /\ torn' = torn /\ writing' = writing /\ queue' = <<>>
      /\ refusal' = [tool |-> t, over |-> over]
  BY DEF Refuse
<1>3. FilesAreFiles'
  BY <1>0, <1>2 DEF FilesAreFiles
<1>4. QueueIsRest'
  BY <1>2, ChainPlaces DEF QueueIsRest
<1>5. WorldIsKnown'
  BY <1>0, <1>2 DEF WorldIsKnown
<1>6. InputsStay'
  BY <1>0, <1>2 DEF InputsStay, InputsOf, Begun, Whole
<1>7. WritingIsOwn'
  BY <1>1, <1>2 DEF WritingIsOwn
<1>8. PairsAreWhole'
  BY <1>0, <1>2 DEF PairsAreWhole
<1>9. StageIsFit'
  BY <1>2 DEF StageIsFit, HasRun
<1>10. refusal'.tool = t /\ refusal'.over = over
  BY <1>2
<1>11. /\ Complete(safe["extract"].seen) => Complete(safe["extract"].seen)'
       /\ DecodeTexts(local["decode"]) = {} => DecodeTexts(local["decode"])' = {}
       /\ Ambiguous(GroupTexts(local["text"])) => Ambiguous(GroupTexts(local["text"]))'
  BY <1>2, GroundsStay
<1>12. RefusalIsKnown'
  BY <1>2, <1>10, <1>11 DEF RefusalIsKnown, FilesOfAStageAgree
<1> QED BY <1>3, <1>4, <1>5, <1>6, <1>7, <1>8, <1>9, <1>12 DEF Inv

\* The decode of an earlier stage is kept: its private file is written first.
LEMMA ReuseKeeps ==
  ASSUME Inv, Running("decode"), DecodeReady, Reusable,
         writing' = [tool |-> "decode", side |-> "safe",
                     file |-> [local["decode"] EXCEPT !.named = catalog,
                                                     !.from = {"population", "visible"}]],
         UNCHANGED <<image, seen, captures, code, catalog, safe, local, queue, refusal, kills, torn>>
  PROVE  Inv'
<1>0. /\ FilesAreFiles /\ QueueIsRest /\ WorldIsKnown /\ InputsStay /\ WritingIsOwn
      /\ PairsAreWhole /\ StageIsFit /\ RefusalIsKnown
  BY DEF Inv
<1>1. queue # <<>> /\ "decode" = Head(queue) /\ writing = Done
  BY DEF Running
<1>2. /\ image' = image /\ seen' = seen /\ code' = code /\ catalog' = catalog /\ safe' = safe
      /\ local' = local /\ torn' = torn /\ refusal' = refusal /\ queue' = queue
  OBVIOUS
<1>3. PICK f : f = [local["decode"] EXCEPT !.named = catalog, !.from = {"population", "visible"}]
  OBVIOUS
<1>4. writing'.tool = "decode" /\ writing'.side = "safe" /\ writing'.file = f
  BY <1>3
<1>5. IsFile(local["decode"])
  BY <1>0, ToolNames DEF FilesAreFiles
<1>6. f = [seen |-> local["decode"].seen, pages |-> local["decode"].pages,
           catalog |-> local["decode"].catalog, named |-> catalog, code |-> local["decode"].code,
           from |-> {"population", "visible"}]
  BY <1>3, <1>5 DEF IsFile
<1>7. /\ f.seen = local["decode"].seen /\ f.pages = local["decode"].pages
      /\ f.catalog = local["decode"].catalog /\ f.named = catalog
      /\ f.code = local["decode"].code /\ f.from = {"population", "visible"}
  BY <1>6
<1>8. IsFile(f) /\ SameTexts(f, local["decode"])
  BY <1>6, <1>7 DEF IsFile, SameTexts
<1>9. Whole("decode") /\ safe["decode"].named = catalog
         /\ local["decode"].pages = local["visible"].pages
  BY DEF Reusable, Exist, Whole
<1>10. writing.tool # "decode"
  BY <1>1, NoFileIsNone
<1>11. DecodeIsNew
  BY <1>0, <1>9, <1>10 DEF PairsAreWhole, DecodeIsNew
<1>12. FilesAreFiles'
  BY <1>0, <1>2 DEF FilesAreFiles
<1>13. QueueIsRest'
  BY <1>0, <1>2 DEF QueueIsRest, Place
<1>14. WorldIsKnown'
  BY <1>0, <1>2 DEF WorldIsKnown
<1>15. InputsStay'
  BY <1>0, <1>2 DEF InputsStay, InputsOf, Begun, Whole
<1>16. WritingIsOwn'
  <2>1. f.code # 0
    BY <1>7, <1>9 DEF Whole
  <2>2. Whole("decode")' /\ DecodeIsNew' /\ SameTexts(f, local'["decode"])
    BY <1>2, <1>8, <1>9, <1>11 DEF Whole, DecodeIsNew
  <2> QED BY <1>1, <1>2, <1>4, <1>7, <1>8, <1>9, <2>1, <2>2 DEF WritingIsOwn
<1>17. PairsAreWhole'
  <2>1. writing.tool # "corpus" /\ writing'.tool = "decode"
    BY <1>1, <1>4, NoFileIsNone
  <2> QED BY <1>0, <1>2, <2>1 DEF PairsAreWhole
<1>18. StageIsFit'
  <2>1. \A u : Left(u) => Left(u)'
    BY <1>2 DEF Left, DecodeReady, Whole, DecodeIsNew, Names, DecodeTexts, Decodable, Nonempty,
                Complete, Payloads, SameFuzzy, SameGroup, SameTexts
  <2>2. \A u : HasRun(u)' => HasRun(u)
    BY <1>2 DEF HasRun, Place
  <2> QED BY <1>0, <2>1, <2>2 DEF StageIsFit
<1>19. RefusalIsKnown'
  BY <1>0, <1>1, <1>2 DEF RefusalIsKnown
<1> QED BY <1>12, <1>13, <1>14, <1>15, <1>16, <1>17, <1>18, <1>19 DEF Inv

\* The running tool writes its second file.
LEMMA SecondKeeps ==
  ASSUME Inv, WriteSecond
  PROVE  Inv'
<1>0. /\ FilesAreFiles /\ QueueIsRest /\ WorldIsKnown /\ InputsStay /\ WritingIsOwn
      /\ PairsAreWhole /\ StageIsFit /\ RefusalIsKnown
  BY DEF Inv
<1>1. PICK t : t = writing.tool
  OBVIOUS
<1>2. PICK f : f = writing.file
  OBVIOUS
<1>3. /\ image' = image /\ seen' = seen /\ code' = code /\ catalog' = catalog
      /\ torn' = torn /\ refusal' = refusal /\ queue' = Tail(queue) /\ writing' = Done
      /\ writing # Done
  BY DEF WriteSecond
<1>4. queue # <<>> /\ t = Head(queue) /\ IsFile(f) /\ f.code # 0
  BY <1>0, <1>1, <1>2, <1>3 DEF WritingIsOwn
<1>5. t \in Tools
  BY <1>0, <1>4, HeadOfQueue
<1>6. \A u \in Tools : IsFile(safe[u]) /\ IsFile(local[u])
  BY <1>0 DEF FilesAreFiles
<1>7. DOMAIN safe = Tools /\ DOMAIN local = Tools
  BY <1>0 DEF FilesAreFiles
<1>8. \/ writing.side = "local" /\ safe[t] = f /\ Fits(t, f)
      \/ /\ writing.side = "safe" /\ t = "decode" /\ Whole(t)
         /\ SameTexts(f, local[t]) /\ f.named = catalog /\ safe[t].named = catalog
         /\ DecodeIsNew
  BY <1>0, <1>1, <1>2, <1>3 DEF WritingIsOwn
<1>9. InputsOf(t)
  <2>1. Begun(t)
    BY <1>4, <1>8 DEF Begun, Whole
  <2> QED BY <1>0, <1>5, <2>1 DEF InputsStay
<1>10. Wrote(t) /\ Left(t)' /\ (t = "decode" => safe'[t].named = local'[t].catalog \/ "decode" \in torn)
         /\ (t = "corpus" => SameTexts(safe'[t], local'[t]) /\ safe'[t].code = local'[t].code)
  <2>1. CASE writing.side = "local"
    <3>1. safe[t] = f /\ Fits(t, f)
      BY <1>8, <2>1
    <3>2. safe' = safe /\ local' = [local EXCEPT ![t] = f]
      BY <1>1, <1>2, <2>1 DEF WriteSecond
    <3>3. Rewritten(local, local', t) /\ local'[t] = f
      BY <1>4, <1>5, <1>6, <1>7, <3>2, SecondFiles
    <3>4. Rewritten(safe, safe', t) /\ safe'[t] = f
      BY <1>6, <1>7, <3>1, <3>2, SameFiles
    <3>5. Wrote(t)
      BY <1>3, <3>3, <3>4 DEF Wrote
    <3>6. SameTexts(safe'[t], local'[t]) /\ safe'[t].code = local'[t].code
             /\ safe'[t].seen = local'[t].seen
      BY <3>3, <3>4 DEF SameTexts
    <3>7. t = "decode" => Whole(t)' /\ DecodeIsNew' /\ safe'[t].named = local'[t].catalog
      <4>1. t = "decode" => local'["visible"].pages = local["visible"].pages
        BY <3>5, OthersAreTheSame, ToolNames
      <4> QED BY <1>3, <1>4, <3>1, <3>3, <3>4, <4>1 DEF Fits, Whole, DecodeIsNew
    <3>8. t = "runtime" => Names(t, "extract")' /\ Names(t, "context")' /\ Names("context", "extract")'
      <4>1. t = "runtime" /\ Names("context", "extract") => Names("context", "extract")'
        BY <3>5, OthersAreTheSame, ToolNames DEF Names
      <4> QED BY <3>1, <3>3, <3>4, <4>1 DEF Fits, Names
    <3>9. t = "context" => Names(t, "extract")'
      BY <3>1, <3>3, <3>4 DEF Fits, Names
    <3>10. /\ t = "expanded" => "decode" \in safe'[t].from
           /\ t = "nonHangul" => "expanded" \in safe'[t].from
           /\ t = "delta" => "extract" \in safe'[t].from
           /\ t = "fuzzy" => "text" \in safe'[t].from
      BY <3>1, <3>4 DEF Fits
    <3>13. t = "fuzzy" => SameFuzzy(safe[t], local[t])' /\ SameGroup(safe[t], local["text"])'
      <4>1. t = "fuzzy" /\ SameGroup(f, local["text"]) => SameGroup(f, local'["text"])
        BY <3>5, OthersAreTheSame, ToolNames DEF SameGroup, SameTexts
      <4> QED BY <3>1, <3>4, <3>6, <4>1 DEF Fits, SameFuzzy, SameGroup, SameTexts
    <3>11. SameTexts(safe[t], local[t])'
      BY <3>6 DEF SameTexts
    <3>12. Left(t)'
      BY <3>6, <3>7, <3>8, <3>9, <3>10, <3>11, <3>13 DEF Left
    <3> QED BY <3>5, <3>6, <3>7, <3>12
  <2>2. CASE writing.side # "local"
    <3>1. /\ t = "decode" /\ Whole(t) /\ SameTexts(f, local[t]) /\ f.named = catalog
          /\ DecodeIsNew
      BY <1>8, <2>2
    <3>2. safe' = Replace(safe, t, f) /\ local' = Stale(local, t)
      BY <1>1, <1>2, <2>2 DEF WriteSecond
    <3>3. Rewritten(safe, safe', t) /\ safe'[t] = f
      BY <1>4, <1>5, <1>6, <3>2, ReplacedFiles
    <3>4. Rewritten(local, local', t) /\ Renamed(local[t], local'[t], t)
      BY <1>5, <1>6, <3>2, StaleFiles
    <3>5. Wrote(t)
      BY <1>3, <3>3, <3>4 DEF Wrote
    <3>6. local'["visible"].pages = local["visible"].pages
      BY <1>5, <3>1, <3>5, OthersAreTheSame, ToolNames
    <3>7. Whole(t)'
      BY <1>5, <3>1, <3>5, OthersAreThere
    <3>8. local'[t].pages = local[t].pages /\ local'[t].catalog = local[t].catalog
      BY <3>4 DEF Renamed
    <3>9. SameTexts(safe[t], local[t])'
      BY <3>1, <3>3, <3>8 DEF SameTexts
    <3>10. DecodeIsNew'
      BY <1>3, <3>1, <3>6, <3>8 DEF DecodeIsNew
    <3>11. safe'[t].named = local'[t].catalog \/ "decode" \in torn
      BY <3>1, <3>3, <3>8 DEF DecodeIsNew
    <3>12. Left(t)'
      BY <3>1, <3>7, <3>9, <3>10 DEF Left
    <3> QED BY <3>1, <3>5, <3>11, <3>12
  <2> QED BY <2>1, <2>2
<1>11. FilesAreFiles'
  BY <1>0, <1>3, <1>10 DEF FilesAreFiles, Wrote, Rewritten
<1>12. QueueIsRest' /\ \A u : HasRun(u)' => HasRun(u) \/ u = t
  BY <1>0, <1>3, <1>4, NextInQueue
<1>13. WorldIsKnown'
  BY <1>0, <1>3, <1>4 DEF WorldIsKnown
<1>14. InputsStay'
  BY <1>0, <1>5, <1>9, <1>10, InputsKept
<1>15. WritingIsOwn'
  BY <1>3 DEF WritingIsOwn
<1>16. PairsAreWhole'
  BY <1>0, <1>1, <1>5, <1>10, PairsKept
<1>17. StageIsFit'
  BY <1>0, <1>4, <1>5, <1>10, <1>12, LeftKept DEF StageIsFit
<1>18. RefusalIsKnown'
  BY <1>0, <1>3, <1>4 DEF RefusalIsKnown
<1> QED BY <1>11, <1>12, <1>13, <1>14, <1>15, <1>16, <1>17, <1>18 DEF Inv

-----------------------------------------------------------------------------
(* Around the stage *)

\* The stage ends and starts over: nothing has run, nothing is being written.
LEMMA BetweenStages ==
  ASSUME Inv, image' = image, safe' = safe, local' = local,
         seen' = seen \/ seen' # NotSeen,
         code' \in Nat \ {0},
         \/ queue' = <<>>
         \/ queue' = Chain /\ (seen' # NotSeen => catalog' # 0),
         writing' = Done, PairsAreWhole',
         refusal'.over = "files" => /\ queue' = <<>> /\ torn' = torn /\ refusal' = refusal
  PROVE  Inv'
<1>0. /\ FilesAreFiles /\ QueueIsRest /\ WorldIsKnown /\ InputsStay /\ WritingIsOwn
      /\ PairsAreWhole /\ StageIsFit /\ RefusalIsKnown
  BY DEF Inv
<1>1. image' = image /\ safe' = safe /\ local' = local
  OBVIOUS
<1>2. FilesAreFiles'
  BY <1>0 DEF FilesAreFiles
<1>3. QueueIsRest' /\ \A u : ~HasRun(u)'
  <2>1. CASE queue' = <<>>
    BY <2>1, ChainPlaces DEF QueueIsRest, HasRun
  <2>2. CASE queue' = Chain
    <3>1. Place' = 1
      BY <2>2, ChainPlaces DEF Place
    <3>2. \A k \in DOMAIN queue' : queue'[k] = Chain[Place' + k - 1]
      BY <2>2, <3>1, ChainPlaces
    <3>3. queue' \in Seq(Tools) /\ Len(queue') <= Len(Chain)
      BY <2>2, ChainPlaces
    <3>4. \A u : ~HasRun(u)'
      BY <3>1 DEF HasRun
    <3> QED BY <3>2, <3>3, <3>4 DEF QueueIsRest
  <2> QED BY <2>1, <2>2
<1>4. WorldIsKnown'
  BY <1>0, <1>1 DEF WorldIsKnown
<1>5. InputsStay'
  <2> SUFFICES ASSUME NEW u \in Tools, Begun(u)' PROVE InputsOf(u)'
    BY DEF InputsStay
  <2>1. InputsOf(u)
    BY <1>0, <1>1 DEF InputsStay, Begun
  <2>2. seen # NotSeen => seen' # NotSeen
    OBVIOUS
  <2> QED BY <1>1, <2>1, <2>2 DEF InputsOf, Whole
<1>6. WritingIsOwn'
  BY DEF WritingIsOwn
<1>8. StageIsFit'
  BY <1>3 DEF StageIsFit
<1>9. RefusalIsKnown'
  <2> SUFFICES ASSUME refusal'.over = "files" PROVE queue' = <<>> /\ FilesOfAStageAgree'
    BY DEF RefusalIsKnown
  <2>1. queue' = <<>> /\ torn' = torn /\ refusal' = refusal
    OBVIOUS
  <2>2. FilesOfAStageAgree
    BY <1>0, <2>1 DEF RefusalIsKnown
  <2>3. /\ Complete(safe["extract"].seen) => Complete(safe["extract"].seen)'
        /\ DecodeTexts(local["decode"]) = {} => DecodeTexts(local["decode"])' = {}
        /\ Ambiguous(GroupTexts(local["text"])) => Ambiguous(GroupTexts(local["text"]))'
    BY <1>1, GroundsStay
  <2> QED BY <2>1, <2>2, <2>3 DEF FilesOfAStageAgree
<1> QED BY <1>2, <1>3, <1>4, <1>5, <1>6, <1>8, <1>9 DEF Inv

LEMMA NothingWrittenBetween ==
  ASSUME Inv, queue = <<>>
  PROVE  /\ writing = Done /\ code \in Nat \ {0}
         /\ safe' = safe /\ local' = local /\ torn' = torn /\ writing' = writing =>
                PairsAreWhole'
BY DEF Inv, WritingIsOwn, FilesAreFiles, PairsAreWhole

LEMMA RefusalEndsStage ==
  ASSUME Inv, queue # <<>>
  PROVE  refusal.over # "files"
BY DEF Inv, RefusalIsKnown

LEMMA StartKeeps ==
  ASSUME Inv, StartStage
  PROVE  Inv'
<1>1. /\ image' = image /\ safe' = safe /\ local' = local /\ seen' = seen /\ code' = code
      /\ torn' = torn /\ writing' = writing /\ queue = <<>> /\ queue' = Chain
      /\ refusal' = NoRefusal
      /\ catalog' = IF catalog = 0 /\ seen # NotSeen THEN code ELSE catalog
  BY DEF StartStage
<1>2. writing' = Done /\ code' \in Nat \ {0} /\ PairsAreWhole'
  BY <1>1, NothingWrittenBetween
<1>3. refusal'.over # "files"
  BY <1>1 DEF NoRefusal
<1>4. seen' # NotSeen => catalog' # 0
  BY <1>1, <1>2
<1> QED BY <1>1, <1>2, <1>3, <1>4, BetweenStages

LEMMA CaptureKeeps ==
  ASSUME Inv, Capture
  PROVE  Inv'
<1>1. PICK s \in Drawable(image) : seen' = s
  BY DEF Capture
<1>2. s.selector \in DOMAIN image.table
  BY <1>1 DEF Drawable, ValidSelectors
<1>3. image \in Images
  BY DEF Inv, WorldIsKnown
<1>4. s.selector \in Nat
  BY <1>2, <1>3, ImagesAssumption DEF IsImage
<1>5. NotSeen.selector = -1
  BY DEF NotSeen
<1>6. seen' # NotSeen
  BY <1>1, <1>4, <1>5
<1>7. /\ image' = image /\ safe' = safe /\ local' = local /\ code' = code
      /\ torn' = torn /\ writing' = writing /\ queue = <<>> /\ queue' = <<>>
      /\ refusal' = refusal
  BY DEF Capture
<1>8. writing' = Done /\ code' \in Nat \ {0} /\ PairsAreWhole'
  BY <1>7, NothingWrittenBetween
<1> QED BY <1>6, <1>7, <1>8, BetweenStages

LEMMA UpdateKeeps ==
  ASSUME Inv, Update
  PROVE  Inv'
<1>7. /\ image' = image /\ safe' = safe /\ local' = local /\ seen' = seen /\ code' = code + 1
      /\ torn' = torn /\ writing' = writing /\ queue = <<>> /\ queue' = <<>>
      /\ refusal' = refusal
  BY DEF Update
<1>8. writing' = Done /\ code' \in Nat \ {0} /\ PairsAreWhole'
  BY <1>7, NothingWrittenBetween
<1> QED BY <1>7, <1>8, BetweenStages

LEMMA LoseCatalogKeeps ==
  ASSUME Inv, LoseCatalog
  PROVE  Inv'
<1>7. /\ image' = image /\ safe' = safe /\ local' = local /\ seen' = seen /\ code' = code
      /\ torn' = torn /\ writing' = writing /\ queue = <<>> /\ queue' = <<>>
      /\ refusal' = refusal
  BY DEF LoseCatalog
<1>8. writing' = Done /\ code' \in Nat \ {0} /\ PairsAreWhole'
  BY <1>7, NothingWrittenBetween
<1> QED BY <1>7, <1>8, BetweenStages

\* A kill parts the two files of a tool, and is kept in mind.
LEMMA KillKeeps ==
  ASSUME Inv, Kill
  PROVE  Inv'
<1>1. /\ queue' = <<>> /\ writing' = Done /\ refusal' = refusal /\ safe' = safe /\ local' = local
      /\ image' = image /\ seen' = seen /\ code' = code /\ catalog' = catalog /\ queue # <<>>
      /\ torn' = IF writing.side = "local" THEN torn \cup ({writing.tool} \cap {"decode", "corpus"})
                 ELSE torn
  BY DEF Kill
<1>2. refusal'.over # "files" /\ code' \in Nat \ {0}
  BY <1>1, RefusalEndsStage DEF Inv, FilesAreFiles
<1>3. PairsAreWhole'
  <2>1. PairsAreWhole
    BY DEF Inv
  <2>2. writing # Done =>
            \/ writing.side = "local"
            \/ /\ writing.side = "safe" /\ writing.tool = "decode"
               /\ safe["decode"].named = catalog /\ DecodeIsNew
    BY DEF Inv, WritingIsOwn
  <2>3. ASSUME "decode" \notin torn'
        PROVE  safe'["decode"].named = local'["decode"].catalog
    <3>1. "decode" \notin torn
      BY <1>1, <2>3
    <3>2. CASE writing = Done \/ writing.tool # "decode"
      BY <1>1, <2>1, <3>1, <3>2, NoFileIsNone DEF PairsAreWhole
    <3>3. CASE writing # Done /\ writing.tool = "decode"
      <4>1. writing.side # "local"
        BY <1>1, <2>3, <3>3
      <4> QED BY <1>1, <2>2, <3>1, <3>3, <4>1 DEF DecodeIsNew
    <3> QED BY <3>2, <3>3
  <2>4. ASSUME "corpus" \notin torn'
        PROVE  SameTexts(safe'["corpus"], local'["corpus"])
                   /\ safe'["corpus"].code = local'["corpus"].code
    <3>1. "corpus" \notin torn
      BY <1>1, <2>4
    <3>2. writing.tool # "corpus"
      <4>1. CASE writing = Done
        BY <4>1, NoFileIsNone
      <4>2. CASE writing # Done /\ writing.side = "local"
        BY <1>1, <2>4, <4>2
      <4>3. CASE writing # Done /\ writing.side # "local"
        BY <2>2, <4>3
      <4> QED BY <4>1, <4>2, <4>3
    <3> QED BY <1>1, <2>1, <3>1, <3>2 DEF PairsAreWhole
  <2> QED BY <2>3, <2>4 DEF PairsAreWhole, SameTexts
<1> QED BY <1>1, <1>2, <1>3, BetweenStages

LEMMA InitHolds ==
  ASSUME Init
  PROVE  Inv
<1>1. /\ image \in Images /\ seen = NotSeen /\ code = 1 /\ catalog = 0
      /\ safe = [t \in Tools |-> Missing] /\ local = [t \in Tools |-> Missing]
      /\ queue = <<>> /\ writing = Done /\ refusal = NoRefusal
  BY DEF Init
<1>2. /\ IsFile(Missing) /\ Missing.code = 0 /\ Missing.pages = {} /\ Missing.catalog = 0
      /\ Missing.named = 0
  BY DEF Missing, IsFile
<1>3. FilesAreFiles
  BY <1>1, <1>2 DEF FilesAreFiles
<1>4. QueueIsRest /\ StageIsFit
  BY <1>1, ChainPlaces DEF QueueIsRest, StageIsFit, HasRun
<1>5. WorldIsKnown
  BY <1>1 DEF WorldIsKnown
<1>6. InputsStay
  BY <1>1, <1>2 DEF InputsStay, Begun
<1>7. WritingIsOwn
  BY <1>1 DEF WritingIsOwn
<1>8. PairsAreWhole
  BY <1>1, <1>2, ToolNames DEF PairsAreWhole, SameTexts
<1>9. RefusalIsKnown
  BY <1>1 DEF RefusalIsKnown, NoRefusal
<1> QED BY <1>3, <1>4, <1>5, <1>6, <1>7, <1>8, <1>9 DEF Inv

-----------------------------------------------------------------------------
(* The tools *)

LEMMA MadeIsFile ==
  ASSUME Inv, NEW of, NEW pages, NEW from, NEW f, f = Made(of, pages, from)
  PROVE  /\ IsFile(f) /\ f.code # 0
         /\ f.seen = of /\ f.pages = pages /\ f.from = from
         /\ f.catalog = catalog /\ f.named = catalog
<1>1. code # 0
  BY DEF Inv, FilesAreFiles
<1>2. f = [seen |-> of, pages |-> pages, catalog |-> catalog, named |-> catalog,
           code |-> code, from |-> from]
  BY DEF Made
<1> QED BY <1>1, <1>2 DEF IsFile

LEMMA CopyFromIsFile ==
  ASSUME NEW f, IsFile(f), NEW from, NEW g, g = [f EXCEPT !.from = from]
  PROVE  IsFile(g) /\ g.code = f.code /\ g.from = from
<1>1. f = [seen |-> f.seen, pages |-> f.pages, catalog |-> f.catalog,
           named |-> f.named, code |-> f.code, from |-> f.from]
  BY DEF IsFile
<1>2. g = [seen |-> f.seen, pages |-> f.pages, catalog |-> f.catalog,
           named |-> f.named, code |-> f.code, from |-> from]
  BY <1>1
<1> QED BY <1>2 DEF IsFile

\* What a file says of the files it was made of
LEMMA MadeOf ==
  ASSUME Inv
  PROVE  /\ \A t \in Tools : Whole(t) => Begun(t)
         /\ \A t \in Tools : IsFile(safe[t]) /\ IsFile(local[t])
         /\ Begun("visible") => seen # NotSeen
         /\ Begun("extract") => seen # NotSeen
         /\ Begun("decode") => Whole("population") /\ Whole("visible")
         /\ Begun("expanded") => Whole("decode")
         /\ Begun("nonHangul") => Whole("expanded")
         /\ Begun("corpus") => Whole("nonHangul")
         /\ Begun("context") => Whole("extract")
         /\ Begun("runtime") => Whole("context")
         /\ Begun("delta") => image.source # <<>> /\ Whole("runtime")
         /\ Begun("text") => Whole("context") /\ Whole("visible") /\ safe["delta"].code # 0
         /\ Begun("fuzzy") => Whole("text")
         /\ safe["delta"].code # 0 => Begun("delta")
<1>1. \A t \in Tools : Begun(t) => InputsOf(t)
  BY DEF Inv, InputsStay
<1>2. \A t \in Tools : IsFile(safe[t]) /\ IsFile(local[t])
  BY DEF Inv, FilesAreFiles
<1> QED BY <1>1, <1>2, ToolNames DEF InputsOf, Whole, Begun

LEMMA CatalogIsThere ==
  ASSUME Inv, queue # <<>>, Whole("visible")
  PROVE  catalog # 0
<1>1. seen # NotSeen
  BY MadeOf, ToolNames
<1> QED BY <1>1 DEF Inv, WorldIsKnown

\* What has run fits.
LEMMA LeftBy ==
  ASSUME Inv
  PROVE  /\ QueueIsRest /\ \A t \in Tools : HasRun(t) => Left(t)
BY DEF Inv, StageIsFit

LEMMA RunningIs ==
  ASSUME NEW t, Running(t)
  PROVE  queue # <<>> /\ Head(queue) = t /\ writing = Done
BY DEF Running

\* The tools of which nothing but their presence is asked
Plain == {"visible", "extract", "usage", "stream", "population", "quality", "script", "unicode"}

LEMMA PlainTools ==
  ASSUME Inv, NEW t \in Plain
  PROVE  /\ t \in Tools /\ Left(t) /\ \A f : Fits(t, f)
         /\ t \notin {"visible", "extract"} => InputsOf(t)
         /\ t \in {"visible", "extract"} /\ seen # NotSeen => InputsOf(t)
BY ToolNames DEF Plain, Left, Fits, InputsOf

\* A plain tool that does not refuse over files
LEMMA PlainKeeps ==
  ASSUME Inv, NEW t \in Plain, Running(t), NEW f,
         \/ Pass
         \/ Refuse(t, "records")
         \/ Publish(t, f) /\ IsFile(f) /\ f.code # 0 /\ InputsOf(t)
  PROVE  Inv'
<1>1. CASE Pass
  BY <1>1, PlainTools, PassKeeps
<1>2. CASE Refuse(t, "records")
  BY <1>2, PlainTools, RefuseKeeps
<1>3. CASE Publish(t, f) /\ IsFile(f) /\ f.code # 0 /\ InputsOf(t)
  BY <1>3, PlainTools, PublishKeeps
<1> QED BY <1>1, <1>2, <1>3

LEMMA VisibleKeeps ==
  ASSUME Inv, Visible
  PROVE  Inv'
<1>1. PICK f : f = Made(seen, InitialPages(VisibleSymbols, Font(catalog)), {})
  OBVIOUS
<1>2. IsFile(f) /\ f.code # 0
  BY <1>1, MadeIsFile
<1>3. /\ Running("visible")
      /\ \/ Pass
         \/ Refuse("visible", "records")
         \/ seen # NotSeen /\ Publish("visible", f)
  BY <1>1 DEF Visible, Tool
<1>4. "visible" \in Plain
  BY DEF Plain
<1>5. seen # NotSeen => InputsOf("visible")
  BY <1>4, PlainTools
<1> QED BY <1>2, <1>3, <1>4, <1>5, PlainKeeps

LEMMA ExtractKeeps ==
  ASSUME Inv, Extract
  PROVE  Inv'
<1>1. PICK f : f = ExtractFile
  OBVIOUS
<1>2. IsFile(f) /\ f.code # 0
  BY <1>1, MadeIsFile DEF ExtractFile
<1>3. /\ Running("extract")
      /\ \/ Pass
         \/ Refuse("extract", "records")
         \/ seen # NotSeen /\ Publish("extract", f)
  BY <1>1 DEF Extract, Tool
<1>4. "extract" \in Plain
  BY DEF Plain
<1>5. seen # NotSeen => InputsOf("extract")
  BY <1>4, PlainTools
<1> QED BY <1>2, <1>3, <1>4, <1>5, PlainKeeps

LEMMA UsageKeeps ==
  ASSUME Inv, Usage
  PROVE  Inv'
<1>1. PICK f : f = Made(seen, {}, {})
  OBVIOUS
<1>2. IsFile(f) /\ f.code # 0
  BY <1>1, MadeIsFile
<1>3. Running("usage") /\ Publish("usage", f)
  BY <1>1 DEF Usage, Tool
<1>4. "usage" \in Plain
  BY DEF Plain
<1>5. InputsOf("usage")
  BY <1>4, PlainTools
<1> QED BY <1>2, <1>3, <1>4, <1>5, PlainKeeps

LEMMA StreamMapKeeps ==
  ASSUME Inv, StreamMap
  PROVE  Inv'
<1>1. PICK f : f = StreamMapFile
  OBVIOUS
<1>2. IsFile(f) /\ f.code # 0
  BY <1>1, MadeIsFile DEF StreamMapFile
<1>3. /\ Running("stream")
      /\ \/ Pass
         \/ Refuse("stream", "records")
         \/ Publish("stream", f)
  BY <1>1 DEF StreamMap, Tool
<1>4. "stream" \in Plain
  BY DEF Plain
<1>5. InputsOf("stream")
  BY <1>4, PlainTools
<1> QED BY <1>2, <1>3, <1>4, <1>5, PlainKeeps

LEMMA PopulateKeeps ==
  ASSUME Inv, Populate
  PROVE  Inv'
<1>1. PICK f : f = PopulationFile
  OBVIOUS
<1>2. IsFile(f) /\ f.code # 0
  BY <1>1, MadeIsFile DEF PopulationFile
<1>3. Running("population") /\ (Pass \/ Publish("population", f))
  BY <1>1 DEF Populate, Tool
<1>4. "population" \in Plain
  BY DEF Plain
<1>5. InputsOf("population")
  BY <1>4, PlainTools
<1> QED BY <1>2, <1>3, <1>4, <1>5, PlainKeeps

LEMMA DecodeKeeps ==
  ASSUME Inv, PopulationDecode
  PROVE  Inv'
<1>1. CASE Running("decode") /\ DecodeReady /\ Reusable
  <2>1. CASE ~(DecodeReady /\ Reusable)
    BY <1>1, <2>1
  <2>2. CASE DecodeReady /\ Reusable
    BY <1>1, <2>2, ReuseKeeps DEF PopulationDecode
  <2> QED BY <2>1, <2>2
<1>2. CASE Tool("decode", ~DecodeReady, FALSE, DecodeUnfit, DecodeFile) /\ ~(DecodeReady /\ Reusable)
  <2>1. PICK f : f = DecodeFile
    OBVIOUS
  <2>2. /\ IsFile(f) /\ f.code # 0 /\ f.pages = local["visible"].pages
        /\ f.catalog = catalog /\ f.named = catalog
    BY <2>1, MadeIsFile DEF DecodeFile
  <2>3. /\ Running("decode")
        /\ \/ ~DecodeReady /\ Pass
           \/ Refuse("decode", "records")
           \/ DecodeReady /\ Publish("decode", f)
    BY <1>2, <2>1 DEF Tool
  <2>4. CASE ~DecodeReady /\ Pass
    <3>1. Left("decode")
      BY <2>4 DEF Left
    <3> QED BY <2>3, <2>4, <3>1, PassKeeps, ToolNames
  <2>5. CASE Refuse("decode", "records")
    BY <2>3, <2>5, RefuseKeeps, ToolNames
  <2>6. CASE DecodeReady /\ Publish("decode", f)
    <3>1. InputsOf("decode")
      BY <2>6 DEF InputsOf, DecodeReady, Exist, Whole
    <3>2. Fits("decode", f)
      BY <2>2 DEF Fits
    <3> QED BY <2>2, <2>3, <2>6, <3>1, <3>2, PublishKeeps, ToolNames
  <2> QED BY <2>3, <2>4, <2>5, <2>6
<1> QED BY <1>1, <1>2 DEF PopulationDecode

\* The decode of this stage is through: the two files agree.
LEMMA ExpandedKeeps ==
  ASSUME Inv, Expanded
  PROVE  Inv'
<1>1. PICK f : f = ExpandedFile
  OBVIOUS
<1>2. PICK made : made = Made(seen, local["decode"].pages, {"decode"})
  OBVIOUS
<1>3. IsFile(f) /\ f.code # 0 /\ f.from = {"decode"}
  <2>1. IsFile(made) /\ made.code # 0 /\ made.from = {"decode"}
    BY <1>2, MadeIsFile
  <2>2. f = [made EXCEPT !.catalog = local["decode"].catalog]
    BY <1>1, <1>2 DEF ExpandedFile
  <2>3. f = [seen |-> made.seen, pages |-> made.pages, catalog |-> local["decode"].catalog,
             named |-> made.named, code |-> made.code, from |-> made.from]
    BY <2>1, <2>2 DEF IsFile
  <2> QED BY <2>1, <2>3 DEF IsFile
<1>4. /\ Running("expanded")
      /\ \/ ~Whole("decode") /\ Pass
         \/ /\ Whole("decode") /\ Counted(safe["decode"]) # Counted(local["decode"])
            /\ Refuse("expanded", "files")
         \/ Whole("decode") /\ Publish("expanded", f)
  BY <1>1 DEF Expanded, Tool, Exist, Whole
<1>5. CASE ~Whole("decode") /\ Pass
  <2>1. ~Whole("expanded")
    BY <1>5, MadeOf, ToolNames
  <2>2. Left("expanded")
    BY <2>1 DEF Left
  <2> QED BY <1>4, <1>5, <2>2, PassKeeps, ToolNames
<1>6. Whole("decode") => SameTexts(safe["decode"], local["decode"])
  <2> SUFFICES ASSUME Whole("decode") PROVE SameTexts(safe["decode"], local["decode"])
    OBVIOUS
  <2>1. queue # <<>> /\ Head(queue) = "expanded"
    BY <1>4, RunningIs
  <2>2. Whole("population") /\ Whole("visible")
    BY MadeOf, ToolNames
  <2>3. DecodeReady
    BY <2>1, <2>2, CatalogIsThere DEF DecodeReady, Exist, Whole
  <2>4. Left("decode")
    BY <2>1, RunSoFar, LeftBy, ToolNames
  <2> QED BY <2>3, <2>4 DEF Left
<1>7. ~(Whole("decode") /\ Counted(safe["decode"]) # Counted(local["decode"]))
  BY <1>6, TextsByMaking
<1>8. CASE Whole("decode") /\ Publish("expanded", f)
  <2>1. InputsOf("expanded") /\ Fits("expanded", f)
    BY <1>3, <1>8 DEF InputsOf, Fits
  <2> QED BY <1>3, <1>4, <1>8, <2>1, PublishKeeps, ToolNames
<1> QED BY <1>4, <1>5, <1>7, <1>8

LEMMA NonHangulKeeps ==
  ASSUME Inv, NonHangul
  PROVE  Inv'
<1>1. PICK f : f = NonHangulFile
  OBVIOUS
<1>2. IsFile(f) /\ f.code = local["expanded"].code /\ f.from = {"expanded"}
  <2>1. IsFile(local["expanded"])
    BY MadeOf, ToolNames
  <2>2. f = [local["expanded"] EXCEPT !.from = {"expanded"}]
    BY <1>1 DEF NonHangulFile
  <2> QED BY <2>1, <2>2, CopyFromIsFile
<1>3. /\ Running("nonHangul")
      /\ \/ ~Whole("expanded") /\ Pass
         \/ /\ Whole("expanded") /\ Counted(safe["expanded"]) # Counted(local["expanded"])
            /\ Refuse("nonHangul", "files")
         \/ Whole("expanded") /\ Publish("nonHangul", f)
  BY <1>1 DEF NonHangul, Tool, Exist, Whole
<1>4. CASE ~Whole("expanded") /\ Pass
  <2>1. ~Whole("nonHangul")
    BY <1>4, MadeOf, ToolNames
  <2>2. Left("nonHangul")
    BY <2>1 DEF Left
  <2> QED BY <1>3, <1>4, <2>2, PassKeeps, ToolNames
<1>5. ~(Whole("expanded") /\ Counted(safe["expanded"]) # Counted(local["expanded"]))
  <2>1. Left("expanded")
    BY <1>3, RunningIs, RunSoFar, LeftBy, ToolNames
  <2> QED BY <2>1, TextsByMaking DEF Left
<1>6. CASE Whole("expanded") /\ Publish("nonHangul", f)
  <2>1. InputsOf("nonHangul") /\ Fits("nonHangul", f)
    BY <1>2, <1>6 DEF InputsOf, Fits
  <2>2. f.code # 0
    BY <1>2, <1>6 DEF Whole
  <2> QED BY <1>2, <1>3, <1>6, <2>1, <2>2, PublishKeeps, ToolNames
<1> QED BY <1>3, <1>4, <1>5, <1>6

\* Without a text the corpus of an earlier stage stays, also one a kill parted.
LEMMA CorpusKeeps ==
  ASSUME Inv, Corpus
  PROVE  Inv'
<1>1. PICK f : f = CorpusFile
  OBVIOUS
<1>2. IsFile(f) /\ f.code = code
  <2>1. IsFile(local["decode"])
    BY MadeOf, ToolNames
  <2>2. f = [local["decode"] EXCEPT !.code = code, !.from = {"decode", "expanded", "nonHangul"}]
    BY <1>1 DEF CorpusFile
  <2>3. f = [seen |-> local["decode"].seen, pages |-> local["decode"].pages,
             catalog |-> local["decode"].catalog, named |-> local["decode"].named,
             code |-> code, from |-> {"decode", "expanded", "nonHangul"}]
    BY <2>1, <2>2 DEF IsFile
  <2> QED BY <2>3 DEF IsFile
<1>3. Exist(CorpusInputs) <=> Whole("decode") /\ Whole("expanded") /\ Whole("nonHangul")
  BY DEF Exist, CorpusInputs, Whole
<1>4. /\ Running("corpus")
      /\ \/ ~Exist(CorpusInputs) /\ Pass
         \/ DecodeTexts(local["decode"]) = {} /\ Pass
         \/ Exist(CorpusInputs) /\ CorpusDisagrees /\ Refuse("corpus", "files")
         \/ Refuse("corpus", "records")
         \/ Exist(CorpusInputs) /\ Publish("corpus", f)
  BY <1>1 DEF Corpus, Tool
<1>5. CASE ~Exist(CorpusInputs) /\ Pass
  <2>1. ~Whole("corpus")
    BY <1>3, <1>5, MadeOf, ToolNames
  <2>2. Left("corpus")
    BY <2>1 DEF Left
  <2> QED BY <1>4, <1>5, <2>2, PassKeeps, ToolNames
<1>6. CASE DecodeTexts(local["decode"]) = {} /\ Pass
  <2>1. writing.tool # "corpus"
    BY <1>4, RunningIs, NoFileIsNone
  <2>2. \/ SameTexts(safe["corpus"], local["corpus"]) /\ safe["corpus"].code = local["corpus"].code
        \/ "corpus" \in torn
    BY <2>1 DEF Inv, PairsAreWhole
  <2>3. Left("corpus")
    BY <1>6, <2>2 DEF Left
  <2> QED BY <1>4, <1>6, <2>3, PassKeeps, ToolNames
<1>7. ~(Exist(CorpusInputs) /\ CorpusDisagrees)
  <2>1. Left("expanded") /\ Left("nonHangul")
    BY <1>4, RunningIs, RunSoFar, LeftBy, ToolNames
  <2>2. Exist(CorpusInputs) => /\ "decode" \in safe["expanded"].from
                               /\ "expanded" \in safe["nonHangul"].from
                               /\ SameTexts(safe["nonHangul"], local["nonHangul"])
    BY <1>3, <2>1 DEF Left
  <2> QED BY <2>2, TextsByMaking DEF CorpusDisagrees
<1>8. CASE Refuse("corpus", "records")
  BY <1>4, <1>8, RefuseKeeps, ToolNames
<1>9. CASE Exist(CorpusInputs) /\ Publish("corpus", f)
  <2>1. InputsOf("corpus") /\ Fits("corpus", f)
    BY <1>3, <1>9 DEF InputsOf, Fits
  <2>2. f.code # 0
    BY <1>2 DEF Inv, FilesAreFiles
  <2> QED BY <1>2, <1>4, <1>9, <2>1, <2>2, PublishKeeps, ToolNames
<1> QED BY <1>4, <1>5, <1>6, <1>7, <1>8, <1>9

LEMMA QualityKeeps ==
  ASSUME Inv, Quality
  PROVE  Inv'
<1>1. PICK f : f = QualityFile
  OBVIOUS
<1>2. IsFile(f) /\ f.code = local["corpus"].code
  <2>1. IsFile(local["corpus"])
    BY MadeOf, ToolNames
  <2>2. f = [local["corpus"] EXCEPT !.from = {"corpus"}]
    BY <1>1 DEF QualityFile
  <2> QED BY <2>1, <2>2, CopyFromIsFile
<1>3. /\ Running("quality")
      /\ \/ Pass
         \/ /\ Whole("corpus") /\ CorpusCounts(safe["corpus"]) # CorpusCounts(local["corpus"])
            /\ Refuse("quality", "files")
         \/ Whole("corpus") /\ Publish("quality", f)
  BY <1>1 DEF Quality, Tool, Exist, Whole
<1>4. "quality" \in Plain
  BY DEF Plain
<1>5. CASE Pass
  BY <1>3, <1>4, <1>5, PlainKeeps
<1>6. CASE /\ Whole("corpus") /\ CorpusCounts(safe["corpus"]) # CorpusCounts(local["corpus"])
           /\ Refuse("quality", "files")
  <2>1. Left("corpus")
    BY <1>3, RunningIs, RunSoFar, LeftBy, ToolNames
  <2>2. "corpus" \in torn /\ DecodeTexts(local["decode"]) = {}
    BY <1>6, <2>1, CountsByMaking DEF Left
  <2> QED BY <1>3, <1>6, <2>2, RefuseKeeps, ToolNames
<1>7. CASE Whole("corpus") /\ Publish("quality", f)
  <2>1. InputsOf("quality") /\ f.code # 0
    BY <1>2, <1>4, <1>7, PlainTools DEF Whole
  <2> QED BY <1>2, <1>3, <1>4, <1>7, <2>1, PlainKeeps
<1> QED BY <1>3, <1>5, <1>6, <1>7

LEMMA ContextKeeps ==
  ASSUME Inv, ContextResolution
  PROVE  Inv'
<1>1. PICK f : f = ContextFile
  OBVIOUS
<1>2. IsFile(f) /\ f.code # 0 /\ f.from = {"extract"}
  BY <1>1, MadeIsFile DEF ContextFile, ContextStamp
<1>3. /\ Running("context")
      /\ \/ ~Whole("extract") /\ Pass
         \/ Complete(safe["extract"].seen) /\ Pass
         \/ Refuse("context", "records")
         \/ Whole("extract") /\ Publish("context", f)
  BY <1>1 DEF ContextResolution, Tool, Exist, Whole
<1>4. CASE ~Whole("extract") /\ Pass
  <2>1. ~Whole("context")
    BY <1>4, MadeOf, ToolNames
  <2>2. Left("context")
    BY <2>1 DEF Left
  <2> QED BY <1>3, <1>4, <2>2, PassKeeps, ToolNames
<1>5. CASE Complete(safe["extract"].seen) /\ Pass
  <2>1. Left("context")
    BY <1>5 DEF Left
  <2> QED BY <1>3, <1>5, <2>1, PassKeeps, ToolNames
<1>6. CASE Refuse("context", "records")
  BY <1>3, <1>6, RefuseKeeps, ToolNames
<1>7. CASE Whole("extract") /\ Publish("context", f)
  <2>1. InputsOf("context") /\ Fits("context", f)
    BY <1>2, <1>7 DEF InputsOf, Fits
  <2> QED BY <1>2, <1>3, <1>7, <2>1, PublishKeeps, ToolNames
<1> QED BY <1>3, <1>4, <1>5, <1>6, <1>7

\* A context resolution that names another extract is one that was not required
\* any more.
LEMMA RuntimeKeeps ==
  ASSUME Inv, RuntimeContext
  PROVE  Inv'
<1>1. PICK f : f = RuntimeFile
  OBVIOUS
<1>2. IsFile(f) /\ f.code # 0 /\ f.from = {"extract", "context"}
  BY <1>1, MadeIsFile DEF RuntimeFile
<1>3. /\ Running("runtime")
      /\ \/ ~(safe["extract"].code # 0 /\ Whole("context")) /\ Pass
         \/ seen = NotSeen /\ Pass
         \/ Whole("context") /\ ~Names("context", "extract") /\ Refuse("runtime", "files")
         \/ Refuse("runtime", "records")
         \/ Whole("context") /\ Names("context", "extract") /\ Publish("runtime", f)
  BY <1>1 DEF RuntimeContext, Tool, Exist, Whole, Names
<1>4. CASE ~(safe["extract"].code # 0 /\ Whole("context")) /\ Pass
  <2>1. ~Whole("runtime")
    BY <1>4, MadeOf, ToolNames DEF Whole
  <2>2. Left("runtime")
    BY <2>1 DEF Left
  <2> QED BY <1>3, <1>4, <2>2, PassKeeps, ToolNames
<1>5. CASE seen = NotSeen /\ Pass
  <2>1. ~Whole("runtime")
    BY <1>5, MadeOf, ToolNames
  <2>2. Left("runtime")
    BY <2>1 DEF Left
  <2> QED BY <1>3, <1>5, <2>2, PassKeeps, ToolNames
<1>6. CASE Whole("context") /\ ~Names("context", "extract") /\ Refuse("runtime", "files")
  <2>1. Left("context")
    BY <1>3, RunningIs, RunSoFar, LeftBy, ToolNames
  <2>2. Complete(safe["extract"].seen)
    BY <1>6, <2>1 DEF Left
  <2> QED BY <1>3, <1>6, <2>2, RefuseKeeps, ToolNames
<1>7. CASE Refuse("runtime", "records")
  BY <1>3, <1>7, RefuseKeeps, ToolNames
<1>8. CASE Whole("context") /\ Names("context", "extract") /\ Publish("runtime", f)
  <2>1. InputsOf("runtime") /\ Fits("runtime", f)
    BY <1>2, <1>8 DEF InputsOf, Fits
  <2> QED BY <1>2, <1>3, <1>8, <2>1, PublishKeeps, ToolNames
<1> QED BY <1>3, <1>4, <1>5, <1>6, <1>7, <1>8

LEMMA DeltaKeeps ==
  ASSUME Inv, SourceDelta
  PROVE  Inv'
<1>1. PICK f : f = DeltaFile
  OBVIOUS
<1>2. IsFile(f) /\ f.code # 0 /\ f.from = {"extract", "runtime"}
  BY <1>1, MadeIsFile DEF DeltaFile
<1>3. /\ Running("delta")
      /\ \/ image.source = <<>> /\ Pass
         \/ ~(Whole("extract") /\ Whole("runtime")) /\ Pass
         \/ Whole("runtime") /\ ~Names("runtime", "extract") /\ Refuse("delta", "files")
         \/ Refuse("delta", "records")
         \/ image.source # <<>> /\ Whole("runtime") /\ Publish("delta", f)
  BY <1>1 DEF SourceDelta, Tool, Exist, Whole, Names
<1>4. CASE image.source = <<>> /\ Pass
  <2>1. safe["delta"].code = 0
    BY <1>4, MadeOf
  <2>2. Left("delta")
    BY <2>1 DEF Left
  <2> QED BY <1>3, <1>4, <2>2, PassKeeps, ToolNames
<1>5. CASE ~(Whole("extract") /\ Whole("runtime")) /\ Pass
  <2>1. safe["delta"].code = 0
    BY <1>5, MadeOf, ToolNames
  <2>2. Left("delta")
    BY <2>1 DEF Left
  <2> QED BY <1>3, <1>5, <2>2, PassKeeps, ToolNames
<1>6. ~(Whole("runtime") /\ ~Names("runtime", "extract"))
  <2>1. Left("runtime")
    BY <1>3, RunningIs, RunSoFar, LeftBy, ToolNames
  <2> QED BY <2>1 DEF Left
<1>7. CASE Refuse("delta", "records")
  BY <1>3, <1>7, RefuseKeeps, ToolNames
<1>8. CASE image.source # <<>> /\ Whole("runtime") /\ Publish("delta", f)
  <2>1. InputsOf("delta") /\ Fits("delta", f)
    BY <1>2, <1>8 DEF InputsOf, Fits
  <2> QED BY <1>2, <1>3, <1>8, <2>1, PublishKeeps, ToolNames
<1> QED BY <1>3, <1>4, <1>5, <1>6, <1>7, <1>8

LEMMA TextKeeps ==
  ASSUME Inv, TextCandidates
  PROVE  Inv'
<1>1. PICK f : f = TextFile
  OBVIOUS
<1>2. IsFile(f) /\ f.code # 0
  BY <1>1, MadeIsFile DEF TextFile
<1>3. /\ Running("text")
      /\ \/ ~(Whole("context") /\ safe["delta"].code # 0 /\ Whole("visible")) /\ Pass
         \/ catalog = 0 /\ Pass
         \/ /\ Whole("context") /\ safe["delta"].code # 0
            /\ ("extract" \in safe["delta"].from) # ("extract" \in safe["context"].from)
            /\ Refuse("text", "files")
         \/ Refuse("text", "records")
         \/ /\ Whole("context") /\ safe["delta"].code # 0 /\ Whole("visible")
            /\ Publish("text", f)
  BY <1>1 DEF TextCandidates, Tool, Exist, Whole
<1>4. CASE ~(Whole("context") /\ safe["delta"].code # 0 /\ Whole("visible")) /\ Pass
  <2>1. ~Whole("text")
    BY <1>4, MadeOf, ToolNames
  <2>2. Left("text")
    BY <2>1 DEF Left
  <2> QED BY <1>3, <1>4, <2>2, PassKeeps, ToolNames
<1>5. CASE catalog = 0 /\ Pass
  <2>1. ~Whole("visible")
    BY <1>3, <1>5, RunningIs, CatalogIsThere
  <2>2. ~Whole("text")
    BY <2>1, MadeOf, ToolNames
  <2>3. Left("text")
    BY <2>2 DEF Left
  <2> QED BY <1>3, <1>5, <2>3, PassKeeps, ToolNames
<1>6. CASE /\ Whole("context") /\ safe["delta"].code # 0
           /\ ("extract" \in safe["delta"].from) # ("extract" \in safe["context"].from)
           /\ Refuse("text", "files")
  <2>1. Left("runtime") /\ Left("delta")
    BY <1>3, RunningIs, RunSoFar, LeftBy, ToolNames
  <2>2. Whole("runtime")
    BY <1>6, MadeOf
  <2>3. "extract" \in safe["delta"].from /\ "extract" \in safe["context"].from
    BY <1>6, <2>1, <2>2 DEF Left, Names
  <2> QED BY <1>6, <2>3
<1>7. CASE Refuse("text", "records")
  BY <1>3, <1>7, RefuseKeeps, ToolNames
<1>8. CASE /\ Whole("context") /\ safe["delta"].code # 0 /\ Whole("visible")
           /\ Publish("text", f)
  <2>1. InputsOf("text") /\ Fits("text", f)
    BY <1>8 DEF InputsOf, Fits
  <2> QED BY <1>2, <1>3, <1>8, <2>1, PublishKeeps, ToolNames
<1> QED BY <1>3, <1>4, <1>5, <1>6, <1>7, <1>8

LEMMA FuzzyKeeps ==
  ASSUME Inv, Fuzzy
  PROVE  Inv'
<1>1. PICK f : f = FuzzyFile
  OBVIOUS
<1>2. IsFile(f) /\ f.code = code /\ f.from = {"text"} /\ SameGroup(f, local["text"])
  <2>1. IsFile(local["text"])
    BY MadeOf, ToolNames
  <2>2. f = [local["text"] EXCEPT !.code = code, !.from = {"text"}]
    BY <1>1 DEF FuzzyFile
  <2>3. f = [seen |-> local["text"].seen, pages |-> local["text"].pages,
             catalog |-> local["text"].catalog, named |-> local["text"].named,
             code |-> code, from |-> {"text"}]
    BY <2>1, <2>2 DEF IsFile
  <2> QED BY <2>3 DEF IsFile, SameGroup, SameTexts
<1>3. /\ Running("fuzzy")
      /\ \/ ~Whole("text") /\ Pass
         \/ /\ Whole("text") /\ GroupCounted(safe["text"]) # GroupCounted(local["text"])
            /\ Refuse("fuzzy", "files")
         \/ Whole("text") /\ Publish("fuzzy", f)
  BY <1>1 DEF Fuzzy, Tool, Exist, Whole
<1>4. CASE ~Whole("text") /\ Pass
  <2>1. ~Whole("fuzzy")
    BY <1>4, MadeOf, ToolNames
  <2>2. Left("fuzzy")
    BY <2>1 DEF Left
  <2> QED BY <1>3, <1>4, <2>2, PassKeeps, ToolNames
<1>5. ~(Whole("text") /\ GroupCounted(safe["text"]) # GroupCounted(local["text"]))
  <2>1. Left("text")
    BY <1>3, RunningIs, RunSoFar, LeftBy, ToolNames
  <2> QED BY <2>1, GroupTextsByMaking DEF Left
<1>6. CASE Whole("text") /\ Publish("fuzzy", f)
  <2>1. InputsOf("fuzzy") /\ Fits("fuzzy", f)
    BY <1>2, <1>6 DEF InputsOf, Fits
  <2>2. f.code # 0
    BY <1>2 DEF Inv, FilesAreFiles
  <2> QED BY <1>2, <1>3, <1>6, <2>1, <2>2, PublishKeeps, ToolNames
<1> QED BY <1>3, <1>4, <1>5, <1>6

\* Over one set of texts and overrides the two counts differ by ambiguous glyphs
\* alone.
LEMMA CountsDiffer ==
  ASSUME NEW texts, NEW overrides, CountsChanged(texts, texts, overrides, texts, overrides)
  PROVE  Ambiguous(texts)
<1> SUFFICES ASSUME ~Ambiguous(texts) PROVE FALSE
  OBVIOUS
<1>1. ASSUME NEW tokens \in texts, NEW k \in DOMAIN tokens
      PROVE  IsGlyph(tokens[k]) /\ ~IsUnique(tokens[k]) <=> IsUnmatched(tokens[k])
  <2>1. Cardinality({}) = 0
    BY FS_EmptySet
  <2>2. IsUnmatched(tokens[k]) => IsGlyph(tokens[k]) /\ ~IsUnique(tokens[k])
    BY <2>1 DEF IsUnmatched, IsUnique
  <2> QED BY <2>2 DEF Ambiguous
<1>2. NoOverride(texts, overrides, LAMBDA t : IsGlyph(t) /\ ~IsUnique(t))
        = NoOverride(texts, overrides, IsUnmatched)
  BY <1>1 DEF NoOverride
<1> QED BY <1>2 DEF CountsChanged

LEMMA ScriptKeeps ==
  ASSUME Inv, Script
  PROVE  Inv'
<1>1. PICK f : f = ScriptFile
  OBVIOUS
<1>2. IsFile(f) /\ f.code = local["text"].code
  <2>1. IsFile(local["text"])
    BY MadeOf, ToolNames
  <2>2. f = [local["text"] EXCEPT !.from = {"text", "fuzzy"}]
    BY <1>1 DEF ScriptFile
  <2> QED BY <2>1, <2>2, CopyFromIsFile
<1>3. /\ Running("script")
      /\ \/ Pass
         \/ /\ Whole("text") /\ Whole("fuzzy")
            /\ \/ "text" \notin safe["fuzzy"].from
               \/ CountsChanged(GroupTexts(local["text"]), GroupTexts(safe["text"]),
                                GroupOverrides(local["fuzzy"]),
                                GroupTexts(safe["fuzzy"]), GroupOverrides(safe["fuzzy"]))
            /\ Refuse("script", "files")
         \/ Refuse("script", "records")
         \/ Whole("text") /\ Publish("script", f)
  BY <1>1 DEF Script, Tool, Exist, Whole
<1>4. CASE /\ Whole("text") /\ Whole("fuzzy")
           /\ \/ "text" \notin safe["fuzzy"].from
              \/ CountsChanged(GroupTexts(local["text"]), GroupTexts(safe["text"]),
                               GroupOverrides(local["fuzzy"]),
                               GroupTexts(safe["fuzzy"]), GroupOverrides(safe["fuzzy"]))
           /\ Refuse("script", "files")
  <2>1. Left("fuzzy") /\ Left("text")
    BY <1>3, RunningIs, RunSoFar, LeftBy, ToolNames
  <2>2. "text" \in safe["fuzzy"].from
    BY <1>4, <2>1 DEF Left
  <2>3. /\ SameGroup(safe["text"], local["text"]) /\ SameGroup(safe["fuzzy"], local["text"])
        /\ SameFuzzy(safe["fuzzy"], local["fuzzy"])
    BY <1>4, <2>1 DEF Left, SameGroup
  <2>4. /\ GroupTexts(safe["text"]) = GroupTexts(local["text"])
        /\ GroupTexts(safe["fuzzy"]) = GroupTexts(local["text"])
        /\ GroupTexts(safe["fuzzy"]) = GroupTexts(local["fuzzy"])
    BY <2>3, GroupTextsByMaking DEF SameGroup, SameFuzzy
  <2>5. GroupOverrides(safe["fuzzy"]) = GroupOverrides(local["fuzzy"])
    BY <2>3, <2>4 DEF GroupOverrides, SameFuzzy
  <2>6. Ambiguous(GroupTexts(local["text"]))
    BY <1>4, <2>2, <2>4, <2>5, CountsDiffer
  <2> QED BY <1>3, <1>4, <2>6, RefuseKeeps, ToolNames
<1>5. "script" \in Plain
  BY DEF Plain
<1>6. Whole("text") => f.code # 0
  BY <1>2 DEF Whole
<1>7. InputsOf("script")
  BY <1>5, PlainTools
<1> QED BY <1>2, <1>3, <1>4, <1>5, <1>6, <1>7, PlainKeeps

LEMMA UnicodeKeeps ==
  ASSUME Inv, Unicode
  PROVE  Inv'
<1>1. PICK f : f = UnicodeFile
  OBVIOUS
<1>2. IsFile(f) /\ f.code # 0
  BY <1>1, MadeIsFile DEF UnicodeFile
<1>3. /\ Running("unicode")
      /\ \/ Pass
         \/ /\ Whole("runtime")
            /\ \/ "extract" \notin safe["context"].from
               \/ ~({"extract", "context"} \subseteq safe["runtime"].from \cap local["runtime"].from)
            /\ Refuse("unicode", "files")
         \/ Refuse("unicode", "records")
         \/ Publish("unicode", f)
  BY <1>1 DEF Unicode, Tool, Exist, Whole
<1>4. Whole("runtime") =>
          /\ "extract" \in safe["context"].from
          /\ {"extract", "context"} \subseteq safe["runtime"].from \cap local["runtime"].from
  <2>1. Left("runtime")
    BY <1>3, RunningIs, RunSoFar, LeftBy, ToolNames
  <2> QED BY <2>1 DEF Left, Names
<1>5. "unicode" \in Plain
  BY DEF Plain
<1>6. InputsOf("unicode")
  BY <1>5, PlainTools
<1> QED BY <1>2, <1>3, <1>4, <1>5, <1>6, PlainKeeps

-----------------------------------------------------------------------------
(* The theorems *)

LEMMA StutterKeeps ==
  ASSUME Inv, UNCHANGED vars
  PROVE  Inv'
<1>1. /\ image' = image /\ seen' = seen /\ code' = code /\ catalog' = catalog /\ safe' = safe
      /\ local' = local /\ queue' = queue /\ writing' = writing /\ refusal' = refusal
      /\ torn' = torn
  BY DEF vars
<1>2. FilesAreFiles' /\ QueueIsRest' /\ WorldIsKnown'
  BY <1>1 DEF Inv, FilesAreFiles, QueueIsRest, Place, WorldIsKnown
<1>3. InputsStay'
  BY <1>1 DEF Inv, InputsStay, InputsOf, Begun, Whole
<1>4. WritingIsOwn'
  BY <1>1 DEF Inv, WritingIsOwn, Fits, Names, Whole, DecodeIsNew, SameGroup, SameTexts
<1>5. PairsAreWhole'
  BY <1>1 DEF Inv, PairsAreWhole
<1>6. StageIsFit'
  <2>1. \A u : Left(u) => Left(u)'
    BY <1>1 DEF Left, DecodeReady, Whole, DecodeIsNew, Names, DecodeTexts, Decodable, Nonempty,
                Complete, Payloads, SameFuzzy, SameGroup, SameTexts
  <2>2. \A u : HasRun(u)' => HasRun(u)
    BY <1>1 DEF HasRun, Place
  <2> QED BY <2>1, <2>2 DEF Inv, StageIsFit
<1>7. RefusalIsKnown'
  <2>1. /\ Complete(safe["extract"].seen) => Complete(safe["extract"].seen)'
        /\ DecodeTexts(local["decode"]) = {} => DecodeTexts(local["decode"])' = {}
        /\ Ambiguous(GroupTexts(local["text"])) => Ambiguous(GroupTexts(local["text"]))'
    BY <1>1, GroundsStay
  <2> QED BY <1>1, <2>1 DEF Inv, RefusalIsKnown, FilesOfAStageAgree
<1> QED BY <1>2, <1>3, <1>4, <1>5, <1>6, <1>7 DEF Inv

LEMMA NextKeeps ==
  ASSUME Inv, [Next]_vars
  PROVE  Inv'
<1>1. CASE StartStage \/ Capture \/ Update \/ LoseCatalog \/ Kill
  BY <1>1, StartKeeps, CaptureKeeps, UpdateKeeps, LoseCatalogKeeps, KillKeeps
<1>2. CASE PopulationHalf
  BY <1>2, VisibleKeeps, ExtractKeeps, UsageKeeps, StreamMapKeeps, PopulateKeeps, DecodeKeeps,
     ExpandedKeeps, NonHangulKeeps, CorpusKeeps, QualityKeeps DEF PopulationHalf
<1>3. CASE GroupHalf
  BY <1>3, ContextKeeps, RuntimeKeeps, DeltaKeeps, TextKeeps, FuzzyKeeps, ScriptKeeps,
     UnicodeKeeps DEF GroupHalf
<1>4. CASE WriteSecond
  BY <1>4, SecondKeeps
<1>5. CASE UNCHANGED vars
  BY <1>5, StutterKeeps
<1> QED BY <1>1, <1>2, <1>3, <1>4, <1>5 DEF Next

\* In every state, what each tool that has run leaves fits what the later ones
\* read, also after kills, updates of the tools and captures of other records.
THEOREM StageInvariant == Spec => []Inv
<1>1. Init => Inv
  BY InitHolds
<1>2. Inv /\ [Next]_vars => Inv'
  BY NextKeeps
<1> QED BY <1>1, <1>2, PTL DEF Spec

\* No tool refuses over files that disagree, but for three: a runtime context whose
\* context resolution was not required any more and a record quality whose corpus
\* a kill parted before the texts went, as the tools before those two leave an
\* earlier result as it is (v5_1_group_context_resolution.py 478,
\* v5_1_target_group_expanded_corpus.py 352); and a script corpus of texts with a
\* glyph that several characters look like (v5_1_group_script_corpus.py 397).
THEOREM RefusalsAreTheThree == Spec => []FilesOfAStageAgree
<1>1. Inv => FilesOfAStageAgree
  BY DEF Inv, RefusalIsKnown, FilesOfAStageAgree
<1> QED BY <1>1, StageInvariant, PTL

\* The decode the later tools of a stage read is that of the start pages and
\* the font catalog of now, decoded or reused, unless a kill came between its two
\* files (v5_1_target_group_population_decode.py 437-496).
THEOREM DecodeIsOfNow == Spec => []DecodeIsCurrent
<1>1. Inv => DecodeIsCurrent
  <2> SUFFICES ASSUME Inv, queue # <<>>, writing = Done, Head(queue) = "expanded",
                      DecodeReady, "decode" \notin torn
               PROVE  DecodeTexts(local["decode"])
                        = DecodeTexts([local["decode"] EXCEPT !.pages = local["visible"].pages,
                                                             !.catalog = catalog])
    BY DEF DecodeIsCurrent
  <2>1. Left("decode")
    BY RunSoFar, LeftBy, ToolNames
  <2>2. local["decode"].pages = local["visible"].pages /\ local["decode"].catalog = catalog
    BY <2>1 DEF Left, DecodeIsNew
  <2>3. IsFile(local["decode"])
    BY MadeOf, ToolNames
  <2>4. PICK f : f = local["decode"]
    OBVIOUS
  <2>5. PICK g : g = [f EXCEPT !.pages = local["visible"].pages, !.catalog = catalog]
    OBVIOUS
  <2>6. f = [seen |-> f.seen, pages |-> f.pages, catalog |-> f.catalog,
             named |-> f.named, code |-> f.code, from |-> f.from]
    BY <2>3, <2>4 DEF IsFile
  <2>7. g = [seen |-> f.seen, pages |-> local["visible"].pages, catalog |-> catalog,
             named |-> f.named, code |-> f.code, from |-> f.from]
    BY <2>5, <2>6
  <2>8. f = g
    BY <2>2, <2>4, <2>6, <2>7
  <2> QED BY <2>4, <2>5, <2>8
<1> QED BY <1>1, StageInvariant, PTL

\* Whatever the chain has been through, two records that a selector can address
\* do not share a byte once the stream map the population was made of is aligned
\* (v5_1_target_group_stream_map.py 219-245, population 139-201).
THEOREM AlignedIsOneSequence == Spec => []AlignedRecordsAreDisjoint
<1>1. Inv => AlignedRecordsAreDisjoint
  <2>1. Inv => IsImage(image)
    BY ImagesAssumption DEF Inv, WorldIsKnown
  <2> QED BY <2>1, AlignedIsDisjoint DEF AlignedRecordsAreDisjoint
<1> QED BY <1>1, StageInvariant, PTL

=============================================================================
