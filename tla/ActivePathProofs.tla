-------------------------- MODULE ActivePathProofs --------------------------
(***************************************************************************)
(* The critical path over any number of builds of the ROM and any number   *)
(* of killed stages: what a role rests on, what a selected tool finds, and  *)
(* that no finished tool is asked for again.                               *)
(*                                                                         *)
(* The argument: a publication removes its tool from the hashes of all the *)
(* other files, so hashes that still are in place tie the later files to   *)
(* the files they were made from (PublishKeeps), and a new build is newer   *)
(* than every file (NoFutureRom).                                          *)
(***************************************************************************)
EXTENDS ActivePath, TLAPS

LEMMA ToolNames ==
  /\ "none" \notin Tools /\ Focused \subseteq Tools /\ Private \subseteq Tools
  /\ "renderer" \notin Private /\ "scope" \notin Private
  /\ {"population", "renderer", "route", "producer", "writer", "trace"} \subseteq Tools
  /\ {"source", "role", "block", "lookup", "scope", "reset"} \subseteq Tools
<1>1. "none" \notin Tools
  BY DEF Tools
<1>2a. Focused \subseteq Tools
  BY DEF Tools, Focused
<1>2b. Private \subseteq Tools
  BY DEF Private
<1>3. "renderer" \notin Private /\ "scope" \notin Private
  BY DEF Private
<1>4. {"population", "renderer", "route", "producer", "writer", "trace"} \subseteq Tools
  BY DEF Tools
<1>5. {"source", "role", "block", "lookup", "scope", "reset"} \subseteq Tools
  BY DEF Tools
<1> QED BY <1>1, <1>2a, <1>2b, <1>3, <1>4, <1>5

LEMMA InitPath == Init => PathInv
<1> SUFFICES ASSUME Init PROVE PathInv
  OBVIOUS
<1>1. Missing \in File
  BY DEF Missing, File, Verdicts
<1>2. \A t \in Tools : safe[t] = Missing /\ local[t] = Missing
  BY DEF Init
<1>3. Missing.rom = 0 /\ Missing.from = {}
  BY DEF Missing
<1>4. PathTypeOK
  BY <1>1 DEF Init, PathTypeOK
<1>5. NoFutureRom /\ LocalMirrors
  BY <1>2, <1>3, ToolNames DEF Init, NoFutureRom, LocalMirrors
<1>6. RouteRestsOnRenderer /\ RoleRests /\ RoleNamesTrace
  BY <1>2, <1>3, ToolNames DEF Init, RouteRestsOnRenderer, RoleRests, RoleNamesTrace
<1>7. WrittenIsDemanded
  BY ToolNames DEF Init, WrittenIsDemanded
<1> QED BY <1>4, <1>5, <1>6, <1>7 DEF PathInv

-----------------------------------------------------------------------------
(* A publication                                                            *)

\* What a tool has to know of its input before it may publish.
Warrant(t, r, from) ==
    /\ t \in {"population", "renderer", "route"} => r = rom
    /\ t = "population" => safe["population"].rom # rom
    /\ t = "route" => safe["renderer"].rom = rom
    /\ t = "source" => ~SourceCurrent
    /\ t = "role" => /\ {"trace", "population"} \subseteq from
                     /\ safe["route"].rom = rom /\ safe["population"].rom = rom
    /\ t \in Focused => r = rom \/ t = "scope"
    /\ t \in Focused => Demanded(t) \subseteq from

LEMMA PublishedFiles ==
  ASSUME PathInv, NEW t \in Tools, NEW says \in Verdicts, NEW r \in Nat,
         NEW from \in SUBSET Tools, Publish(t, says, r, from)
  PROVE  /\ safe' \in [Tools -> File]
         /\ local' \in [Tools -> File]
         /\ safe'[t].rom = r /\ \A u \in Tools \ {t} : safe'[u].rom = safe[u].rom
         /\ safe'[t].from = from
         /\ \A u \in Tools \ {t} : safe'[u].from = safe[u].from \ {t}
         /\ \A u \in Tools \ {t} : safe'[u].says = safe[u].says
         /\ \A u \in Tools \ {t} : safe[u] = local[u] => safe'[u] = local'[u]
         /\ \A u \in Tools : local'[u].rom = local[u].rom
         /\ rom' = rom /\ kills' = kills
<1> DEFINE Cut(f) == [f EXCEPT !.from = @ \ {t}]
           new    == [rom |-> r, says |-> says, from |-> from, twin |-> TRUE]
<1>1. ASSUME NEW f \in File
      PROVE  /\ Cut(f) \in File
             /\ Cut(f).rom = f.rom /\ Cut(f).from = f.from \ {t}
             /\ Cut(f).says = f.says /\ Cut(f).twin = f.twin
  BY DEF File
<1>2. ASSUME NEW f \in File
      PROVE  [f EXCEPT !.twin = FALSE] \in File /\ [f EXCEPT !.twin = FALSE].rom = f.rom
  BY DEF File
<1>3. new \in File
  BY DEF File
<1>4. safe \in [Tools -> File] /\ local \in [Tools -> File]
  BY DEF PathInv, PathTypeOK
<1>5. /\ safe' = [[u \in Tools |-> Cut(safe[u])] EXCEPT ![t] = new]
      /\ local' = [[u \in Tools |-> Cut(local[u])] EXCEPT
                      ![t] = [Cut(local[t]) EXCEPT !.twin = FALSE]]
      /\ rom' = rom /\ kills' = kills
  BY DEF Publish, Superseded
<1> HIDE DEF Cut, new
<1>6. safe' \in [Tools -> File] /\ local' \in [Tools -> File]
  BY <1>1, <1>2, <1>3, <1>4, <1>5
<1>7. /\ safe'[t] = new /\ local'[t] = [Cut(local[t]) EXCEPT !.twin = FALSE]
      /\ \A u \in Tools \ {t} : safe'[u] = Cut(safe[u]) /\ local'[u] = Cut(local[u])
  BY <1>5
<1>8. new.rom = r /\ new.from = from
  BY DEF new
<1>9. safe'[t].rom = r /\ \A u \in Tools \ {t} : safe'[u].rom = safe[u].rom
  BY <1>1, <1>4, <1>7, <1>8
<1>10. /\ safe'[t].from = from
       /\ \A u \in Tools \ {t} : safe'[u].from = safe[u].from \ {t}
       /\ \A u \in Tools \ {t} : safe'[u].says = safe[u].says
  BY <1>1, <1>4, <1>7, <1>8
<1>11. \A u \in Tools \ {t} : safe[u] = local[u] => safe'[u] = local'[u]
  BY <1>7
<1>12. \A u \in Tools : local'[u].rom = local[u].rom
  <2>1. \A u \in Tools : Cut(local[u]) \in File /\ Cut(local[u]).rom = local[u].rom
    BY <1>1, <1>4
  <2>2. [Cut(local[t]) EXCEPT !.twin = FALSE].rom = Cut(local[t]).rom
    BY <1>2, <2>1
  <2> QED BY <1>7, <2>1, <2>2
<1> QED BY <1>5, <1>6, <1>9, <1>10, <1>11, <1>12

LEMMA PublishKeeps ==
  ASSUME PathInv, NEW t \in Tools, Running(t), NEW says \in Verdicts, NEW r \in Nat,
         NEW from \in SUBSET Tools, r <= rom, Warrant(t, r, from),
         Publish(t, says, r, from)
  PROVE  PathInv'
<1>1. /\ safe' \in [Tools -> File] /\ local' \in [Tools -> File]
      /\ rom' = rom /\ kills' = kills
  BY PublishedFiles
<1>2. safe'[t].rom = r /\ \A u \in Tools \ {t} : safe'[u].rom = safe[u].rom
  BY PublishedFiles
<1>3. /\ safe'[t].from = from
      /\ \A u \in Tools \ {t} : safe'[u].from = safe[u].from \ {t}
  BY PublishedFiles
<1>4. \A u \in Tools \ {t} : safe[u] = local[u] => safe'[u] = local'[u]
  BY PublishedFiles
<1>5. /\ queue \in Seq(Tools) /\ queue # <<>> /\ writing = "none"
      /\ rom \in Nat \ {0} /\ kills \in Nat
  BY DEF PathInv, PathTypeOK, Running
<1>6. PathTypeOK'
  <2>1. CASE t \in Private
    BY <1>1, <1>5, <2>1 DEF Publish, PathTypeOK
  <2>2. CASE t \notin Private
    <3>1. writing' = "none" /\ queue' = Tail(queue)
      BY <2>2 DEF Publish
    <3> QED BY <1>1, <1>5, <3>1 DEF PathTypeOK
  <2> QED BY <2>1, <2>2
<1>7. NoFutureRom'
  BY <1>1, <1>2 DEF PathInv, NoFutureRom
<1>8. RouteRestsOnRenderer'
  BY <1>1, <1>2, ToolNames DEF PathInv, RouteRestsOnRenderer, Warrant
<1>9. RoleRests'
  <2>1. CASE t \in {"role", "population"}
    BY <1>1, <1>2, <1>3, <2>1, ToolNames DEF PathInv, RoleRests, Warrant
  <2>2. CASE t \notin {"role", "population"}
    <3>1. safe["role"].rom = rom => "population" \in safe'["role"].from
      BY <1>3, <2>2, ToolNames DEF PathInv, RoleRests
    <3>2. safe["role"].rom = rom =>
            safe'["route"].rom = rom /\ safe'["population"].rom = rom
      BY <1>2, <2>2, ToolNames DEF PathInv, RoleRests, Warrant
    <3> QED BY <1>1, <1>2, <2>2, <3>1, <3>2, ToolNames DEF RoleRests
  <2> QED BY <2>1, <2>2
<1>10. RoleNamesTrace'
  BY <1>3, ToolNames DEF PathInv, RoleNamesTrace, Warrant
<1>11. LocalMirrors'
  BY <1>1, <1>4, <1>5, ToolNames DEF PathInv, LocalMirrors, Publish
<1>12. WrittenIsDemanded'
  BY <1>1, <1>2, <1>3, <1>5, ToolNames
  DEF WrittenIsDemanded, Warrant, Publish, CurrentFor, Names
<1> QED BY <1>6, <1>7, <1>8, <1>9, <1>10, <1>11, <1>12 DEF PathInv

LEMMA QuietKeeps ==
  ASSUME PathInv, NEW t \in Tools, Running(t), Pass \/ Raise
  PROVE  PathInv'
<1>1. /\ UNCHANGED <<rom, safe, local, writing, kills>>
      /\ queue \in Seq(Tools) /\ queue # <<>> /\ writing = "none"
  BY DEF Running, Pass, Raise, PathInv, PathTypeOK
<1>2. queue' \in Seq(Tools)
  <2>1. CASE Pass
    <3>1. queue' = Tail(queue) BY <2>1 DEF Pass
    <3> QED BY <1>1, <3>1
  <2>2. CASE Raise BY <2>2 DEF Raise
  <2> QED BY <2>1, <2>2
<1>3. PathTypeOK'
  BY <1>1, <1>2 DEF PathInv, PathTypeOK
<1>4. (NoFutureRom /\ RouteRestsOnRenderer /\ RoleRests /\ RoleNamesTrace)'
  BY <1>1 DEF PathInv, NoFutureRom, RouteRestsOnRenderer, RoleRests, RoleNamesTrace
<1>5. (LocalMirrors /\ WrittenIsDemanded)'
  BY <1>1 DEF PathInv, LocalMirrors, WrittenIsDemanded, CurrentFor, Names
<1> QED BY <1>3, <1>4, <1>5 DEF PathInv

-----------------------------------------------------------------------------
(* The tools                                                                *)

\* What a tool at the head of the queue may do
Does(t) ==
    /\ Running(t)
    /\ \/ Pass \/ Raise
       \/ \E says \in Verdicts, r \in Nat, from \in SUBSET Tools :
             r <= rom /\ Warrant(t, r, from) /\ Publish(t, says, r, from)

LEMMA EarlyTools ==
  ASSUME PathInv, Population \/ Renderer \/ Route \/ Producer \/ Writer \/ Trace
  PROVE  \E t \in Early : Does(t)
<1>1. CASE Population
  <2>1. Running("population") /\ "population" \in Tools /\ rom \in Nat /\ rom <= rom
    BY <1>1, ToolNames DEF Population, PathInv, PathTypeOK, NoFutureRom
  <2>2. \/ Pass \/ Raise
        \/ \E says \in {"bounded"} :
              Publish("population", says, rom, {}) /\ safe["population"].rom # rom
    BY <1>1 DEF Population
  <2>3. {"bounded"} \subseteq Verdicts /\ {} \in SUBSET Tools
    BY ToolNames DEF Verdicts
  <2>4. ASSUME safe["population"].rom # rom
        PROVE  Warrant("population", rom, {})
    BY <2>4 DEF Warrant, Focused
  <2>5. Does("population")
    BY <2>1, <2>2, <2>3, <2>4 DEF Does
  <2> QED BY <2>5 DEF Early
<1>2. CASE Renderer
  <2>1. Running("renderer") /\ "renderer" \in Tools /\ rom \in Nat /\ rom <= rom
    BY <1>2, ToolNames DEF Renderer, PathInv, PathTypeOK, NoFutureRom
  <2>2. \/ Pass \/ Raise
        \/ \E says \in {"confirmed", "unconfirmed"} : Publish("renderer", says, rom, {})
    BY <1>2 DEF Renderer
  <2>3. {"confirmed", "unconfirmed"} \subseteq Verdicts /\ {} \in SUBSET Tools
    BY ToolNames DEF Verdicts
  <2>4. Warrant("renderer", rom, {})
    BY DEF Warrant, Focused
  <2>5. Does("renderer")
    BY <2>1, <2>2, <2>3, <2>4 DEF Does
  <2> QED BY <2>5 DEF Early
<1>3. CASE Route
  <2>1. Running("route") /\ "route" \in Tools /\ rom \in Nat /\ rom <= rom
    BY <1>3, ToolNames DEF Route, PathInv, PathTypeOK, NoFutureRom
  <2>2. \/ Pass \/ Raise
        \/ \E says \in {"ram-source", "unresolved"} :
              Publish("route", says, rom, RouteStamp) /\ safe["renderer"].rom = rom
    BY <1>3 DEF Route, RouteWaits
  <2>3. {"ram-source", "unresolved"} \subseteq Verdicts /\ RouteStamp \in SUBSET Tools
    BY ToolNames DEF Verdicts, RouteStamp
  <2>4. ASSUME safe["renderer"].rom = rom
        PROVE  Warrant("route", rom, RouteStamp)
    BY <2>4 DEF Warrant, Focused, RouteStamp
  <2>5. Does("route")
    BY <2>1, <2>2, <2>3, <2>4 DEF Does
  <2> QED BY <2>5 DEF Early
<1>4. CASE Producer
  <2>1. Running("producer") /\ "producer" \in Tools /\ rom \in Nat /\ rom <= rom
    BY <1>4, ToolNames DEF Producer, PathInv, PathTypeOK, NoFutureRom
  <2>2. \/ Pass \/ Raise
        \/ \E says \in {"verified", "unverified"} :
              Publish("producer", says, rom, ProducerStamp)
    BY <1>4 DEF Producer
  <2>3. {"verified", "unverified"} \subseteq Verdicts /\ ProducerStamp \in SUBSET Tools
    BY ToolNames DEF Verdicts, ProducerStamp
  <2>4. Warrant("producer", rom, ProducerStamp)
    BY DEF Warrant, Focused, ProducerStamp
  <2>5. Does("producer")
    BY <2>1, <2>2, <2>3, <2>4 DEF Does
  <2> QED BY <2>5 DEF Early
<1>5. CASE Writer
  <2>1. /\ Running("writer") /\ "writer" \in Tools
        /\ safe["producer"].rom \in Nat /\ safe["producer"].rom <= rom
    BY <1>5, ToolNames DEF Writer, PathInv, PathTypeOK, NoFutureRom, File
  <2>2. \/ Pass \/ Raise
        \/ \E says \in {"register", "other-source"} :
              Publish("writer", says, safe["producer"].rom, WriterStamp)
    BY <1>5 DEF Writer
  <2>3. {"register", "other-source"} \subseteq Verdicts /\ WriterStamp \in SUBSET Tools
    BY ToolNames DEF Verdicts, WriterStamp
  <2>4. Warrant("writer", safe["producer"].rom, WriterStamp)
    BY DEF Warrant, Focused, WriterStamp
  <2>5. Does("writer")
    BY <2>1, <2>2, <2>3, <2>4 DEF Does
  <2> QED BY <2>5 DEF Early
<1>6. CASE Trace
  <2>1. Running("trace") /\ "trace" \in Tools /\ rom \in Nat /\ rom <= rom
    BY <1>6, ToolNames DEF Trace, PathInv, PathTypeOK, NoFutureRom
  <2>2. \/ Pass \/ Raise
        \/ \E says \in {"rom-window", "wide-rom-window", "other-definition"} :
              Publish("trace", says, rom, TraceStamp)
    BY <1>6 DEF Trace
  <2>3. /\ {"rom-window", "wide-rom-window", "other-definition"} \subseteq Verdicts
        /\ TraceStamp \in SUBSET Tools
    BY ToolNames DEF Verdicts, TraceStamp
  <2>4. Warrant("trace", rom, TraceStamp)
    BY DEF Warrant, Focused, TraceStamp
  <2>5. Does("trace")
    BY <2>1, <2>2, <2>3, <2>4 DEF Does
  <2> QED BY <2>5 DEF Early
<1> QED BY <1>1, <1>2, <1>3, <1>4, <1>5, <1>6

LEMMA LateTools ==
  ASSUME PathInv, Source \/ Role \/ Block \/ Lookup \/ Scope \/ Reset
  PROVE  \E t \in Focused : Does(t)
<1>1. CASE Source
  <2>1. Running("source") /\ "source" \in Tools /\ rom \in Nat /\ rom <= rom
    BY <1>1, ToolNames DEF Source, PathInv, PathTypeOK, NoFutureRom
  <2>2. \/ Pass \/ Raise
        \/ ~SourceCurrent /\ \E says \in {"confirmed"} :
              Publish("source", says, rom, SourceStamp)
    BY <1>1 DEF Source
  <2>3. {"confirmed"} \subseteq Verdicts /\ SourceStamp \in SUBSET Tools
    BY ToolNames DEF Verdicts, SourceStamp
  <2>4. ASSUME ~SourceCurrent PROVE Warrant("source", rom, SourceStamp)
    BY <2>4 DEF Warrant, Focused, Demanded, SourceStamp
  <2>5. Does("source")
    BY <2>1, <2>2, <2>3, <2>4 DEF Does
  <2> QED BY <2>5 DEF Focused
<1>2. CASE Role
  <2>1. Running("role") /\ "role" \in Tools /\ rom \in Nat /\ rom <= rom
    BY <1>2, ToolNames DEF Role, PathInv, PathTypeOK, NoFutureRom
  <2>2. \/ Pass \/ Raise
        \/ \E says \in {"unclassified", "classified"} :
              /\ Publish("role", says, rom, RoleStamp)
              /\ safe["route"].rom = rom /\ safe["population"].rom = rom
    BY <1>2 DEF Role, RoleJoined, About
  <2>3. {"unclassified", "classified"} \subseteq Verdicts /\ RoleStamp \in SUBSET Tools
    BY ToolNames DEF Verdicts, RoleStamp
  <2>4. ASSUME safe["route"].rom = rom /\ safe["population"].rom = rom
        PROVE  Warrant("role", rom, RoleStamp)
    BY <2>4 DEF Warrant, Focused, Demanded, RoleStamp
  <2>5. Does("role")
    BY <2>1, <2>2, <2>3, <2>4 DEF Does
  <2> QED BY <2>5 DEF Focused
<1>3. CASE Block
  <2>1. Running("block") /\ "block" \in Tools /\ rom \in Nat /\ rom <= rom
    BY <1>3, ToolNames DEF Block, PathInv, PathTypeOK, NoFutureRom
  <2>2. \/ Pass \/ Raise
        \/ \E says \in {"lookup", "other"} : Publish("block", says, rom, BlockStamp)
    BY <1>3 DEF Block
  <2>3. {"lookup", "other"} \subseteq Verdicts /\ BlockStamp \in SUBSET Tools
    BY ToolNames DEF Verdicts, BlockStamp
  <2>4. Warrant("block", rom, BlockStamp)
    BY DEF Warrant, Focused, Demanded, BlockStamp
  <2>5. Does("block")
    BY <2>1, <2>2, <2>3, <2>4 DEF Does
  <2> QED BY <2>5 DEF Focused
<1>4. CASE Lookup
  <2>1. Running("lookup") /\ "lookup" \in Tools /\ rom \in Nat /\ rom <= rom
    BY <1>4, ToolNames DEF Lookup, PathInv, PathTypeOK, NoFutureRom
  <2>2. \/ Pass \/ Raise
        \/ \E says \in {"incremental", "other"} : Publish("lookup", says, rom, LookupStamp)
    BY <1>4 DEF Lookup
  <2>3. {"incremental", "other"} \subseteq Verdicts /\ LookupStamp \in SUBSET Tools
    BY ToolNames DEF Verdicts, LookupStamp
  <2>4. Warrant("lookup", rom, LookupStamp)
    BY DEF Warrant, Focused, Demanded, LookupStamp
  <2>5. Does("lookup")
    BY <2>1, <2>2, <2>3, <2>4 DEF Does
  <2> QED BY <2>5 DEF Focused
<1>5. CASE Scope
  <2>1. /\ Running("scope") /\ "scope" \in Tools
        /\ safe["source"].rom \in Nat /\ safe["source"].rom <= rom
    BY <1>5, ToolNames DEF Scope, PathInv, PathTypeOK, NoFutureRom, File
  <2>2. \/ Pass \/ Raise
        \/ \E says \in {"asset", "relevant"} :
              Publish("scope", says, safe["source"].rom, ScopeInputs)
    BY <1>5 DEF Scope
  <2>3. {"asset", "relevant"} \subseteq Verdicts /\ ScopeInputs \in SUBSET Tools
    BY ToolNames DEF Verdicts, ScopeInputs
  <2>4. Warrant("scope", safe["source"].rom, ScopeInputs)
    BY DEF Warrant, Focused, Demanded, ScopeInputs
  <2>5. Does("scope")
    BY <2>1, <2>2, <2>3, <2>4 DEF Does
  <2> QED BY <2>5 DEF Focused
<1>6. CASE Reset
  <2>1. Running("reset") /\ "reset" \in Tools /\ rom \in Nat /\ rom <= rom
    BY <1>6, ToolNames DEF Reset, PathInv, PathTypeOK, NoFutureRom
  <2>2. \/ Pass \/ Raise
        \/ \E says \in {"classified"} : Publish("reset", says, rom, ResetStamp)
    BY <1>6 DEF Reset
  <2>3. {"classified"} \subseteq Verdicts /\ ResetStamp \in SUBSET Tools
    BY ToolNames DEF Verdicts, ResetStamp
  <2>4. Warrant("reset", rom, ResetStamp)
    BY DEF Warrant, Focused, Demanded, ResetStamp
  <2>5. Does("reset")
    BY <2>1, <2>2, <2>3, <2>4 DEF Does
  <2> QED BY <2>5 DEF Focused
<1> QED BY <1>1, <1>2, <1>3, <1>4, <1>5, <1>6

LEMMA ToolsKeep ==
  ASSUME PathInv, NEW t \in Tools, Does(t)
  PROVE  PathInv'
BY QuietKeeps, PublishKeeps DEF Does

LEMMA RestKeeps ==
  ASSUME PathInv, StageStart \/ WriteLocal \/ Kill \/ NewRom \/ UNCHANGED vars
  PROVE  PathInv'
<1>1. CASE StageStart
  <2>1. UNCHANGED <<rom, safe, local, writing, kills>> /\ writing = "none"
    BY <1>1 DEF StageStart, PathInv, PathTypeOK
  <2>2. queue' \in Seq(Tools)
    <3>1. \A s \in Tools : <<s>> \in Seq(Tools)
      OBVIOUS
    <3>2. Chain \in Seq(Tools) /\ <<>> \in Seq(Tools)
      BY DEF Chain, Tools
    <3>3. \/ Selection \in Focused /\ queue' = <<Selection>>
          \/ queue' = <<>>
          \/ queue' = Chain
      BY <1>1 DEF StageStart
    <3> QED BY <3>1, <3>2, <3>3, ToolNames
  <2>3. PathTypeOK'
    BY <2>1, <2>2 DEF PathInv, PathTypeOK
  <2> QED
    BY <2>1, <2>3
    DEF PathInv, NoFutureRom, RouteRestsOnRenderer, RoleRests, RoleNamesTrace,
        LocalMirrors, WrittenIsDemanded, CurrentFor, Names
<1>2. CASE WriteLocal
  BY <1>2
  DEF WriteLocal, Private, Focused, PathInv, PathTypeOK, NoFutureRom, RouteRestsOnRenderer,
      RoleRests, RoleNamesTrace, LocalMirrors, WrittenIsDemanded
<1>3. CASE Kill
  BY <1>3
  DEF Kill, Focused, PathInv, PathTypeOK, NoFutureRom, RouteRestsOnRenderer,
      RoleRests, RoleNamesTrace, LocalMirrors, WrittenIsDemanded
<1>4. CASE NewRom
  <2>1. /\ rom \in Nat \ {0} /\ rom' = rom + 1
        /\ UNCHANGED <<safe, local, queue, writing, kills>>
        /\ safe \in [Tools -> File]
    BY <1>4 DEF NewRom, PathInv, PathTypeOK
  <2>2. \A t \in Tools : safe[t].rom \in Nat
    BY <2>1 DEF File
  <2>3. \A t \in Tools : safe[t].rom <= rom' /\ safe[t].rom # rom'
    BY <2>1, <2>2 DEF PathInv, NoFutureRom
  <2>4. PathTypeOK'
    BY <2>1 DEF PathInv, PathTypeOK
  <2>5. (NoFutureRom /\ RouteRestsOnRenderer /\ RoleRests /\ WrittenIsDemanded)'
    BY <2>1, <2>3, ToolNames
    DEF NoFutureRom, RouteRestsOnRenderer, RoleRests, WrittenIsDemanded
  <2>6. (RoleNamesTrace /\ LocalMirrors)'
    BY <2>1 DEF PathInv, RoleNamesTrace, LocalMirrors
  <2> QED BY <2>4, <2>5, <2>6 DEF PathInv
<1>5. CASE UNCHANGED vars
  BY <1>5
  DEF vars, PathInv, PathTypeOK, NoFutureRom, RouteRestsOnRenderer, RoleRests,
      RoleNamesTrace, LocalMirrors, WrittenIsDemanded, CurrentFor, Names
<1> QED BY <1>1, <1>2, <1>3, <1>4, <1>5

LEMMA StepKeeps == PathInv /\ [Next]_vars => PathInv'
  BY EarlyTools, LateTools, ToolsKeep, RestKeeps, ToolNames DEF Next, Step, Early

\* What is in place for the build of now, and what every file was made from, holds
\* through every build, stage and kill (main of the eleven tools).
THEOREM PathInvariant == Spec => []PathInv
<1>1. Init => PathInv BY InitPath
<1>2. PathInv /\ [Next]_vars => PathInv' BY StepKeeps
<1> QED BY <1>1, <1>2, PTL DEF Spec

-----------------------------------------------------------------------------
(* What follows                                                             *)

\* A role that the selector accepts was made for the build in place, and so were
\* the route, the population and the renderer's output, whatever builds and kills
\* there were in mid-chain (v5_1_active_rom_source_role.py).
THEOREM AcceptedRole == Spec => []RoleRestsOnThisBuild
<1>1. PathInv => RoleRestsOnThisBuild
  BY DEF PathInv, RoleRestsOnThisBuild, RoleRests, RouteRestsOnRenderer, CurrentFor
<1> QED BY <1>1, PathInvariant, PTL

\* What has been answered when a question is asked.
LEMMA SelectionMeans ==
  /\ Selection = "source" => TraceUsable
  /\ Selection \in {"block", "lookup", "scope", "reset"} =>
        /\ TraceUsable /\ CurrentFor("source", {"trace"})
        /\ CurrentFor("role", {"source"}) /\ safe["role"].says = "unclassified"
  /\ Selection \in {"lookup", "scope", "reset"} =>
        CurrentFor("block", {"role", "source"}) /\ safe["block"].says = "lookup"
  /\ Selection \in {"scope", "reset"} =>
        /\ CurrentFor("lookup", {"block", "role", "trace"})
        /\ safe["lookup"].says = "incremental"
<1>1. Selection = "source" => TraceUsable
  BY DEF Selection
<1>2. Selection \in {"block", "lookup", "scope", "reset"} =>
        /\ TraceUsable /\ CurrentFor("source", {"trace"})
        /\ CurrentFor("role", {"source"}) /\ safe["role"].says = "unclassified"
  BY DEF Selection
<1>3. Selection \in {"lookup", "scope", "reset"} =>
        CurrentFor("block", {"role", "source"}) /\ safe["block"].says = "lookup"
  BY DEF Selection
<1>4. Selection \in {"scope", "reset"} =>
        /\ CurrentFor("lookup", {"block", "role", "trace"})
        /\ safe["lookup"].says = "incremental"
  BY DEF Selection
<1> QED BY <1>1, <1>2, <1>3, <1>4

\* What is current is not asked for, and a trace of an older build comes first.
CurrentIsNotAsked ==
    \A t \in Focused :
        CurrentFor(t, Demanded(t)) \/ safe["trace"].rom # rom => Selection # t

LEMMA SelectedIsNotCurrent == CurrentIsNotAsked
  BY DEF CurrentIsNotAsked, Selection, Focused, Demanded, TraceUsable, CurrentFor

\* The scope is asked for only when the source is of the build in place.
ScopeComesAfterSource == Selection = "scope" => safe["source"].rom = rom

LEMMA ScopeOfCurrentSource == ScopeComesAfterSource
  BY SelectionMeans DEF ScopeComesAfterSource, CurrentFor

LEMMA SelectionAfter == CurrentIsNotAsked' /\ ScopeComesAfterSource'
  BY SelectedIsNotCurrent, ScopeOfCurrentSource, PTL

\* What the selector sends a stage to is ready for it.
LEMMA SelectedIsPrepared ==
  ASSUME PathInv, kills = 0, queue = <<>>,
         NEW t \in {"source", "block", "lookup", "scope", "reset"}, Selection = t
  PROVE  Prepared(t)
<1>1. /\ rom # 0 /\ writing = "none"
      /\ \A u \in Private : local[u] = safe[u]
  BY ToolNames DEF PathInv, PathTypeOK, LocalMirrors
<1>2. {"trace", "source", "role", "population", "block", "lookup", "reset"}
        \subseteq Private
  BY DEF Private, Tools
<1>3. /\ safe["trace"].rom = rom /\ safe["trace"].says = "rom-window"
      /\ Exists({safe["trace"], local["trace"]})
  BY SelectionMeans DEF TraceUsable
<1>4. CASE t = "source"
  BY <1>3, <1>4 DEF Prepared, SourceReady, SourceJoined, RomWindow
<1>5. CASE t = "block"
  <2>1. /\ CurrentFor("source", {"trace"}) /\ CurrentFor("role", {"source"})
        /\ safe["role"].says = "unclassified"
    BY <1>5, SelectionMeans
  <2>2. safe["population"].rom = rom /\ "population" \in safe["role"].from
    BY <2>1 DEF PathInv, RoleRests, CurrentFor
  <2>3. local["role"] = safe["role"] /\ local["population"] = safe["population"]
    BY <1>1, <1>2
  <2>4. BlockReady
    BY <1>1, <2>1, <2>2, <2>3 DEF BlockReady, Exists, CurrentFor
  <2>5. BlockJoined
    BY <2>1, <2>2, <2>3 DEF BlockJoined, BlockRequired, About, CurrentFor, Names
  <2> QED BY <1>5, <2>4, <2>5 DEF Prepared
<1>6. CASE t = "lookup"
  <2>1. /\ CurrentFor("source", {"trace"}) /\ CurrentFor("role", {"source"})
        /\ CurrentFor("block", {"role", "source"}) /\ safe["block"].says = "lookup"
    BY <1>6, SelectionMeans
  <2>2. "trace" \in safe["role"].from
    BY <2>1 DEF PathInv, RoleNamesTrace, CurrentFor, Names
  <2>3. local["block"] = safe["block"]
    BY <1>1, <1>2
  <2>4. LookupReady
    BY <1>1, <1>3, <2>1, <2>3 DEF LookupReady, Exists, CurrentFor
  <2>5. LookupJoined
    BY <1>3, <2>1, <2>2, <2>3 DEF LookupJoined, LookupRequired, About, CurrentFor, Names
  <2>6. ~PopulationDisagrees
    BY <1>3 DEF PopulationDisagrees
  <2> QED BY <1>6, <2>4, <2>5, <2>6 DEF Prepared
<1>7. CASE t = "scope"
  <2>1. \A u \in ScopeInputs : safe[u].rom = rom
    BY <1>7, SelectionMeans DEF CurrentFor, ScopeInputs
  <2> QED BY <1>1, <1>7, <2>1 DEF Prepared, Exists, About
<1>8. CASE t = "reset"
  <2>1. /\ CurrentFor("block", {"role", "source"})
        /\ CurrentFor("lookup", {"block", "role", "trace"})
        /\ safe["lookup"].says = "incremental"
    BY <1>8, SelectionMeans
  <2>2. local["lookup"] = safe["lookup"]
    BY <1>1, <1>2
  <2>3. ResetReady
    BY <1>1, <1>3, <2>1, <2>2 DEF ResetReady, Exists, CurrentFor
  <2>4. ResetJoined
    BY <1>3, <2>1, <2>2 DEF ResetJoined, ResetRequired, About, CurrentFor, Names
  <2> QED BY <1>8, <2>3, <2>4 DEF Prepared
<1> QED BY <1>4, <1>5, <1>6, <1>7, <1>8

\* While no stage was killed, the tool selected after the role finds its inputs in
\* place and joined, for any number of builds (select_critical_path, CP 665-759).
THEOREM PreparedSelection == Spec => []LaterStagesArePrepared
<1>1. PathInv => LaterStagesArePrepared
  BY SelectedIsPrepared DEF LaterStagesArePrepared
<1> QED BY <1>1, PathInvariant, PTL

-----------------------------------------------------------------------------
(* A finished tool                                                          *)

\* Only the tool at the head of the queue runs, and only once the files of the
\* tool before it are written.
LEMMA HeadRuns ==
  ASSUME Step, ~StageStart, ~WriteLocal
  PROVE  /\ writing = "none"
         /\ Head(queue) = "scope" => Scope
         /\ Head(queue) \in Focused \ {"scope"} =>
               Source \/ Role \/ Block \/ Lookup \/ Reset
<1> USE DEF Running, Focused
<1>1. CASE Population BY <1>1 DEF Population
<1>2. CASE Renderer BY <1>2 DEF Renderer
<1>3. CASE Route BY <1>3 DEF Route
<1>4. CASE Producer BY <1>4 DEF Producer
<1>5. CASE Writer BY <1>5 DEF Writer
<1>6. CASE Trace BY <1>6 DEF Trace
<1>7. CASE Scope BY <1>7 DEF Scope
<1>8. CASE Source \/ Role \/ Block \/ Lookup \/ Reset
  BY <1>8 DEF Source, Role, Block, Lookup, Reset
<1> QED BY <1>1, <1>2, <1>3, <1>4, <1>5, <1>6, <1>7, <1>8 DEF Step

\* Its local file is still due after it has published.
LEMMA LocalIsDue ==
  ASSUME Source \/ Role \/ Block \/ Lookup \/ Reset
  PROVE  safe' = safe \/ queue' = queue
<1> USE DEF Pass, Raise, Publish, Private, Tools
<1>1. CASE Source BY <1>1 DEF Source
<1>2. CASE Role BY <1>2 DEF Role
<1>3. CASE Block BY <1>3 DEF Block
<1>4. CASE Lookup BY <1>4 DEF Lookup
<1>5. CASE Reset BY <1>5 DEF Reset
<1> QED BY <1>1, <1>2, <1>3, <1>4, <1>5

LEMMA FinishedIsNotSelected ==
  ASSUME PathInv, Next, NEW t \in Focused, queue # <<>>, Head(queue) = t,
         queue' = Tail(queue), writing = t \/ safe'[t] # safe[t]
  PROVE  Selection' # t
<1>1. queue' # queue /\ t # "none" /\ t \in Tools
  <2>1. queue \in Seq(Tools) /\ writing \in {"none"} \cup Private
    BY DEF PathInv, PathTypeOK
  <2>2. Tail(queue) # queue
    BY <2>1
  <2> QED BY <2>1, <2>2, ToolNames
<1>2. CASE writing = t
  <2>1. WriteLocal \/ Kill \/ NewRom
    BY <1>1, <1>2, HeadRuns DEF Next, StageStart
  <2>2. safe' = safe /\ rom' = rom
    BY <1>1, <2>1 DEF WriteLocal, Kill, NewRom
  <2>3. (CurrentFor(t, Demanded(t)) \/ safe["trace"].rom # rom)'
    BY <1>2, <2>2 DEF PathInv, WrittenIsDemanded, CurrentFor, Names
  <2> QED BY <2>3, SelectionAfter DEF CurrentIsNotAsked
<1>3. CASE writing # t /\ t # "scope"
  <2>1. Step /\ ~WriteLocal /\ ~StageStart
    BY <1>1, <1>3 DEF Next, StageStart, WriteLocal, Kill, NewRom
  <2>2. Source \/ Role \/ Block \/ Lookup \/ Reset
    BY <1>3, <2>1, HeadRuns
  <2> QED BY <1>1, <1>3, <2>2, LocalIsDue
<1>4. CASE t = "scope"
  <2>1. Scope /\ safe' # safe
    <3>1. writing # "scope" /\ safe' # safe
      BY <1>4, ToolNames DEF PathInv, PathTypeOK
    <3>2. Step /\ ~WriteLocal /\ ~StageStart
      BY <1>1, <3>1 DEF Next, StageStart, WriteLocal, Kill, NewRom
    <3> QED BY <1>4, <3>1, <3>2, HeadRuns
  <2>2. PICK says \in {"asset", "relevant"} :
          Publish("scope", says, safe["source"].rom, ScopeInputs)
    BY <2>1 DEF Scope, Pass, Raise
  <2>3. {"asset", "relevant"} \subseteq Verdicts /\ ScopeInputs \in SUBSET Tools
        /\ safe["source"].rom \in Nat
    BY ToolNames DEF Verdicts, ScopeInputs, PathInv, PathTypeOK, File
  <2>4. /\ safe'["scope"].rom = safe["source"].rom /\ safe'["scope"].from = ScopeInputs
        /\ safe'["source"].rom = safe["source"].rom /\ rom' = rom
    BY <2>2, <2>3, PublishedFiles, ToolNames
  <2>5. ASSUME Selection' = "scope" PROVE FALSE
    <3>1. safe'["source"].rom = rom'
      BY <2>5, SelectionAfter DEF ScopeComesAfterSource
    <3>2. CurrentFor("scope", ScopeInputs)'
      BY <2>4, <3>1 DEF CurrentFor, Names, ScopeInputs
    <3> QED
      BY <2>5, <3>2, SelectionAfter DEF CurrentIsNotAsked, Demanded, Focused, ScopeInputs
  <2> QED BY <1>4, <2>5
<1> QED BY <1>2, <1>3, <1>4

\* A tool that has written both its files is not selected again, whatever builds
\* and kills come between the two: what the tools stamp is what
\* select_critical_path asks for.
THEOREM FinishedIsNotAskedAgain == Spec => NeverAskedAgain
<1>1. PathInv /\ [Next]_vars =>
        [\A t \in Focused :
           (queue # <<>> /\ Head(queue) = t /\ queue' = Tail(queue)
              /\ (writing = t \/ safe'[t] # safe[t])) => Selection' # t]_vars
  BY FinishedIsNotSelected
<1> QED BY <1>1, PathInvariant, PTL DEF Spec, NeverAskedAgain

-----------------------------------------------------------------------------
(* The boundary                                                             *)

LEMMA Ranks ==
  /\ Rank("continue") = 0
  /\ Rank("source") = 1 /\ Rank("role") = 2 /\ Rank("block") = 3 /\ Rank("lookup") = 4
  /\ Rank("scope") = 5 /\ Rank("reset") = 6 /\ Rank("translation") = 7
<1>1. /\ DOMAIN Stages = 1..7
      /\ Stages[1] = "source" /\ Stages[2] = "role" /\ Stages[3] = "block"
      /\ Stages[4] = "lookup" /\ Stages[5] = "scope" /\ Stages[6] = "reset"
      /\ Stages[7] = "translation"
  BY DEF Stages
<1>2. 1..7 = {1, 2, 3, 4, 5, 6, 7}
  OBVIOUS
<1>3. ASSUME NEW k \in 1..7
      PROVE  Rank(Stages[k]) = k
  <2>1. \A i \in 1..7 : Stages[i] = Stages[k] => i = k
    BY <1>1, <1>2
  <2>2. (CHOOSE i \in DOMAIN Stages : Stages[i] = Stages[k]) = k
    BY <1>1, <2>1
  <2>3. Stages[k] \in Range(Stages)
    BY <1>1 DEF Range
  <2> QED BY <2>2, <2>3 DEF Rank
<1>4. "continue" \notin Range(Stages)
  BY <1>1, <1>2 DEF Range
<1>5. Rank("continue") = 0
  BY <1>4 DEF Rank
<1> QED BY <1>1, <1>2, <1>3, <1>5

LEMMA Selections ==
  /\ Selection \in Focused \cup {"translation", "continue"}
  /\ ~TraceUsable => Selection = "continue"
  /\ CurrentFor("source", {"trace"}) => Selection # "source"
BY DEF Selection, Focused

\* The selector has gone as far as t.
ReachedBy(t) ==
    CASE t = "source" -> TRUE
      [] t = "role" -> CurrentFor("source", {"trace"})
      [] t = "block" -> /\ CurrentFor("source", {"trace"}) /\ CurrentFor("role", {"source"})
                        /\ safe["role"].says = "unclassified"
      [] t = "lookup" -> /\ CurrentFor("source", {"trace"}) /\ CurrentFor("role", {"source"})
                         /\ safe["role"].says = "unclassified"
                         /\ CurrentFor("block", {"role", "source"})
                         /\ safe["block"].says = "lookup"
      [] t \in {"scope", "reset"} ->
                         /\ CurrentFor("source", {"trace"}) /\ CurrentFor("role", {"source"})
                         /\ safe["role"].says = "unclassified"
                         /\ CurrentFor("block", {"role", "source"})
                         /\ safe["block"].says = "lookup"
                         /\ CurrentFor("lookup", {"block", "role", "trace"})
                         /\ safe["lookup"].says = "incremental"
                         /\ t = "reset" => CurrentFor("scope", ScopeInputs)
                                           /\ safe["scope"].says # "asset"

LEMMA SelectedIsReached ==
  ASSUME NEW t \in Focused, Selection = t PROVE ReachedBy(t)
<1>1. CASE t = "source" BY <1>1 DEF ReachedBy
<1>2. CASE t = "role" BY <1>2 DEF ReachedBy, Selection
<1>3. CASE t = "block" BY <1>3 DEF ReachedBy, Selection
<1>4. CASE t = "lookup" BY <1>4 DEF ReachedBy, Selection
<1>5. CASE t = "scope" BY <1>5 DEF ReachedBy, Selection
<1>6. CASE t = "reset" BY <1>6 DEF ReachedBy, Selection
<1> QED BY <1>1, <1>2, <1>3, <1>4, <1>5, <1>6 DEF Focused

GoesOnFrom(t) == ReachedBy(t) => Selection = "continue" \/ Rank(Selection) >= Rank(t)

LEMMA ReachedGoesOn == \A t \in Focused : GoesOnFrom(t)
<1> SUFFICES ASSUME NEW t \in Focused, ReachedBy(t), Selection # "continue"
             PROVE  Rank(Selection) >= Rank(t)
  BY DEF GoesOnFrom
<1>1. Selection \in Focused \cup {"translation"}
  BY Selections
<1>2. CASE t = "source"
  BY <1>1, <1>2, Ranks DEF Focused
<1>3. CASE t = "role"
  <2>1. Selection # "source"
    BY <1>3 DEF ReachedBy, Selection
  <2> QED BY <1>1, <1>3, <2>1, Ranks DEF Focused
<1>4. CASE t = "block"
  <2>1. Selection \notin {"source", "role"}
    BY <1>4 DEF ReachedBy, Selection
  <2> QED BY <1>1, <1>4, <2>1, Ranks DEF Focused
<1>5. CASE t = "lookup"
  <2>1. Selection \notin {"source", "role", "block"}
    BY <1>5 DEF ReachedBy, Selection
  <2> QED BY <1>1, <1>5, <2>1, Ranks DEF Focused
<1>6. CASE t = "scope"
  <2>1. Selection \notin {"source", "role", "block", "lookup"}
    BY <1>6 DEF ReachedBy, Selection
  <2> QED BY <1>1, <1>6, <2>1, Ranks DEF Focused
<1>7. CASE t = "reset"
  <2>1. Selection \notin {"source", "role", "block", "lookup", "scope"}
    BY <1>7 DEF ReachedBy, Selection
  <2> QED BY <1>1, <1>7, <2>1, Ranks DEF Focused
<1> QED BY <1>2, <1>3, <1>4, <1>5, <1>6, <1>7 DEF Focused

NothingWithoutTrace == ~TraceUsable => Selection = "continue"

LEMMA SelectedAfter == (\A t \in Focused : GoesOnFrom(t))' /\ NothingWithoutTrace'
<1>1. NothingWithoutTrace
  BY Selections DEF NothingWithoutTrace
<1> QED BY <1>1, ReachedGoesOn, PTL

\* A publication changes no answer that is not about its tool.
LEMMA AnswersStay ==
  ASSUME PathInv, NEW t \in Tools, NEW says \in Verdicts, NEW r \in Nat,
         NEW from \in SUBSET Tools, Publish(t, says, r, from)
  PROVE  /\ t # "trace" => (TraceUsable' <=> TraceUsable)
         /\ \A u \in Tools \ {t} : safe'[u].says = safe[u].says
         /\ \A u \in Tools \ {t} : \A D \in SUBSET (Tools \ {t}) :
              (safe'[u].rom = rom' /\ D \subseteq safe'[u].from) <=> CurrentFor(u, D)
<1>1. /\ \A u \in Tools \ {t} : safe'[u].rom = safe[u].rom /\ safe'[u].says = safe[u].says
      /\ \A u \in Tools \ {t} : safe'[u].from = safe[u].from \ {t}
      /\ \A u \in Tools : local'[u].rom = local[u].rom
      /\ rom' = rom
  BY PublishedFiles
<1>2. t # "trace" => (TraceUsable' <=> TraceUsable)
  <2> SUFFICES ASSUME t # "trace" PROVE TraceUsable' <=> TraceUsable
    OBVIOUS
  <2>1. /\ safe'["trace"].rom = safe["trace"].rom /\ safe'["trace"].says = safe["trace"].says
        /\ local'["trace"].rom = local["trace"].rom /\ rom' = rom
    BY <1>1, ToolNames
  <2> QED BY <2>1 DEF TraceUsable, Exists
<1>3. ASSUME NEW u \in Tools \ {t}, NEW D \in SUBSET (Tools \ {t})
      PROVE  (safe'[u].rom = rom' /\ D \subseteq safe'[u].from) <=> CurrentFor(u, D)
  BY <1>1, <1>3 DEF CurrentFor, Names
<1> QED BY <1>1, <1>2, <1>3

\* The tools before the trace are not asked about.
LEMMA EarlyIsNotAskedAbout ==
  ASSUME PathInv, NEW t \in Early \ {"trace"}, NEW says \in Verdicts, NEW r \in Nat,
         NEW from \in SUBSET Tools, Publish(t, says, r, from)
  PROVE  Selection' = Selection
<1>1. t \in Tools
  BY ToolNames DEF Early
<1>2. {"trace", "source", "role", "block", "lookup", "scope", "reset"} \subseteq Tools \ {t}
  BY ToolNames DEF Early
<1>3. /\ TraceUsable' <=> TraceUsable
      /\ \A u \in Tools \ {t} : safe'[u].says = safe[u].says
      /\ \A u \in Tools \ {t} : \A D \in SUBSET (Tools \ {t}) :
           (safe'[u].rom = rom' /\ D \subseteq safe'[u].from) <=> CurrentFor(u, D)
  BY <1>1, AnswersStay
<1>4. /\ (safe'["source"].rom = rom' /\ {"trace"} \subseteq safe'["source"].from)
            <=> CurrentFor("source", {"trace"})
      /\ (safe'["role"].rom = rom' /\ {"source"} \subseteq safe'["role"].from)
            <=> CurrentFor("role", {"source"})
      /\ (safe'["block"].rom = rom' /\ {"role", "source"} \subseteq safe'["block"].from)
            <=> CurrentFor("block", {"role", "source"})
      /\ (safe'["lookup"].rom = rom' /\ {"block", "role", "trace"} \subseteq safe'["lookup"].from)
            <=> CurrentFor("lookup", {"block", "role", "trace"})
      /\ (safe'["scope"].rom = rom' /\ ScopeInputs \subseteq safe'["scope"].from)
            <=> CurrentFor("scope", ScopeInputs)
      /\ (safe'["reset"].rom = rom' /\ {"lookup", "block", "trace"} \subseteq safe'["reset"].from)
            <=> CurrentFor("reset", {"lookup", "block", "trace"})
  BY <1>2, <1>3 DEF ScopeInputs
<1>5. /\ safe'["role"].says = safe["role"].says /\ safe'["block"].says = safe["block"].says
      /\ safe'["lookup"].says = safe["lookup"].says /\ safe'["scope"].says = safe["scope"].says
  BY <1>2, <1>3
<1>6. /\ CurrentFor("source", {"trace"})' <=> CurrentFor("source", {"trace"})
      /\ CurrentFor("role", {"source"})' <=> CurrentFor("role", {"source"})
      /\ CurrentFor("block", {"role", "source"})' <=> CurrentFor("block", {"role", "source"})
      /\ CurrentFor("lookup", {"block", "role", "trace"})'
           <=> CurrentFor("lookup", {"block", "role", "trace"})
      /\ CurrentFor("scope", ScopeInputs)' <=> CurrentFor("scope", ScopeInputs)
      /\ CurrentFor("reset", {"lookup", "block", "trace"})'
           <=> CurrentFor("reset", {"lookup", "block", "trace"})
  BY <1>4 DEF CurrentFor, Names, ScopeInputs
<1> QED BY <1>3, <1>5, <1>6 DEF Selection

\* A focused tool leaves the answers it was selected on.
LEMMA ReachedStays ==
  ASSUME PathInv, NEW t \in Focused, ReachedBy(t), NEW says \in Verdicts, NEW r \in Nat,
         NEW from \in SUBSET Tools, Publish(t, says, r, from)
  PROVE  ReachedBy(t)'
<1>1. t \in Tools /\ "trace" \in Tools
  BY ToolNames
<1>2. /\ \A u \in Tools \ {t} : safe'[u].says = safe[u].says
      /\ \A u \in Tools \ {t} : \A D \in SUBSET (Tools \ {t}) :
           CurrentFor(u, D) => safe'[u].rom = rom' /\ D \subseteq safe'[u].from
  BY <1>1, AnswersStay
<1>3. CASE t = "source"
  BY <1>3 DEF ReachedBy
<1>4. CASE t = "role"
  <2>1. "source" \in Tools \ {t} /\ {"trace"} \in SUBSET (Tools \ {t})
    BY <1>1, <1>4, ToolNames
  <2> QED BY <1>2, <1>4, <2>1 DEF ReachedBy, CurrentFor, Names
<1>5. CASE t = "block"
  <2>1. {"source", "role"} \subseteq Tools \ {t} /\ "trace" \in Tools \ {t}
    BY <1>1, <1>5, ToolNames
  <2>2. {"trace"} \in SUBSET (Tools \ {t}) /\ {"source"} \in SUBSET (Tools \ {t})
    BY <2>1
  <2> QED BY <1>2, <1>5, <2>1, <2>2 DEF ReachedBy, CurrentFor, Names
<1>6. CASE t = "lookup"
  <2>1. {"source", "role", "block"} \subseteq Tools \ {t} /\ "trace" \in Tools \ {t}
    BY <1>1, <1>6, ToolNames
  <2>2. /\ {"trace"} \in SUBSET (Tools \ {t}) /\ {"source"} \in SUBSET (Tools \ {t})
        /\ {"role", "source"} \in SUBSET (Tools \ {t})
    BY <2>1
  <2> QED BY <1>2, <1>6, <2>1, <2>2 DEF ReachedBy, CurrentFor, Names
<1>7. CASE t \in {"scope", "reset"}
  <2>1. {"source", "role", "block", "lookup"} \subseteq Tools \ {t} /\ "trace" \in Tools \ {t}
        /\ (t = "reset" => "scope" \in Tools \ {t})
    BY <1>1, <1>7, ToolNames
  <2>2. /\ {"trace"} \in SUBSET (Tools \ {t}) /\ {"source"} \in SUBSET (Tools \ {t})
        /\ {"role", "source"} \in SUBSET (Tools \ {t})
        /\ {"block", "role", "trace"} \in SUBSET (Tools \ {t})
        /\ ScopeInputs \in SUBSET (Tools \ {t})
    BY <2>1 DEF ScopeInputs
  <2>3. /\ CurrentFor("source", {"trace"}) /\ CurrentFor("role", {"source"})
        /\ safe["role"].says = "unclassified"
        /\ CurrentFor("block", {"role", "source"}) /\ safe["block"].says = "lookup"
        /\ CurrentFor("lookup", {"block", "role", "trace"})
        /\ safe["lookup"].says = "incremental"
        /\ t = "reset" => CurrentFor("scope", ScopeInputs) /\ safe["scope"].says # "asset"
    BY <1>7 DEF ReachedBy
  <2>4. /\ safe'["source"].rom = rom' /\ {"trace"} \subseteq safe'["source"].from
        /\ safe'["role"].rom = rom' /\ {"source"} \subseteq safe'["role"].from
        /\ safe'["role"].says = "unclassified"
        /\ safe'["block"].rom = rom' /\ {"role", "source"} \subseteq safe'["block"].from
        /\ safe'["block"].says = "lookup"
        /\ safe'["lookup"].rom = rom' /\ {"block", "role", "trace"} \subseteq safe'["lookup"].from
        /\ safe'["lookup"].says = "incremental"
    BY <1>2, <2>1, <2>2, <2>3
  <2>5. t = "reset" => /\ safe'["scope"].rom = rom' /\ ScopeInputs \subseteq safe'["scope"].from
                       /\ safe'["scope"].says # "asset"
    BY <1>2, <2>1, <2>2, <2>3
  <2> QED BY <1>7, <2>4, <2>5 DEF ReachedBy, CurrentFor, Names, ScopeInputs
<1> QED BY <1>3, <1>4, <1>5, <1>6, <1>7 DEF Focused

LEMMA Counting ==
  \A n \in Nat \ {0} : /\ 1 < n \/ n = 1
                       /\ 1 = n - 1 => n = 2
                       /\ 2 \in 1..n => 2 < n \/ (2 = n /\ 2 > 1)
                       /\ n = 1 => n - 1 = 0 /\ ~(n > 1)
OBVIOUS

LEMMA TailIsRest ==
  ASSUME NEW q \in Seq(Tools), q # <<>>, RestOfStage(q)
  PROVE  /\ Tail(q) \in Seq(Tools) /\ Len(Tail(q)) = Len(q) - 1 /\ RestOfStage(Tail(q))
         /\ Head(q) \in Focused => Len(q) = 1 /\ Tail(q) = <<>>
         /\ Head(q) = "trace" => Len(q) = 2
         /\ Tail(q) # <<>> /\ Head(Tail(q)) \in Focused => Head(Tail(q)) = "source"
<1>0. "trace" \notin Focused
  BY DEF Focused
<1>1. /\ Tail(q) \in Seq(Tools) /\ Len(Tail(q)) = Len(q) - 1 /\ Len(q) \in Nat \ {0}
      /\ \A i \in 1..Len(q) - 1 : Tail(q)[i] = q[i + 1]
  OBVIOUS
<1>2. Head(q) = q[1] /\ (Tail(q) # <<>> => Head(Tail(q)) = q[2] /\ Len(q) >= 2)
  BY <1>1
<1>3. \A i \in 1..Len(q) : /\ i < Len(q) => q[i] \in Early
                           /\ i = Len(q) => q[i] \in Focused
                           /\ i = Len(q) /\ i > 1 => q[i] = "source"
                           /\ q[i] = "trace" => i = Len(q) - 1
  BY DEF RestOfStage
<1>4. Early \cap Focused = {}
  BY DEF Early, Focused
<1>5. ASSUME NEW i \in 1..Len(Tail(q))
      PROVE  /\ i < Len(Tail(q)) => Tail(q)[i] \in Early
             /\ i = Len(Tail(q)) => Tail(q)[i] \in Focused
             /\ i = Len(Tail(q)) /\ i > 1 => Tail(q)[i] = "source"
             /\ Tail(q)[i] = "trace" => i = Len(Tail(q)) - 1
  <2>1. PICK k \in 2..Len(q) : k = i + 1
    BY <1>1, <1>5
  <2>2. Tail(q)[i] = q[k] /\ k \in 1..Len(q) /\ k > 1 /\ Len(Tail(q)) = Len(q) - 1
    BY <1>1, <1>5, <2>1
  <2>3. /\ k < Len(q) => q[k] \in Early
        /\ k = Len(q) => q[k] \in Focused
        /\ k = Len(q) /\ k > 1 => q[k] = "source"
        /\ q[k] = "trace" => k = Len(q) - 1
    BY <1>3, <2>2, Zenon
  <2>4. Len(q) \in Nat /\ i \in 1..Len(q) - 1
    BY <1>1, <1>5
  <2>5. /\ i < Len(q) - 1 => k < Len(q)
        /\ i = Len(q) - 1 => k = Len(q)
        /\ k = Len(q) - 1 => i = Len(q) - 1 - 1
    BY ONLY <2>1, <2>4
  <2> QED BY <2>2, <2>3, <2>5, Zenon
<1>6. (Head(q) \in Focused => Len(q) = 1) /\ (Head(q) = "trace" => Len(q) = 2)
  <2>1. 1 \in 1..Len(q) /\ Len(q) \in Nat \ {0}
    BY <1>1
  <2>2. /\ 1 < Len(q) => q[1] \in Early
        /\ q[1] = "trace" => 1 = Len(q) - 1
    BY <1>3, <2>1, Zenon
  <2>3. (1 < Len(q) \/ Len(q) = 1) /\ (1 = Len(q) - 1 => Len(q) = 2)
    BY <2>1, Counting, Zenon
  <2> QED BY <1>2, <1>4, <2>2, <2>3, Zenon
<1>7. ASSUME Tail(q) # <<>>, Head(Tail(q)) \in Focused PROVE Head(Tail(q)) = "source"
  <2>1. 2 \in 1..Len(q) /\ Len(q) \in Nat \ {0} /\ Head(Tail(q)) = q[2]
    BY <1>1, <1>2, <1>7
  <2>2. /\ 2 < Len(q) => q[2] \in Early
        /\ 2 = Len(q) /\ 2 > 1 => q[2] = "source"
    BY <1>3, <2>1, Zenon
  <2>3. 2 < Len(q) \/ (2 = Len(q) /\ 2 > 1)
    BY <2>1, Counting, Zenon
  <2> QED BY <1>4, <1>7, <2>1, <2>2, <2>3, Zenon
<1>8. Len(q) = 1 => Tail(q) = <<>>
  <2>1. Len(q) = 1 => Len(Tail(q)) = 0
    BY <1>1, Counting, Zenon
  <2>2. Tail(q) \in Seq(Tools)
    BY <1>1
  <2>3. \A p \in Seq(Tools) : Len(p) = 0 => p = <<>>
    OBVIOUS
  <2> QED BY <2>1, <2>2, <2>3, Zenon
<1> QED BY <1>1, <1>5, <1>6, <1>7, <1>8 DEF RestOfStage

LEMMA StepsOfAStage ==
  ASSUME PathInv, [Next]_vars
  PROVE  \/ StageStart \/ WriteLocal \/ Kill \/ NewRom \/ UNCHANGED vars
         \/ \E t \in Early \cup Focused : Does(t)
BY EarlyTools, LateTools DEF Next, Step

LEMMA ShapeStays ==
  ASSUME PathInv, QueueShape, [Next]_vars
  PROVE  QueueShape'
<1>0. queue \in Seq(Tools) /\ (writing # "none" => queue # <<>>)
  BY DEF PathInv, PathTypeOK
<1>1. RestOfStage(<<>>)
  BY DEF RestOfStage
<1>2. CASE StageStart
  <2>1. writing = "none" /\ writing' = writing
    BY <1>0, <1>2 DEF StageStart
  <2>2. \/ Selection \in Focused /\ queue' = <<Selection>>
        \/ queue' = <<>>
        \/ queue' = Chain
    BY <1>2 DEF StageStart
  <2>3. \A s \in Focused : RestOfStage(<<s>>)
    BY DEF RestOfStage, Focused
  <2>4. RestOfStage(Chain)
    <3>1. /\ Len(Chain) = 7
          /\ Chain[1] = "population" /\ Chain[2] = "renderer" /\ Chain[3] = "route"
          /\ Chain[4] = "producer" /\ Chain[5] = "writer" /\ Chain[6] = "trace"
          /\ Chain[7] = "source"
      BY DEF Chain
    <3>2. 1..7 = {1, 2, 3, 4, 5, 6, 7}
      OBVIOUS
    <3> QED BY <3>1, <3>2 DEF RestOfStage, Early, Focused
  <2> QED BY <1>1, <2>1, <2>2, <2>3, <2>4 DEF QueueShape
<1>3. CASE WriteLocal
  BY <1>0, <1>3, TailIsRest DEF WriteLocal, QueueShape
<1>4. CASE Kill
  BY <1>1, <1>4 DEF Kill, QueueShape
<1>5. CASE NewRom \/ UNCHANGED vars
  BY <1>5 DEF NewRom, vars, QueueShape
<1>6. ASSUME NEW t \in Early \cup Focused, Does(t) PROVE QueueShape'
  <2>1. queue # <<>> /\ Head(queue) = t /\ writing = "none"
    BY <1>6 DEF Does, Running
  <2>2. CASE Pass
    BY <1>0, <2>1, <2>2, TailIsRest DEF Pass, QueueShape
  <2>3. CASE Raise
    BY <1>1, <2>1, <2>3 DEF Raise, QueueShape
  <2>4. ASSUME NEW says \in Verdicts, NEW r \in Nat, NEW from \in SUBSET Tools,
               Publish(t, says, r, from)
        PROVE  QueueShape'
    <3>1. \/ queue' = queue /\ writing' = t
          \/ queue' = Tail(queue) /\ writing' = "none"
      BY <2>4 DEF Publish
    <3> QED BY <1>0, <2>1, <3>1, TailIsRest DEF QueueShape
  <2> QED BY <1>6, <2>2, <2>3, <2>4 DEF Does
<1> QED BY <1>2, <1>3, <1>4, <1>5, <1>6, StepsOfAStage

\* A step that leaves the published files, and the traces, alone does not change
\* the selection.
LEMMA SelectionIsStable ==
  ASSUME rom' = rom, safe' = safe, local'["trace"].rom = local["trace"].rom
  PROVE  Selection' = Selection
<1>1. TraceUsable' <=> TraceUsable
  BY DEF TraceUsable, Exists
<1>2. \A t, D : CurrentFor(t, D) <=> safe[t].rom = rom /\ D \subseteq safe[t].from
  BY DEF CurrentFor, Names
<1> QED BY <1>1 DEF Selection, CurrentFor, Names

LEMMA QuestionStays ==
  ASSUME PathInv, QueueShape, StillAsked, [Next]_vars
  PROVE  StillAsked'
<1>0. /\ queue \in Seq(Tools) /\ (writing # "none" => queue # <<>>)
      /\ writing \in {"none"} \cup Private
      /\ RestOfStage(queue) /\ (writing # "none" => Head(queue) = writing)
  BY DEF PathInv, PathTypeOK, QueueShape
<1>1. "trace" \in Tools /\ "none" \notin Tools /\ "none" \notin Focused /\ "trace" \notin Focused
  BY ToolNames DEF Focused
<1>2. CASE StageStart
  <2>1. Selection' = Selection /\ writing = "none" /\ writing' = "none"
    BY <1>0, <1>2, SelectionIsStable DEF StageStart
  <2>2. \/ Selection \in Focused /\ queue' = <<Selection>>
        \/ queue' = <<>>
        \/ Selection = "continue" /\ queue' = Chain
    BY <1>2, Selections DEF StageStart
  <2>3. CASE Selection \in Focused /\ queue' = <<Selection>>
    <3>1. Len(queue') = 1 /\ Head(queue') = Selection'
      BY <2>1, <2>3
    <3> QED BY <3>1 DEF StillAsked
  <2>4. CASE queue' = <<>>
    BY <2>4 DEF StillAsked
  <2>5. CASE Selection = "continue" /\ queue' = Chain
    <3>1. Head(queue') \notin Focused
      BY <2>5 DEF Chain, Focused
    <3> QED BY <2>1, <2>5, <3>1 DEF StillAsked
  <2> QED BY <2>2, <2>3, <2>4, <2>5
<1>3. CASE WriteLocal
  <2>1. /\ queue # <<>> /\ Head(queue) = writing /\ writing # "none"
        /\ queue' = Tail(queue) /\ writing' = "none" /\ safe' = safe /\ rom' = rom
        /\ local' = [local EXCEPT ![writing] = safe[writing]]
    BY <1>0, <1>3 DEF WriteLocal
  <2>2. /\ Len(queue') = Len(queue) - 1 /\ Len(queue) \in Nat
        /\ writing = "trace" => Len(queue) = 2
        /\ queue' # <<>> /\ Head(queue') \in Focused => Head(queue') = "source"
    BY <1>0, <2>1, TailIsRest
  <2>3. writing # "trace" => Selection' = Selection
    <3> SUFFICES ASSUME writing # "trace" PROVE local'["trace"].rom = local["trace"].rom
      BY <2>1, SelectionIsStable
    <3> QED BY <2>1
  <2>4. Len(queue') > 1 => Selection' = "continue"
    BY <2>2, <2>3 DEF StillAsked
  <2> QED BY <2>2, <2>4 DEF StillAsked
<1>4. CASE Kill
  BY <1>4 DEF Kill, StillAsked
<1>5. CASE NewRom
  <2>1. safe["trace"].rom # rom'
    <3>1. safe["trace"].rom \in Nat /\ safe["trace"].rom <= rom /\ rom \in Nat
      BY <1>1 DEF PathInv, PathTypeOK, NoFutureRom, File
    <3> QED BY <1>5, <3>1 DEF NewRom
  <2>2. Selection' = "continue"
    BY <1>5, <2>1, SelectedAfter DEF NewRom, TraceUsable, NothingWithoutTrace
  <2> QED BY <1>5, <2>1, <2>2 DEF StillAsked, NewRom
<1>6. CASE UNCHANGED vars
  <2>1. Selection' = Selection
    BY <1>6, SelectionIsStable DEF vars
  <2> QED BY <1>6, <2>1 DEF vars, StillAsked
<1>7. ASSUME NEW t \in Early \cup Focused, Does(t) PROVE StillAsked'
  <2>1. queue # <<>> /\ Head(queue) = t /\ writing = "none" /\ t \in Tools
    BY <1>7, ToolNames DEF Does, Running, Early
  <2>2. /\ Len(Tail(queue)) = Len(queue) - 1 /\ Len(queue) \in Nat
        /\ t \in Focused => Len(queue) = 1 /\ Tail(queue) = <<>>
        /\ t = "trace" => Len(queue) = 2
        /\ Tail(queue) # <<>> /\ Head(Tail(queue)) \in Focused => Head(Tail(queue)) = "source"
    BY <1>0, <2>1, TailIsRest
  <2>3. Len(queue) > 1 => Selection = "continue"
    BY <1>1, <2>1, ToolNames DEF StillAsked
  <2>4. CASE Pass
    <3>1. Selection' = Selection /\ queue' = Tail(queue)
      BY <2>4, SelectionIsStable DEF Pass
    <3> QED BY <2>2, <2>3, <3>1 DEF StillAsked
  <2>5. CASE Raise
    BY <2>5 DEF Raise, StillAsked
  <2>6. ASSUME NEW says \in Verdicts, NEW r \in Nat, NEW from \in SUBSET Tools,
               Publish(t, says, r, from)
        PROVE  StillAsked'
    <3>1. \/ queue' = queue /\ writing' = t
          \/ /\ Len(queue') = Len(queue) - 1 /\ (t \in Focused => queue' = <<>>)
             /\ queue' # <<>> /\ Head(queue') \in Focused => Head(queue') = "source"
      BY <2>2, <2>6 DEF Publish
    <3>2. t # "none" /\ Len(queue) \in Nat
      BY <1>1, <2>1, <2>2
    <3>3. CASE t \in Early \ {"trace"}
      <4>1. Selection' = Selection
        BY <2>6, <3>3, EarlyIsNotAskedAbout
      <4> QED BY <2>3, <3>1, <3>2, <4>1 DEF StillAsked
    <3>4. CASE t = "trace"
      <4>1. Len(queue) = 2
        BY <2>2, <3>4
      <4>2. Len(queue') > 1 => writing' = "trace"
        BY <3>1, <3>4, <4>1
      <4>3. ~(queue' # <<>> /\ writing' = "none" /\ Head(queue') \in Focused \ {"source"})
        BY <3>1, <3>2, <3>4
      <4> QED BY <4>2, <4>3, Zenon DEF StillAsked
    <3>5. CASE t \in Focused
      <4>1. ~(Len(queue') > 1)
        <5>1. Len(queue) = 1 /\ (queue' = queue \/ queue' = <<>>)
          BY <2>2, <3>1, <3>5, Zenon
        <5> QED BY <5>1
      <4>2. ~(queue' # <<>> /\ writing' = "none" /\ Head(queue') \in Focused \ {"source"})
        BY <3>1, <3>2, <3>5
      <4> QED BY <4>1, <4>2, Zenon DEF StillAsked
    <3> QED BY <1>7, <3>3, <3>4, <3>5
  <2> QED BY <1>7, <2>4, <2>5, <2>6 DEF Does
<1> QED BY <1>2, <1>3, <1>4, <1>5, <1>6, <1>7, StepsOfAStage

\* For one build of the ROM a stage, killed or not, leaves the selector asking for
\* a later tool, or for none.
LEMMA BoundaryStep ==
  ASSUME PathInv, QueueShape, StillAsked, [Next]_vars, rom' = rom,
         Rank(Selection) > 0, Rank(Selection') > 0
  PROVE  Rank(Selection') >= Rank(Selection)
<1>0. Selection # "continue" /\ Selection' # "continue" /\ TraceUsable
  BY Ranks, Selections
<1>1. Selection \in Focused \cup {"translation"} /\ Rank(Selection) \in Nat
  BY <1>0, Selections, Ranks DEF Focused
<1>2. CASE Selection' = Selection
  BY <1>1, <1>2
<1>3. CASE StageStart \/ Kill \/ UNCHANGED vars
  <2>1. rom' = rom /\ safe' = safe /\ local' = local
    BY <1>3 DEF StageStart, Kill, vars
  <2> QED BY <1>2, <2>1, SelectionIsStable
<1>4. CASE WriteLocal
  <2>1. /\ writing \in Private /\ safe' = safe
        /\ local \in [Tools -> File] /\ local' = [local EXCEPT ![writing] = safe[writing]]
    BY <1>4 DEF WriteLocal, PathInv, PathTypeOK
  <2>2. TraceUsable /\ TraceUsable'
    BY <1>0, SelectedAfter DEF NothingWithoutTrace
  <2>3. \A t, D : CurrentFor(t, D) <=> safe[t].rom = rom /\ D \subseteq safe[t].from
    BY DEF CurrentFor, Names
  <2>4. Selection' = Selection
    BY <2>1, <2>2 DEF Selection, CurrentFor, Names
  <2> QED BY <1>2, <2>4
<1>5. CASE NewRom
  <2>1. rom \in Nat
    BY DEF PathInv, PathTypeOK
  <2> QED BY <1>5, <2>1 DEF NewRom
<1>6. ASSUME NEW t \in Early \cup Focused, Does(t)
      PROVE  Rank(Selection') >= Rank(Selection)
  <2>1. /\ queue # <<>> /\ Head(queue) = t /\ writing = "none" /\ t \in Tools
        /\ queue \in Seq(Tools) /\ RestOfStage(queue)
    BY <1>6, ToolNames DEF Does, Running, Early, PathInv, PathTypeOK, QueueShape
  <2>2. CASE Pass \/ Raise
    <3>1. rom' = rom /\ safe' = safe /\ local' = local
      BY <2>2 DEF Pass, Raise
    <3> QED BY <1>2, <3>1, SelectionIsStable
  <2>3. ASSUME NEW says \in Verdicts, NEW r \in Nat, NEW from \in SUBSET Tools,
               Publish(t, says, r, from), Warrant(t, r, from)
        PROVE  Rank(Selection') >= Rank(Selection)
    <3>1. CASE t \in Early \ {"trace"}
      BY <1>2, <2>3, <3>1, EarlyIsNotAskedAbout
    <3>2. CASE t = "trace"
      <4>1. Len(queue) = 2 /\ writing # "trace"
        BY <2>1, <3>2, TailIsRest, ToolNames
      <4> QED BY <1>0, <4>1 DEF StillAsked
    <3>3. CASE t = "source"
      <4>1. ~CurrentFor("source", {"trace"})
        BY <2>3, <3>3 DEF Warrant, SourceCurrent, CurrentFor, Names
      <4>2. Selection = "source"
        BY <1>0, <4>1 DEF Selection
      <4>3. ReachedBy("source")'
        BY DEF ReachedBy
      <4>4. "source" \in Focused
        BY DEF Focused
      <4> QED BY <1>0, <4>2, <4>3, <4>4, SelectedAfter DEF GoesOnFrom
    <3>4. CASE t \in Focused \ {"source"}
      <4>1. Selection = t
        BY <1>0, <2>1, <3>4 DEF StillAsked, TraceUsable
      <4>2. ReachedBy(t)'
        BY <2>3, <3>4, <4>1, SelectedIsReached, ReachedStays
      <4> QED BY <1>0, <3>4, <4>1, <4>2, SelectedAfter DEF GoesOnFrom
    <3> QED BY <1>6, <3>1, <3>2, <3>3, <3>4
  <2> QED BY <1>6, <2>2, <2>3 DEF Does
<1> QED BY <1>3, <1>4, <1>5, <1>6, StepsOfAStage

\* For one build of the ROM the boundary never moves back, whatever stages are
\* killed (select_critical_path, CP 665-759): every answer is kept until a new
\* trace starts over, and the chain takes a new trace only when nothing is asked.
THEOREM BoundaryHolds == Spec => BoundaryNeverMovesBack
<1>1. Init => QueueShape /\ StillAsked
  <2>1. Init => queue = <<>> /\ writing = "none"
    BY DEF Init
  <2> QED BY <2>1 DEF QueueShape, RestOfStage, StillAsked
<1>2. PathInv /\ QueueShape /\ StillAsked /\ [Next]_vars => QueueShape' /\ StillAsked'
  BY ShapeStays, QuestionStays
<1>3. PathInv /\ QueueShape /\ StillAsked /\ [Next]_vars
        => [rom' = rom /\ Rank(Selection) > 0 /\ Rank(Selection') > 0
              => Rank(Selection') >= Rank(Selection)]_vars
  BY BoundaryStep
<1> QED BY <1>1, <1>2, <1>3, PathInvariant, PTL DEF Spec, BoundaryNeverMovesBack
=============================================================================
