----------------------------- MODULE ActivePath -----------------------------
(***************************************************************************)
(* The evidence chain from the video memory of the running game back to a  *)
(* byte of its ROM: eleven tools (v5_1_active_*.py), each reading what     *)
(* earlier ones wrote and writing a published file, then a private one.    *)
(* A runtime stage runs either the one tool the critical path selects      *)
(* (v5_1_critical_path.py) or the "continue" chain.                        *)
(*                                                                         *)
(* A file names the ROM it is about and carries the hashes of the files it *)
(* was made from.  Every publication carries a new capture time, so a hash *)
(* either is that of the file now in place or never will be again: a file  *)
(* here keeps the set from of the tools whose present publication it names.*)
(***************************************************************************)
EXTENDS Naturals, Sequences, FiniteSets, Functions

CONSTANTS MaxRom,     \* bound: builds of the target ROM, numbered from 1
          MaxKills    \* bound: kills of a stage (time limit, reboot)

ASSUME BoundsAssumption == MaxRom \in Nat \ {0} /\ MaxKills \in Nat

Tools == {"population", "renderer", "route", "producer", "writer", "trace", "source",
          "role", "block", "lookup", "scope", "reset"}

\* run_s25u_runtime_stage.sh 1252-1299, with the two earlier tools of the chain
\* whose files the path reads
Chain == <<"population", "renderer", "route", "producer", "writer", "trace", "source">>

Focused == {"source", "role", "block", "lookup", "scope", "reset"}

Private == Tools \ {"renderer", "scope"}      \* tools that also write a local file

VARIABLES rom,        \* the build of the target ROM in place
          safe,       \* published files, by tool
          local,      \* private files, by tool
          queue,      \* tools the running stage has still to run
          writing,    \* the tool between its two writes
          kills

vars == <<rom, safe, local, queue, writing, kills>>

Missing == [rom |-> 0, says |-> "missing", from |-> {}, twin |-> TRUE]
Exists(files) == \A f \in files : f.rom # 0

----------------------------------------------------------------------------
(* The steps of a stage.                                                   *)

Running(t) == queue # <<>> /\ Head(queue) = t /\ writing = "none"

\* A tool that returns 0 without writing: not ready, not required or current.
Pass == queue' = Tail(queue) /\ UNCHANGED <<rom, safe, local, writing, kills>>

\* A tool that raises ends the stage, with --if-ready too.
Raise == queue' = <<>> /\ UNCHANGED <<rom, safe, local, writing, kills>>

Superseded(files, t) == [u \in Tools |-> [files[u] EXCEPT !.from = @ \ {t}]]

\* The published file is written first; hashes of the one it replaces are stale.
\* While a local file is due the old one, if any, belongs to another publication.
Publish(t, says, r, from) ==
    /\ safe' = [Superseded(safe, t) EXCEPT ![t] =
                    [rom |-> r, says |-> says, from |-> from, twin |-> TRUE]]
    /\ local' = [Superseded(local, t) EXCEPT ![t].twin = FALSE]
    /\ IF t \in Private THEN writing' = t /\ UNCHANGED queue
                        ELSE writing' = "none" /\ queue' = Tail(queue)
    /\ UNCHANGED <<rom, kills>>

\* The private file follows: same ROM, same sources.
WriteLocal ==
    /\ writing # "none"
    /\ local' = [local EXCEPT ![writing] = safe[writing]]
    /\ writing' = "none" /\ queue' = Tail(queue)
    /\ UNCHANGED <<rom, safe, kills>>

About(files, r) == \A f \in files : f.rom = r

----------------------------------------------------------------------------
(* The tools of the continue chain.                                        *)

\* v5_1_target_group_population.py and v5_1_renderer_output_trace.py, as far as
\* the path reads them: they publish for the ROM in place, or are not ready.
Population ==
    /\ Running("population")
    /\ \/ Pass
       \/ safe["population"].rom # rom /\ Publish("population", "bounded", rom, {})

Renderer ==
    /\ Running("renderer")
    /\ \/ Pass
       \/ /\ safe["renderer"].rom # rom
          /\ \E says \in {"confirmed", "unconfirmed"} : Publish("renderer", says, rom, {})

\* v5_1_active_vram_route.py
RouteCurrent == safe["route"].rom = rom /\ "renderer" \in safe["route"].from
RouteWaits == \/ ~Exists({safe["renderer"]})
              \/ safe["renderer"].rom # rom
              \/ safe["renderer"].says # "confirmed"

RouteStamp == {"renderer"}      \* the hashes a route carries

Route ==
    /\ Running("route")
    /\ \/ (RouteWaits \/ RouteCurrent) /\ Pass
       \/ /\ ~RouteWaits /\ ~RouteCurrent
          /\ \/ Raise
             \/ \E says \in {"ram-source", "unresolved"} :
                    Publish("route", says, rom, RouteStamp)

\* v5_1_active_ram_producer.py: the route is examined before the tool asks
\* whether its own file is current.
ProducerReady == Exists({safe["route"], local["route"]})
ProducerJoined == /\ safe["route"].rom = rom /\ safe["route"].says = "ram-source"
                  /\ local["route"].rom = safe["route"].rom
ProducerCurrent == safe["producer"].rom = rom /\ "route" \in safe["producer"].from

ProducerStamp == {"route"}

Producer ==
    /\ Running("producer")
    /\ \/ ~ProducerReady /\ Pass
       \/ ProducerReady /\ ~ProducerJoined /\ Raise
       \/ /\ ProducerReady /\ ProducerJoined
          /\ \/ ProducerCurrent /\ local["route"].twin /\ Pass
             \/ ~local["route"].twin /\ Raise     \* adjustments or counts disagree
             \/ ~ProducerCurrent /\ Raise          \* the emulator gave no result
             \/ /\ ~ProducerCurrent
                /\ \E says \in {"verified", "unverified"} :
                        Publish("producer", says, rom, ProducerStamp)

\* v5_1_active_ram_writer_source.py: the ROM is the one its input names.
WriterReady == Exists({safe["producer"], local["producer"]})
WriterCurrent == /\ safe["writer"].rom = safe["producer"].rom
                 /\ "producer" \in safe["writer"].from
WriterVerified == safe["producer"].says = "verified"

WriterStamp == {"producer"}

Writer ==
    /\ Running("writer")
    /\ \/ (~WriterReady \/ WriterCurrent \/ ~WriterVerified) /\ Pass
       \/ /\ WriterReady /\ ~WriterCurrent /\ WriterVerified
          /\ \/ ~local["producer"].twin /\ Raise
             \/ /\ local["producer"].twin
                /\ \E says \in {"register", "other-source"} :
                        Publish("writer", says, safe["producer"].rom, WriterStamp)

\* v5_1_active_ram_register_trace.py: neither the producer nor the writer is
\* compared with the ROM in place.
TraceReady == Exists({safe["producer"], local["producer"], safe["writer"], local["writer"]})
TraceCurrent == safe["trace"].rom = rom /\ "writer" \in safe["trace"].from
TraceHasRegister == safe["writer"].says = "register"

TraceStamp == {"writer"}

Trace ==
    /\ Running("trace")
    /\ \/ (~TraceReady \/ TraceCurrent \/ ~TraceHasRegister) /\ Pass
       \/ /\ TraceReady /\ ~TraceCurrent /\ TraceHasRegister
          /\ \/ Raise
             \/ \E says \in {"rom-window", "wide-rom-window", "other-definition"} :
                    Publish("trace", says, rom, TraceStamp)

\* v5_1_active_register_rom_source.py; a wide trace reads other windows too.
RomWindow(f) == f.says \in {"rom-window", "wide-rom-window"}
SourceReady == Exists({safe["trace"], local["trace"]})
SourceCurrent == safe["source"].rom = rom /\ "trace" \in safe["source"].from
SourceJoined == RomWindow(safe["trace"])

SourceStamp == {"trace"}

Source ==
    /\ Running("source")
    /\ \/ (~SourceReady \/ SourceCurrent \/ ~SourceJoined) /\ Pass
       \/ /\ SourceReady /\ ~SourceCurrent /\ SourceJoined
          /\ Raise \/ Publish("source", "confirmed", rom, SourceStamp)

----------------------------------------------------------------------------
(* The tools the critical path selects.  None of role, block, lookup, scope *)
(* and reset asks whether its own file is current.                          *)

Names(file, tools) == tools \subseteq file.from

\* v5_1_active_rom_source_role.py
RoleReady == Exists({safe["trace"], local["trace"], safe["source"], local["source"],
                     safe["route"], safe["population"], local["population"]})

\* Planted fault: only what the role names itself is compared with the ROM.
RoleJoinedLoose == /\ About({safe["trace"], safe["source"]}, rom)
                   /\ Names(safe["source"], {"trace"})

RoleJoined == /\ About({safe["trace"], safe["source"], safe["route"],
                        safe["population"]}, rom)
              /\ Names(safe["source"], {"trace"})

RoleStamp == {"source", "trace", "population"}

Role ==
    /\ Running("role")
    /\ \/ ~RoleReady /\ Pass
       \/ RoleReady /\ ~RoleJoined /\ Raise
       \/ RoleReady /\ RoleJoined /\ ~local["source"].twin /\ Raise
       \/ /\ RoleReady /\ RoleJoined
          /\ \E says \in {"unclassified", "classified"} :
                 Publish("role", says, rom, RoleStamp)

\* v5_1_active_rom_read_block.py: what the role does not require passes
\* silently, what it requires and cannot have is an error.
BlockReady == Exists({safe["source"], safe["role"], local["role"],
                      safe["population"], local["population"]})
BlockRequired == safe["role"].says = "unclassified"
BlockJoined == /\ BlockRequired
               /\ About({safe["source"], safe["role"], safe["population"],
                         local["role"]}, rom)
               /\ Names(safe["role"], {"source", "population"})
               /\ Names(local["role"], {"source"})

\* Planted fault: the stamp forgets the ROM source the selector asks for.
BlockStampShort == {"role", "population"}

\* The hashes the file carries.
BlockStamp == {"role", "source", "population"}

Block ==
    /\ Running("block")
    /\ \/ (~BlockReady \/ ~BlockRequired) /\ Pass
       \/ BlockReady /\ BlockRequired /\ ~BlockJoined /\ Raise
       \/ /\ BlockReady /\ BlockJoined
          /\ \E says \in {"lookup", "other"} :
                 Publish("block", says, rom, BlockStamp)

\* v5_1_active_rom_lookup_index_producer.py: the block counted the events that
\* read its ROM source, this tool those of the whole window; a wide trace has
\* more of the latter and never passes.
LookupReady == Exists({safe["trace"], local["trace"], safe["role"],
                       safe["block"], local["block"]})
LookupRequired == safe["block"].says = "lookup"
LookupJoined == /\ LookupRequired
                /\ About({safe["trace"], safe["role"], safe["block"],
                          local["block"]}, rom)
                /\ Names(safe["block"], {"role"}) /\ Names(local["block"], {"role"})
                /\ Names(safe["role"], {"trace"})
PopulationDisagrees == safe["trace"].says = "wide-rom-window"

\* Planted fault: the trace is left out of the hashes.
LookupStampShort == {"block", "role"}

LookupStamp == {"block", "role", "trace"}

Lookup ==
    /\ Running("lookup")
    /\ \/ (~LookupReady \/ ~LookupRequired) /\ Pass
       \/ LookupReady /\ LookupRequired /\ (~LookupJoined \/ PopulationDisagrees) /\ Raise
       \/ /\ LookupReady /\ LookupJoined /\ ~PopulationDisagrees
          /\ \E says \in {"incremental", "other"} :
                 Publish("lookup", says, rom, LookupStamp)

\* v5_1_active_rom_path_scope.py: four published files of one ROM, whatever
\* hashes they name.
ScopeInputs == {"source", "role", "block", "lookup"}

Scope ==
    /\ Running("scope")
    /\ LET inputs == {safe[t] : t \in ScopeInputs} IN
       \/ ~Exists(inputs) /\ Pass
       \/ Exists(inputs) /\ ~About(inputs, safe["source"].rom) /\ Raise
       \/ /\ Exists(inputs) /\ About(inputs, safe["source"].rom)
          /\ \E says \in {"asset", "relevant"} :
                 Publish("scope", says, safe["source"].rom, ScopeInputs)

\* v5_1_active_rom_cursor_reset.py
ResetReady == Exists({safe["trace"], local["trace"], safe["block"],
                      safe["lookup"], local["lookup"]})
ResetRequired == safe["lookup"].says = "incremental"
ResetJoined == /\ ResetRequired
               /\ About({safe["trace"], safe["block"], safe["lookup"],
                         local["lookup"]}, rom)
               /\ Names(safe["lookup"], {"block", "trace"})
               /\ Names(local["lookup"], {"block"})

ResetStamp == {"lookup", "block", "trace"}

Reset ==
    /\ Running("reset")
    /\ \/ (~ResetReady \/ ~ResetRequired) /\ Pass
       \/ ResetReady /\ ResetRequired /\ ~ResetJoined /\ Raise
       \/ ResetReady /\ ResetJoined /\ Publish("reset", "classified", rom, ResetStamp)

----------------------------------------------------------------------------
(* The critical path: what the selector prints for the files in place.     *)

\* Planted fault: a trace of several read addresses is as good as one.
TraceUsableWide == /\ Exists({safe["trace"], local["trace"]})
                   /\ safe["trace"].rom = rom /\ RomWindow(safe["trace"])

TraceUsable == /\ Exists({safe["trace"], local["trace"]})
               /\ safe["trace"].rom = rom
               /\ safe["trace"].says = "rom-window"     \* one read address

CurrentFor(t, tools) == safe[t].rom = rom /\ Names(safe[t], tools)

\* Each later question is asked only if all the earlier ones were answered.
Selection ==
    IF ~TraceUsable THEN "continue"
    ELSE IF ~CurrentFor("source", {"trace"}) THEN "source"
    ELSE IF ~CurrentFor("role", {"source"}) THEN "role"
    ELSE IF safe["role"].says # "unclassified" THEN "continue"
    ELSE IF ~CurrentFor("block", {"role", "source"}) THEN "block"
    ELSE IF safe["block"].says # "lookup" THEN "continue"
    ELSE IF ~CurrentFor("lookup", {"block", "role", "trace"}) THEN "lookup"
    ELSE IF safe["lookup"].says # "incremental" THEN "continue"
    ELSE IF ~CurrentFor("scope", ScopeInputs) THEN "scope"
    ELSE IF safe["scope"].says = "asset" THEN "translation"
    ELSE IF ~CurrentFor("reset", {"lookup", "block", "trace"}) THEN "reset"
    ELSE "continue"

\* Planted fault: a focused stage reads the role of the source again.
StageStartOver ==
    /\ queue = <<>>
    /\ queue' = CASE Selection \in Focused -> <<"role", Selection>>
                  [] Selection = "translation" -> <<>>
                  [] OTHER -> Chain
    /\ UNCHANGED <<rom, safe, local, writing, kills>>

\* The first-context stages of the translation half write none of these files.
StageStart ==
    /\ queue = <<>>
    /\ queue' = CASE Selection \in Focused -> <<Selection>>
                  [] Selection = "translation" -> <<>>
                  [] OTHER -> Chain
    /\ UNCHANGED <<rom, safe, local, writing, kills>>

----------------------------------------------------------------------------

\* A stage is killed at its time limit, between the two writes too.
Kill ==
    /\ queue # <<>> /\ kills < MaxKills
    /\ kills' = kills + 1 /\ queue' = <<>> /\ writing' = "none"
    /\ UNCHANGED <<rom, safe, local>>

\* A person puts another build of the target in place.
NewRom ==
    /\ rom < MaxRom /\ rom' = rom + 1
    /\ UNCHANGED <<safe, local, queue, writing, kills>>

Init ==
    /\ rom = 1
    /\ safe = [t \in Tools |-> Missing] /\ local = [t \in Tools |-> Missing]
    /\ queue = <<>> /\ writing = "none" /\ kills = 0

Step == \/ StageStart \/ WriteLocal
        \/ Population \/ Renderer \/ Route \/ Producer \/ Writer \/ Trace
        \/ Source \/ Role \/ Block \/ Lookup \/ Scope \/ Reset

Next == Step \/ Kill \/ NewRom

Spec == Init /\ [][Next]_vars /\ WF_vars(Step)

----------------------------------------------------------------------------
(* Properties.                                                             *)

Prepared(t) ==
    CASE t = "source" -> SourceReady /\ SourceJoined
      [] t = "role" -> RoleReady /\ RoleJoined
      [] t = "block" -> BlockReady /\ BlockJoined
      [] t = "lookup" -> LookupReady /\ LookupJoined /\ ~PopulationDisagrees
      [] t = "scope" -> LET inputs == {safe[u] : u \in ScopeInputs}
                        IN Exists(inputs) /\ About(inputs, rom)
      [] t = "reset" -> ResetReady /\ ResetJoined

\* A tool that has written both its files is not selected again by the selector
\* that reads them: what the tool stamps is what select_critical_path asks for.
NeverAskedAgain ==
    [][\A t \in Focused :
          (queue # <<>> /\ Head(queue) = t /\ queue' = Tail(queue)
             /\ (writing = t \/ safe'[t] # safe[t])) => Selection' # t]_vars

\* While no stage was killed, the tool selected after the role finds all its
\* inputs, private ones included, joined the way it demands: the selector,
\* which reads only published files, never sends a stage to work it must refuse.
LaterStagesArePrepared ==
    kills = 0 /\ queue = <<>> =>
        \A t \in {"source", "block", "lookup", "scope", "reset"} :
            Selection = t => Prepared(t)

\* The work behind an accepted role was done on the build in place, the files the
\* selector does not look at included; a build put in place in mid-chain cannot
\* lend an old route or population to the new one.
RoleRestsOnThisBuild ==
    CurrentFor("role", {"source"}) /\ CurrentFor("source", {"trace"}) =>
        /\ safe["route"].rom = rom /\ safe["population"].rom = rom
        /\ safe["renderer"].rom = rom

Stages == <<"source", "role", "block", "lookup", "scope", "reset", "translation">>

Rank(s) == IF s \in Range(Stages) THEN CHOOSE i \in DOMAIN Stages : Stages[i] = s
                                  ELSE 0

\* For one build of the ROM the boundary never moves back: a stage, killed or
\* not, leaves the selector asking for a later tool, or for none.
BoundaryNeverMovesBack ==
    [][rom' = rom /\ Rank(Selection) > 0 /\ Rank(Selection') > 0
         => Rank(Selection') >= Rank(Selection)]_vars

\* A prepared selection is left behind, if the stages are killed only finitely
\* often: no pair of selector and tool waits for the other.
PreparedStageMovesOn ==
    \A t \in {"block", "lookup", "scope", "reset"} :
        (Selection = t /\ Prepared(t)) ~> Selection # t

(* The inductive invariant behind NeverAskedAgain, LaterStagesArePrepared and *)
(* RoleRestsOnThisBuild.                                                      *)

Verdicts ==
    {"missing", "bounded", "confirmed", "unconfirmed", "ram-source", "unresolved",
     "verified", "unverified", "register", "other-source", "rom-window",
     "wide-rom-window", "other-definition", "unclassified", "classified", "lookup",
     "other", "incremental", "asset", "relevant"}

File == [rom : Nat, says : Verdicts, from : SUBSET Tools, twin : BOOLEAN]

PathTypeOK ==
    /\ rom \in Nat \ {0} /\ kills \in Nat
    /\ safe \in [Tools -> File] /\ local \in [Tools -> File]
    /\ queue \in Seq(Tools) /\ writing \in {"none"} \cup Private
    /\ writing # "none" => queue # <<>>

\* No file is about a build that is still to come.
NoFutureRom == \A t \in Tools : safe[t].rom <= rom

\* Route and role are made of files of their own build.
RouteRestsOnRenderer == safe["route"].rom = rom => safe["renderer"].rom = rom

RoleRests ==
    safe["role"].rom = rom =>
        /\ safe["route"].rom = rom /\ safe["population"].rom = rom
        /\ "population" \in safe["role"].from

\* A source that is still the one of the role has the trace of the role.
RoleNamesTrace ==
    "source" \in safe["role"].from /\ "trace" \in safe["source"].from
        => "trace" \in safe["role"].from

\* Only a kill separates a private file from the published one.
LocalMirrors ==
    kills = 0 => \A t \in Private \ {writing} : local[t] = safe[t]

\* The hashes the selector asks a file for
Demanded(t) ==
    CASE t = "source" -> {"trace"}
      [] t = "role" -> {"source"}
      [] t = "block" -> {"role", "source"}
      [] t = "lookup" -> {"block", "role", "trace"}
      [] t = "scope" -> ScopeInputs
      [] t = "reset" -> {"lookup", "block", "trace"}

\* While the private file is due the published one is what the selector asks
\* for, or a new build has made the selector ask for the trace again.
WrittenIsDemanded ==
    writing \in Focused =>
        CurrentFor(writing, Demanded(writing)) \/ safe["trace"].rom # rom

PathInv ==
    /\ PathTypeOK /\ NoFutureRom /\ RouteRestsOnRenderer /\ RoleRests
    /\ RoleNamesTrace /\ LocalMirrors /\ WrittenIsDemanded

(* What BoundaryNeverMovesBack needs to know of the running stage.            *)

\* The tools of the chain before the source
Early == {"population", "renderer", "route", "producer", "writer", "trace"}

\* A stage is a rest of the chain, which ends with trace and source, or one tool.
RestOfStage(q) ==
    \A i \in 1..Len(q) :
        /\ i < Len(q) => q[i] \in Early
        /\ i = Len(q) => q[i] \in Focused
        /\ i = Len(q) /\ i > 1 => q[i] = "source"
        /\ q[i] = "trace" => i = Len(q) - 1

QueueShape == RestOfStage(queue) /\ (writing # "none" => Head(queue) = writing)

\* The chain comes to its trace, and a focused stage to its tool, while the
\* selector still answers what started the stage, or a new build has come.
StillAsked ==
    /\ Len(queue) > 1 /\ writing # "trace" => Selection = "continue"
    /\ queue # <<>> /\ writing = "none" /\ Head(queue) \in Focused \ {"source"} =>
          Selection = Head(queue) \/ safe["trace"].rom # rom

=============================================================================
