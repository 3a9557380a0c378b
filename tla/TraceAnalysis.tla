--------------------------- MODULE TraceAnalysis ---------------------------
(***************************************************************************)
(* The analyses that follow one traced read of the target ROM back to the  *)
(* code and data it came from (v5_1_active_rom_*.py).  They all read the   *)
(* same instruction trace; each publishes a class and counts, and the next *)
(* tool starts only for some classes.  The behaviour of this module is the *)
(* emulator filling the trace; every analysis is an operator on it.        *)
(*                                                                         *)
(* An event is one executed instruction: its effect op on the pair that    *)
(* addresses the read (HL, say), the pair's value at before it, and the    *)
(* value the instruction leaves in the pair.  "exchange" stands for the    *)
(* instructions that change the pair unseen by _defined_registers: EX, EXX,*)
(* the block moves and the CB rotations.                                   *)
(***************************************************************************)
EXTENDS Integers, FiniteSets, SequencesExt, FiniteSetsExt

CONSTANTS Program,        \* the basic blocks of the traced program
          Operands,       \* values a literal load puts into the pair
          Worlds,         \* mapper bank, script records, executed code, transfer
          BackWindow,     \* MAX_BACKTRACK_INSTRUCTIONS, 32
          ResetWindow,    \* MAX_RESET_BACKTRACK_INSTRUCTIONS, 256
          GlyphBytes,     \* 8
          TileBytes,      \* 32
          MaxBlocks,      \* bound: basic blocks before the first loop
          MaxTrace        \* bound: length of the trace

\* What a pair of registers holds
Pair == 0 .. 65535

ASSUME TraceAssumption ==
    /\ BackWindow \in Nat \ {0} /\ ResetWindow \in Nat \ {0}
    /\ GlyphBytes \in Nat \ {0} /\ TileBytes \in Nat \ {0}
    /\ Operands \subseteq Pair /\ Operands # {}

Loads   == {"literal", "arithmetic", "memory", "stack", "split"}
Cursor  == {"increment", "decrement"}
Effects == {"target", "exchange", "none"} \cup Loads \cup Cursor

ASSUME ProgramAssumption == Program \subseteq Seq(Effects)

\* A script record has its length byte at length, its payload in first .. end - 1.
ASSUME WorldsAssumption ==
    \A w \in Worlds :
        /\ {w.bank, w.transfer} \subseteq Nat
        /\ IsFiniteSet(w.records)
        /\ \A r \in w.records : {r.length, r.first, r.end} \subseteq Nat

VARIABLES world, trace,
          blocks          \* basic blocks executed before the first loop

vars == <<world, trace, blocks>>

----------------------------------------------------------------------------
(* Addresses.                                                              *)

SlotSize == 16384
RomEnd   == 3 * SlotSize

\* source_slot: only addresses of the three ROM windows have one.
SourceSlot(address) == address \div SlotSize

Physical(bank, address) == bank * SlotSize + (address % SlotSize)

\* physical_source_region
PhysicalSourceRegion(offset) ==
    CASE offset < 524288                      -> "original-rom"
      [] offset \in 524544 .. 525055          -> "korean-huffman-vector"
      [] offset \in 525056 .. 526546          -> "korean-huffman-tree"
      [] offset \in 552960 .. 553738          -> "korean-font-runtime-primary"
      [] offset \in 553984 .. 554227          -> "korean-font-page-map"
      [] offset \in 555520 .. 555676          -> "korean-font-runtime-secondary"
      [] offset \in 557056 .. 1556479         -> "korean-font-data"
      [] OTHER                                -> "expanded-runtime-other"

----------------------------------------------------------------------------
(* What the trace shows.                                                   *)

\* _definition_members: the instructions the tools see changing the pair.
Defines(op) == op \in Loads \cup Cursor

TargetEvents == {i \in DOMAIN trace : trace[i].op = "target"}

\* The read the ROM-source tool confirmed: the last one of the trace, taken
\* by analyze_register_trace as the definition the RAM writer used.
LogicalSource == trace[Max(TargetEvents)].at

\* analyze_active_rom_... all start from a confirmed read of a ROM window.
Confirmed == TargetEvents # {} /\ LogicalSource < RomEnd

\* Planted fault: every read of a ROM window matches, whatever its slot.
MatchingReadsAnySlot == {i \in TargetEvents : trace[i].at < RomEnd}

\* collect_matching_reads, and the same-slot filter of analyze_source_role: the
\* events that read from the window of the source
MatchingReads ==
    {i \in TargetEvents :
        trace[i].at < RomEnd /\ SourceSlot(trace[i].at) = SourceSlot(LogicalSource)}

Unique(reads) == {trace[i].at : i \in reads}

Span(set) == Max(set) - Min(set) + 1

\* Reads followed by a read d bytes further
Steps(reads, d) ==
    Cardinality({i \in reads : \E j \in reads :
                    /\ i < j /\ \A k \in reads : k <= i \/ k >= j
                    /\ trace[j].at = trace[i].at + d})

----------------------------------------------------------------------------
(* v5_1_active_rom_source_role.py                                          *)

InPayload(r, offset) == offset \in r.first .. r.end - 1
TransferTiles == IF world.transfer % TileBytes = 0 THEN world.transfer \div TileBytes ELSE 0

AnalyzeSourceRole ==
    LET reads   == MatchingReads
        offset  == Physical(world.bank, LogicalSource)
        payload == {r \in world.records : InPayload(r, offset)}
        length  == {r \in world.records : r.length = offset}
        code    == offset \in world.executed
        unique  == Unique(reads)
        contiguous == Span(unique) = Cardinality(unique)
        role == CASE payload # {} -> "script-record-payload"
                  [] payload = {} /\ length # {} -> "script-record-length"
                  [] payload \cup length = {} /\ code -> "executed-code"
                  [] /\ payload \cup length = {} /\ ~code
                     /\ TransferTiles > 0 /\ contiguous
                     /\ Cardinality(unique) >= GlyphBytes -> "renderer-source-candidate"
                  [] OTHER -> "unclassified-data"
    IN  [role     |-> role,
         events   |-> Cardinality(TargetEvents),
         reads    |-> reads,
         script   |-> Cardinality(payload) + Cardinality(length),
         executed |-> IF code THEN 1 ELSE 0]

----------------------------------------------------------------------------
(* v5_1_active_rom_read_block.py                                           *)

LookupPatterns == {"fixed-stride-lookup-candidate", "scattered-lookup-candidate"}

\* _contiguous_runs: the maximal blocks of neighbouring offsets.
ContiguousRuns(set) ==
    {run \in {{x \in set : a <= x /\ x <= b} : a, b \in set} :
        /\ run # {} /\ Span(run) = Cardinality(run)
        /\ Min(run) - 1 \notin set /\ Max(run) + 1 \notin set}

Gaps(set) == {Min({b \in set : b > a}) - a : a \in set \ {Max(set)}}

\* Planted fault: the length byte of a record is not taken for script.
ScriptPayloads(offsets) == {m \in offsets \X world.records : InPayload(m[2], m[1])}

ScriptMatches(offsets) ==
    {m \in offsets \X world.records : m[2].length = m[1] \/ InPayload(m[2], m[1])}

AnalyzeReads(reads) ==
    LET logical  == Unique(reads)
        physical == {Physical(world.bank, a) : a \in logical}
        fixed    == Cardinality(physical) >= 3 /\ Cardinality(Gaps(physical)) = 1
                    /\ Min(Gaps(physical)) > 1
        matches  == ScriptMatches(physical)
        longest  == Max({Cardinality(run) : run \in ContiguousRuns(physical)})
        repeated == Cardinality(reads) - Cardinality(logical)
    IN  [pattern |->
            CASE matches # {} -> "script-record-neighborhood-candidate"
              [] matches = {} /\ longest >= GlyphBytes -> "contiguous-block-candidate"
              [] matches = {} /\ longest < GlyphBytes /\ fixed
                    -> "fixed-stride-lookup-candidate"
              [] /\ matches = {} /\ longest < GlyphBytes /\ ~fixed
                 /\ Cardinality(logical) >= 3 /\ repeated > 0
                    -> "scattered-lookup-candidate"
              [] Cardinality(logical) = 1 /\ matches = {} /\ GlyphBytes > 1
                    -> "single-source-value"
              [] OTHER -> "mixed-unresolved",
         occurrences |-> Cardinality(reads),
         unique      |-> Cardinality(logical),
         projected   |-> Cardinality(physical),
         span        |-> Span(physical),
         repeated    |-> repeated,
         script      |-> Cardinality(matches),
         forward     |-> Steps(reads, 1),
         backward    |-> Steps(reads, -1),
         same        |-> Steps(reads, 0)]

----------------------------------------------------------------------------
(* v5_1_active_rom_lookup_index_producer.py                                *)

\* The last visible definition of the pair in the window before event i.
Definitions(i, window) == {j \in i - window .. i - 1 : j >= 1 /\ Defines(trace[j].op)}

\* Planted fault: the two directions are categories of their own.
CategoryRaw(op) == op

\* _definition_category
Category(op) == IF op \in Cursor THEN "incremental" ELSE op

\* _producer_class
ProducerClass(categories, matched, total) ==
    CASE matched = 0 -> "producer-not-observed"
      [] matched > 0 /\ (matched # total \/ Cardinality(categories) # 1)
            -> "mixed-producer-unresolved"
      [] OTHER -> CHOOSE c \in categories : TRUE

AnalyzeLookupIndexProducer ==
    LET matched  == {i \in TargetEvents : Definitions(i, BackWindow) # {}}
        producer == [i \in matched |-> Max(Definitions(i, BackWindow))]
        category == [i \in matched |-> Category(trace[producer[i]].op)]
    IN  [class   |-> ProducerClass({category[i] : i \in matched},
                                   Cardinality(matched), Cardinality(TargetEvents)),
         events  |-> Cardinality(TargetEvents),
         unique  |-> Cardinality(Unique(TargetEvents)),
         matched |-> Cardinality(matched),
         counted |-> [c \in Loads \cup {"incremental"} |->
                        Cardinality({i \in matched : category[i] = c})]]

----------------------------------------------------------------------------
(* v5_1_active_rom_cursor_reset.py                                         *)

\* _signed_stride
SignedStride(op) == IF op = "increment" THEN 1 ELSE -1

\* The cursor step that produced the address read at event i; 0 when another
\* definition, or none, comes first.
CursorStep(i) ==
    LET seen == Definitions(i, BackWindow)
    IN  IF seen # {} /\ trace[Max(seen)].op \in Cursor THEN Max(seen) ELSE 0

\* The definition that set the cursor before the steps of the same direction.
ResetOf(p) ==
    LET seen == {j \in Definitions(p, ResetWindow) : trace[j].op # trace[p].op}
    IN  IF seen = {} THEN 0 ELSE Max(seen)

\* Planted fault: the cursor step before the read itself is not counted.
StepsBefore(r, p) == Cardinality({j \in r + 1 .. p - 1 : trace[j].op = trace[p].op})

StepsAfter(r, p) == Cardinality({j \in r + 1 .. p : trace[j].op = trace[p].op})

\* A literal reset plus the steps after it gives the address that was read.
Projects(i, p, r) ==
    /\ trace[r].op = "literal"
    /\ (trace[r].value + SignedStride(trace[p].op) * StepsAfter(r, p)) % 65536
            = trace[i].at

\* _reset_class
ResetClass(categories, resets, targets, strides) ==
    CASE resets = 0 -> "reset-outside-trace-window"
      [] /\ resets > 0
         /\ \/ resets # targets
            \/ strides # 1
            \/ Cardinality(categories) # 1
            \/ categories = {"unknown"} -> "mixed-reset-unresolved"
      [] OTHER -> CHOOSE c \in categories : TRUE

AnalyzeCursorReset ==
    LET cursor  == {i \in TargetEvents : CursorStep(i) # 0}
        stride  == [i \in cursor |-> SignedStride(trace[CursorStep(i)].op)]
        reset   == [i \in cursor |-> ResetOf(CursorStep(i))]
        found   == {i \in cursor : reset[i] # 0}
        kind    == [i \in found |-> IF trace[reset[i]].op \in Cursor THEN "unknown"
                                    ELSE trace[reset[i]].op]
        strides == {stride[i] : i \in cursor}
    IN  [class    |-> ResetClass({kind[i] : i \in found}, Cardinality(found),
                                 Cardinality(TargetEvents), Cardinality(strides)),
         events   |-> Cardinality(TargetEvents),
         stepped  |-> Cardinality(cursor),
         forward  |-> Cardinality({i \in cursor : stride[i] = 1}),
         backward |-> Cardinality({i \in cursor : stride[i] = -1}),
         strides  |-> Cardinality(strides),
         resets   |-> Cardinality(found),
         counted  |-> [c \in Loads \cup {"unknown"} |->
                        Cardinality({i \in found : kind[i] = c})],
         projected |-> Cardinality({i \in found : Projects(i, CursorStep(i), reset[i])})]

----------------------------------------------------------------------------
(* v5_1_active_rom_path_scope.py                                           *)

\* The trace reads the same few bytes again and again, one byte of each plane
\* of a tile, while tiles are transferred: a picture, not a text.
AnalyzePathScope(role, block, lookup) ==
    LET tiles == TransferTiles
        asset ==
            /\ PhysicalSourceRegion(Physical(world.bank, LogicalSource)) = "original-rom"
            /\ role.role = "unclassified-data"
            /\ block.pattern \in LookupPatterns
            /\ lookup.class = "incremental"
            /\ block.unique = GlyphBytes
            /\ block.span \in GlyphBytes .. TileBytes
            /\ tiles >= 2
            /\ block.occurrences >= (tiles - 1) * block.unique
            /\ block.repeated > block.unique
            /\ lookup.matched = block.occurrences
            /\ role.script + block.script = 0
            /\ role.executed = 0
    IN  IF asset THEN "repeated-interleaved-renderer-asset-candidate"
                 ELSE "translation-path-unresolved"

----------------------------------------------------------------------------
(* The aggregates each validate_... recomputes before a file is accepted.  *)

ValidReadBlock(block) ==
    /\ block.occurrences >= block.unique
    /\ block.repeated = block.occurrences - block.unique
    /\ block.unique = block.projected

ValidLookup(lookup) ==
    /\ lookup.events >= lookup.matched
    /\ SumFunction(lookup.counted) = lookup.matched

ValidCursorReset(cursor) ==
    /\ cursor.events >= cursor.stepped
    /\ cursor.stepped = cursor.forward + cursor.backward
    /\ cursor.resets = SumFunction(cursor.counted)
    /\ cursor.resets >= cursor.projected

----------------------------------------------------------------------------
(* The path from the confirmed read to its scope: what each tool demands   *)
(* of the tool before it.                                                  *)

Role   == AnalyzeSourceRole
Block  == AnalyzeReads(Role.reads)
Lookup == AnalyzeLookupIndexProducer
Reset  == AnalyzeCursorReset

BlockRuns  == Confirmed /\ Role.role = "unclassified-data"
LookupRuns == BlockRuns /\ Block.pattern \in LookupPatterns

\* main of the lookup tool: it reads the trace again and must count what the
\* read block counted.
PopulationAgrees == Lookup.events = Block.occurrences /\ Lookup.unique = Block.unique

ResetRuns == LookupRuns /\ PopulationAgrees /\ Lookup.class = "incremental"

----------------------------------------------------------------------------
(* The emulator writes the trace.                                          *)

After(op, at, v) ==
    CASE op = "increment" -> (at + 1) % 65536
      [] op = "decrement" -> (at - 1) % 65536
      [] op \in Loads \cup {"exchange"} -> v
      [] OTHER -> at

Event(op, at, v) == [op |-> op, at |-> at, value |-> After(op, at, v)]

Step(tr, e) ==
    Append(tr, Event(e.op, IF tr = <<>> THEN Min(Operands) ELSE Last(tr).value, e.value))

\* The trace with the effects of more behind it, each from where the one before
\* it left the pair; a load takes its value from the record.
Run(tr, more) ==
    LET first[n \in 0 .. Len(more)] == IF n = 0 THEN tr ELSE Step(first[n - 1], more[n])
    IN  first[Len(more)]

Init == world \in Worlds /\ trace = <<>> /\ blocks = 0

Execute(block) ==
    /\ blocks < MaxBlocks /\ blocks' = blocks + 1
    /\ \E v \in IF "literal" \in ToSet(block) THEN Operands ELSE {Max(Operands)} :
            trace' = Run(trace, [k \in DOMAIN block |-> [op |-> block[k], value |-> v]])
    /\ UNCHANGED world

\* The loop the program runs: the same instructions again, from the state the
\* first pass left.
Loop ==
    /\ trace # <<>> /\ 2 * Len(trace) <= MaxTrace
    /\ trace' = Run(trace, trace)
    /\ blocks' = MaxBlocks /\ UNCHANGED world

Next == (\E block \in Program : Execute(block)) \/ Loop

Spec == Init /\ [][Next]_vars

----------------------------------------------------------------------------
(* Properties.                                                             *)

\* Every builder ends with a call of its validator, which raises when the
\* counts disagree (v5_1_active_rom_read_block.py:335, ..._lookup_index_producer
\* .py:411, ..._cursor_reset.py:394).  No trace makes a tool refuse its own
\* result.
NoToolRefusesItself ==
    /\ BlockRuns => ValidReadBlock(Block)
    /\ LookupRuns => ValidLookup(Lookup)
    /\ ResetRuns => ValidCursorReset(Reset)

\* The lookup tool counts the reads of the whole trace, the read block only
\* those in the window of the source.  The tool goes on exactly when the traced
\* instruction never read outside that window; otherwise it raises on every run
\* (v5_1_active_rom_lookup_index_producer.py:497).
PopulationIsTheSlot ==
    LookupRuns =>
        (PopulationAgrees <=>
            \A i \in TargetEvents :
                SourceSlot(trace[i].at) = SourceSlot(LogicalSource))

\* A cursor reset from literals with no instruction in the trace that changes the
\* pair unseen predicts every address that was read, also across the end of the
\* address space; a count of predictions below the count of resets therefore shows
\* that the class rests on an instruction the tools do not see.
LiteralResetPredictsReads ==
    ResetRuns /\ Reset.class = "literal"
        /\ (\A i \in DOMAIN trace : trace[i].op # "exchange")
        => Reset.projected = Reset.resets

\* A path is given up as a picture only if no byte that any traced read touched,
\* the source included, belongs to a script record: four tools each looked at a
\* part of the reads (v5_1_active_rom_path_scope.py:146).
PictureIsNoText ==
    ResetRuns /\ AnalyzePathScope(Role, Block, Lookup)
                    = "repeated-interleaved-renderer-asset-candidate"
        => \A i \in TargetEvents : \A r \in world.records :
              LET p == Physical(world.bank, trace[i].at)
              IN  r.length # p /\ ~InPayload(r, p)

=============================================================================
