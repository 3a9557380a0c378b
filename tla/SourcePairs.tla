----------------------------- MODULE SourcePairs -----------------------------
(***************************************************************************)
(* Which line of the original script a record of the ROM translates.        *)
(* One record and one line are known to belong together (the anchor).  The  *)
(* lines around it are paired with the records around it by their distance  *)
(* (v5_1_source_target_section_projection.py); a run of the game that shows *)
(* the records one after the other corroborates the pairs                   *)
(* (v5_1_source_target_runtime_sequence.py, ..._runtime_context.py).        *)
(*                                                                         *)
(* A corpus maps the offset of every record with text to what was read of   *)
(* it, [unread, hangul, readable, controls]; a source is a sequence of       *)
(* sections, a section a sequence of lines [text, speaker].                 *)
(***************************************************************************)
EXTENDS GroupRecords

CONSTANTS Image,            \* the target ROM
          AnchorSelector,   \* CONFIRMED_SELECTOR
          AnchorOrdinal,    \* CONFIRMED_ORDINAL
          AnchorText,       \* the line with digest SOURCE_LINE_SHA256
          Narration,        \* the speaker of a line without one
          MinEntries,       \* rows of a context window, 4
          MaxRejected,      \* MAX_REJECTED_TARGET_HITS
          MaxPresses,       \* POST_ANCHOR_ATTEMPT_LIMIT
          EntryGoal         \* POST_ANCHOR_ENTRY_GOAL

ASSUME ImageAssumption == IsImage(Image)
ASSUME AnchorAssumption ==
    /\ AnchorSelector \in ValidSelectors(Image) \cap Nat /\ AnchorOrdinal \in Nat
    /\ MinEntries \in Nat \ {0} /\ {MaxRejected, MaxPresses} \subseteq Nat

\* The records the selector of the anchor addresses, as [ordinal, at], in order
ByOrdinal ==
    LET walk == Addressed(Image, AnchorSelector)
    IN  [k \in DOMAIN walk |-> [ordinal |-> k - 1, at |-> walk[k].at]]

Aliases(at) ==
    {p \in ValidSelectors(Image) \X (0 .. Addressable - 1) :
        /\ p[2] + 1 \in DOMAIN Addressed(Image, p[1])
        /\ Addressed(Image, p[1])[p[2] + 1].at = at}

WithText(corpus) == Kept(ByOrdinal, {r \in Range(ByOrdinal) : r.at \in DOMAIN corpus})

\* v5_1_target_group_record_quality.py
Tier(record) ==
    IF record.hangul THEN IF record.unread = <<>> THEN "translation-ready" ELSE "glyph-recovery"
    ELSE IF record.readable THEN "non-hangul-review" ELSE "structure-review"

AnchorLines(source) ==
    {p \in UNION {{s} \X DOMAIN source[s] : s \in DOMAIN source} :
        source[p[1]][p[2]].text = AnchorText}

\* resolve_sequence_anchor does not raise
AnchorIsUnique(corpus, source) ==
    /\ \E k \in DOMAIN WithText(corpus) : WithText(corpus)[k].ordinal = AnchorOrdinal
    /\ Cardinality(AnchorLines(source)) = 1

Section(source) == source[(CHOOSE p \in AnchorLines(source) : TRUE)[1]]
AnchorLine(source) == (CHOOSE p \in AnchorLines(source) : TRUE)[2]

\* project_anchored_section: lines with no record at their distance have no pair
Pairs(corpus, source) ==
    LET records == WithText(corpus)
        anchor  == CHOOSE k \in DOMAIN records : records[k].ordinal = AnchorOrdinal
        other(l) == anchor + l - AnchorLine(source)
        lines   == Kept([l \in DOMAIN Section(source) |-> l],
                        {l \in DOMAIN Section(source) : other(l) \in DOMAIN records})
    IN  [p \in DOMAIN lines |->
            [line |-> lines[p], text |-> Section(source)[lines[p]].text,
             speaker |-> Section(source)[lines[p]].speaker,
             ordinal |-> records[other(lines[p])].ordinal, at |-> records[other(lines[p])].at,
             record |-> corpus[records[other(lines[p])].at]]]

ProjectionReady(pairs, source) == Len(pairs) = Len(Section(source))

\* analyze_structural_corroboration: speakers change where the control symbols
\* of the records do, and some controls return with one speaker only
Corroborated(pairs) ==
    LET all      == DOMAIN pairs
        controls(p) == pairs[p].record.controls
        bounds   == all \ {1}
        speech   == {p \in bounds : pairs[p].speaker # pairs[p - 1].speaker}
        shape    == {p \in bounds : controls(p) # controls(p - 1)}
        agree    == {p \in bounds : p \in speech <=> p \in shape}
        same(p)  == {q \in all : controls(q) = controls(p)}
        spoken(p) == {q \in same(p) : pairs[q].speaker # Narration}
        pure     == {p \in all : /\ controls(p) # <<>>
                                 /\ Max(same(p)) - Min(same(p)) >= 2
                                 /\ Cardinality(spoken(p)) >= 2
                                 /\ Cardinality({pairs[q].speaker : q \in spoken(p)}) = 1}
    IN  /\ Cardinality(bounds) >= 5 /\ Cardinality(speech) >= 2 /\ Cardinality(shape) >= 2
        /\ 2 * Cardinality(speech \cap shape) >= Cardinality(speech)
        /\ 10 * Cardinality(agree) >= 7 * Cardinality(bounds)
        /\ pure # {}

----------------------------------------------------------------------------
(* The records the running game showed, as [selector, ordinal].             *)

Entries == [selector : Nat, ordinal : Nat]
AnchorEntry == [selector |-> AnchorSelector, ordinal |-> AnchorOrdinal]
Silence == [selector |-> 0, ordinal |-> 0]     \* no record within the time allowed

\* capture_runtime_sequence, of a play as the sequence of what the game shows:
\* the entries from the anchor on, until enough are of its selector or the
\* button was pressed often enough; <<>> if the anchor was not reached
Captured(play) ==
    LET found   == {k \in 1 .. Min({MaxRejected, Len(play)}) :
                       play[k] = AnchorEntry /\ \A h \in 1 .. k - 1 : play[h] # Silence}
        rest    == SubSeq(play, Min(found) + 1, Min({Len(play), Min(found) + MaxPresses}))
        same(n) == {k \in 1 .. n : rest[k].selector = AnchorSelector}
        enough  == {n \in DOMAIN rest : Cardinality(same(n)) = EntryGoal} \cup {Len(rest)}
    IN  IF found = {} THEN <<>>
        ELSE <<AnchorEntry>> \o Kept(SubSeq(rest, 1, Min(enough)), Range(rest) \ {Silence})

SameSelector(seen) == Kept(Tail(seen), {e \in Range(seen) : e.selector = AnchorSelector})

\* Planted fault: the steps are counted, not whether each is one record on.
SequenceStatusCounted(seen) ==
    IF Len(SameSelector(seen)) >= MinEntries - 1 THEN "ready" ELSE "partial"

\* summarize_runtime_sequence
SequenceStatus(seen) ==
    LET same == SameSelector(seen)
    IN  IF /\ Len(same) >= MinEntries - 1
           /\ \A k \in DOMAIN same : same[k].ordinal = AnchorOrdinal + k THEN "ready"
        ELSE IF same # <<>> THEN "partial" ELSE "unresolved"

NoPair == [line |-> 0]

Matches(entry, pairs) ==
    {p \in DOMAIN pairs : /\ entry.selector = AnchorSelector
                          /\ entry.ordinal = pairs[p].ordinal}

\* map_runtime_context: the pair of every record shown
ContextRows(seen, pairs) ==
    [i \in DOMAIN seen |->
        [entry |-> seen[i],
         pair  |-> IF Cardinality(Matches(seen[i], pairs)) = 1
                   THEN pairs[CHOOSE p \in Matches(seen[i], pairs) : TRUE] ELSE NoPair]]

AllMapped(rows) == \A i \in DOMAIN rows : rows[i].pair # NoPair

LinesInStep(rows) ==
    \A i \in DOMAIN rows \ {1} : rows[i].pair.line = rows[i - 1].pair.line + 1

\* Planted fault: entries without a pair do not count against a window.
ContextReadyOfMapped(rows) ==
    LET mapped == Kept(rows, {r \in Range(rows) : r.pair # NoPair})
    IN  Len(mapped) >= MinEntries /\ LinesInStep(mapped)

\* map_runtime_context: "ready"
ContextReady(rows) == Len(rows) >= MinEntries /\ AllMapped(rows) /\ LinesInStep(rows)

=============================================================================
