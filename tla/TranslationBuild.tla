--------------------------- MODULE TranslationBuild ---------------------------
(***************************************************************************)
(* From the rows of a context window to a ROM with their translation: the   *)
(* batch a person reviews and approves                                      *)
(* (v5_1_first_context_translation_review.py, ..._approval.py), the records *)
(* the approved texts are encoded for (..._encoding.py), the plan that puts *)
(* them back (v5_1_first_context_record_reinsertion.py), and the test ROM   *)
(* (v5_1_first_context_translation_test_build.py).                          *)
(*                                                                         *)
(* A target text is named by the source text it was written for.  How a     *)
(* text becomes symbols and bits is the subject of RowEncoding; here it has *)
(* an encoding or none fits.                                                *)
(***************************************************************************)
EXTENDS GlyphReview, ImageWrites

CONSTANTS Encoded,     \* by text: the bytes it encodes to
          TileOf,      \* by text: a byte for the tiles of its characters
          Decodable,   \* records that decode and encode again to themselves
          FontAt       \* first byte of the font page the new glyphs go to

\* The font lies in the banks from 0x22 on, behind the one of the records.
ASSUME FontAssumption == FontAt \in Nat /\ FontAt >= BankEnd
ASSUME EncodedAssumption == \A text \in DOMAIN Encoded : Encoded[text] \in Seq(Nat)

\* build_first_context_review_rows does not raise
Reviewable(rows) == rows # <<>> /\ AllMapped(rows) /\ LinesInStep(rows)

\* first_context_review_batch_sha256
Batch(rows) ==
    [i \in DOMAIN rows |-> [text |-> rows[i].pair.text, speaker |-> rows[i].pair.speaker]]

\* analyze_first_context_translation_capacity does not raise
HasCapacity(batch, targets) == Len(batch) = Len(targets) /\ Len(batch) >= MinEntries

\* What the encoder and the plan make of a stored context: its records, read
\* again from the pairs that are stored now
Rejoined(rows, pairs) == ContextRows([i \in DOMAIN rows |-> rows[i].entry], pairs)

\* resolve_runtime_records_from_visible_anchor, from the record on the screen
VisibleWalk(at, n) == RecordsFrom(Image.bytes, at, n, Cardinality(DOMAIN Image.bytes))

\* build_runtime_codec_constraints: the record of the coordinates, or the one
\* as far behind the visible record if the first does not decode
RecordOf(rows, walk, i) ==
    IF rows[i].pair.at \in Decodable THEN rows[i].pair.at ELSE walk[i].at

\* locate_preserved_occurrences: the rows are joined with the stored pairs by
\* their lines, and hold the preserved glyphs as often as was decided
PreservedAreFound(rows, pairs, preserved) ==
    LET of(r) == {p \in DOMAIN pairs : pairs[p].line = r.pair.line}
        found == FlattenSeq([i \in DOMAIN rows |->
                     pairs[CHOOSE p \in of(rows[i]) : TRUE].record.unread])
    IN  /\ \A i \in DOMAIN rows : of(rows[i]) # {}
        /\ \A g \in DOMAIN preserved :
               Cardinality({k \in DOMAIN found : found[k] = g}) = preserved[g].occurrences

\* What the encoder needs of its inputs, before it looks for symbols: rows of a
\* context, as they were stored and as the pairs of now have their records
Encodable(stored, pairs, targets, preserved, visible) ==
    LET rows == Rejoined(stored, pairs)
        walk == VisibleWalk(visible, Len(rows))
    IN  /\ AllMapped(stored) /\ PreservedAreFound(stored, pairs, preserved)
        /\ rows # <<>> /\ AllMapped(rows)
        /\ Len(walk) = Len(rows) /\ \A i \in DOMAIN walk : walk[i].end > walk[i].at + 1
        /\ visible = rows[1].pair.at
        /\ \A i \in DOMAIN rows : RecordOf(rows, walk, i) \in Decodable
        /\ Len(targets) = Len(rows)
        /\ \A i \in DOMAIN rows :
               Len(Encoded[targets[i]]) <= Image.bytes[RecordOf(rows, walk, i)]

EncodedRows(rows, targets, visible) ==
    LET walk == VisibleWalk(visible, Len(rows))
    IN  [i \in DOMAIN rows |-> [at |-> RecordOf(rows, walk, i), text |-> targets[i],
                                bytes |-> Encoded[targets[i]]]]

\* One tile per row stands for the glyphs its text needs.
Tiles(rows) == [i \in DOMAIN rows |-> TileOf[rows[i].text]]

\* build_reinsertion_rows does not raise
Insertable(rows, pairs, encoded) ==
    /\ Len(rows) = Len(encoded) /\ Len(rows) >= MinEntries /\ AllMapped(rows)
    /\ \A i \in DOMAIN encoded : \E p \in DOMAIN pairs : pairs[p].at = encoded[i].at

ReinsertionRows(rows, encoded) ==
    [i \in DOMAIN rows |->
        [at |-> encoded[i].at, bytes |-> encoded[i].bytes, aliases |-> Aliases(encoded[i].at),
         selected |-> <<rows[i].entry.selector, rows[i].entry.ordinal>>]]

\* build_first_context_record_reinsertion: "plan-ready"
ReinsertionReady(plan) ==
    /\ \A i, j \in DOMAIN plan :
           i # j => plan[i].at # plan[j].at /\ plan[i].aliases \cap plan[j].aliases = {}
    /\ \A i \in DOMAIN plan : plan[i].selected \in plan[i].aliases

Slice(bytes, at, n) == [k \in 1 .. n |-> bytes[at + k - 1]]

WriteTo(at, after, end) ==
    [at |-> at, before |-> Slice(Image.bytes, at, Len(after)), after |-> after,
     lo |-> at, hi |-> end]

\* build_translation_writes: the font, then the records; a font write that
\* changes nothing is left out.  The code sorts the records by their offset;
\* writes that do not overlap leave the same bytes in any order.
Plan(tiles, plan) ==
    LET font == WriteTo(FontAt, tiles, FontAt + Len(tiles))
    IN  (IF font.before = font.after THEN <<>> ELSE <<font>>)
        \o [i \in DOMAIN plan |->
               WriteTo(plan[i].at + 1, plan[i].bytes,
                       plan[i].at + 1 + Image.bytes[plan[i].at])]

Buildable(tiles, plan) ==
    ValidPlan(Image.bytes, Plan(tiles, plan)) /\ IpsCanHold(Plan(tiles, plan))

\* verify_translation_build: every length byte is as it was, every record
\* starts with what was encoded, every tile is in place
Verified(rom, plan, encoded) ==
    /\ Len(plan) >= MinEntries /\ encoded # <<>>
    /\ \A i \in DOMAIN plan :
           /\ rom[plan[i].at] = Image.bytes[plan[i].at]
           /\ encoded[i].bytes = plan[i].bytes
           /\ Slice(rom, plan[i].at + 1, Len(encoded[i].bytes)) = encoded[i].bytes
    /\ Slice(rom, FontAt, Len(encoded)) = Tiles(encoded)

=============================================================================
