----------------------------- MODULE GlyphReview -----------------------------
(***************************************************************************)
(* The glyphs of a context window that nothing could read: what is asked    *)
(* for (v5_1_runtime_context_glyph_demand.py), what the analyses of the     *)
(* fonts know of it (..._candidates.py), the cards a person looks at        *)
(* (..._review.py), and the decision to keep them as they are               *)
(* (..._preservation.py).  That decision was taken once, for one set of     *)
(* cards, and is stored in the code as the numbers it had.                  *)
(***************************************************************************)
EXTENDS SourcePairs

CONSTANTS FuzzyKnown,      \* glyphs of the expanded fuzzy analysis
          ExactStatus,     \* by glyph: what the non-Hangul analysis says
          Ink,             \* by glyph: pixels set
          ReviewedCards,   \* EXPECTED_REVIEW_COUNTS
          ReviewedShapes   \* EXPECTED_SHAPE_COUNTS

\* analyze_runtime_context_glyph_demand: the unread glyphs, row by row
Demand(rows) == [i \in DOMAIN rows |-> rows[i].pair.record.unread]

\* main: rows without unread glyphs are those of the tiers that say so
DemandAgrees(rows, demand) ==
    LET clear == {i \in DOMAIN demand : demand[i] = <<>>}
        tiers == {i \in DOMAIN rows :
                     Tier(rows[i].pair.record) \in {"translation-ready", "non-hangul-review"}}
    IN  Cardinality(clear) = Cardinality(tiers)

Glyphs(demand) == Range(FlattenSeq(demand))
Occurrences(demand) ==
    [g \in Glyphs(demand) |->
        Cardinality({k \in DOMAIN FlattenSeq(demand) : FlattenSeq(demand)[k] = g})]

\* analyze_runtime_context_glyph_candidates
Cards(demand) ==
    [g \in Glyphs(demand) |->
        [fuzzy |-> g \in FuzzyKnown, exact |-> ExactStatus[g],
         occurrences |-> Occurrences(demand)[g]]]
Classified(cards) == \A g \in DOMAIN cards : cards[g].fuzzy

\* _next_checkpoint
CandidatesCheckpoint(cards) ==
    LET exact == {cards[g].exact : g \in DOMAIN cards}
    IN  IF ~Classified(cards) \/ exact \cap {"missing", "out-of-range"} # {} THEN "trace-font-source"
        ELSE IF exact \cap {"unique", "equivalent"} # {} THEN "reconcile-overrides"
        ELSE IF "ambiguous" \in exact THEN "ambiguity-review" ELSE "analyze-transform"

\* build_runtime_glyph_review_rows: what the review publishes of its cards
ReviewCounts(cards, demand) ==
    [cards       |-> Cardinality(DOMAIN cards),
     occurrences |-> Len(FlattenSeq(demand)),
     ambiguous   |-> Cardinality({g \in DOMAIN cards : cards[g].exact = "ambiguous"}),
     unmatched   |-> Cardinality({g \in DOMAIN cards : cards[g].exact = "unmatched"})]

Shapes(cards) ==
    [blank  |-> Cardinality({g \in DOMAIN cards : Ink[g] = 0}),
     marker |-> Cardinality({g \in DOMAIN cards : Ink[g] = 1}),
     visual |-> Cardinality({g \in DOMAIN cards : Ink[g] > 1})]

\* main and analyze_runtime_glyph_preservation do not raise: a card without a
\* mask cannot be shaped, and the numbers are those a person once looked at
Preservable(cards, counts) ==
    /\ cards # <<>> /\ Classified(cards)
    /\ counts = ReviewedCards /\ Shapes(cards) = ReviewedShapes

=============================================================================
