----------------------------- MODULE GroupText -----------------------------
(***************************************************************************)
(* From the symbols of a record to text.  Symbols of a visible range draw   *)
(* the glyph of the selected font page; a page-select control and its two   *)
(* operands change the page, which is unknown at the start of a record.     *)
(* A font lists the pixels of each character; a glyph is read as the        *)
(* characters that have its pixels, or else as the one clearly nearest.     *)
(***************************************************************************)
EXTENDS HuffmanCodec, FiniteSetsExt

CONSTANTS PageSelect,    \* 0x5F
          OperandBase,   \* 0x02: the symbol of operand 0
          OperandRange,  \* 0x10: values of an operand
          FontPages,     \* FONT_PAGE_COUNT, 244
          GlyphSymbols,  \* 0x02 .. 0x20
          Tile,          \* pixels of the glyph at <<page, symbol>>
          Hangul,        \* parse_bdf_hangul of each code version: pixels by character
          Others,        \* eligible non-Hangul characters: pixels
          Canonical,     \* NFKC form of each of them
          MaxDistance,   \* HIGH_CONFIDENCE_MAX_DISTANCE, 2
          MinMargin,     \* HIGH_CONFIDENCE_MIN_MARGIN, 2
          NoSecond       \* 64, the distance of a second character that is missing

ASSUME TextAssumption == FontPages <= OperandRange * OperandRange

Pages == 0 .. FontPages - 1

----------------------------------------------------------------------------
(* The candidate decodes of a record (v5_1_group_context_resolution.py).    *)

PayloadBits(payload) ==
    FlattenSeq([b \in DOMAIN payload |->
        [k \in 1 .. ByteBits |-> (payload[b] \div 2 ^ (ByteBits - k)) % 2]])

\* What was read, encoded again, is the bits it was read from.
SameBits(trees, bits, context, read) ==
    /\ read.symbols # Error
    /\ EncodeSymbols(trees, read.symbols, context, Len(bits)) = SubSeq(bits, 1, read.next - 1)

\* try_decode: the symbols up to the first terminator
TryDecode(trees, bits, context) ==
    LET read == DecodeSymbols(trees, bits, context)
    IN  IF SameBits(trees, bits, context, read) THEN read.symbols ELSE Error

DecodeFrom1(trees, payload, context) == TryDecode(trees, PayloadBits(payload), context)

\* classify_context_candidates: symbols by initial context
CandidateDecodes(trees, payload) ==
    LET contexts == {c \in DOMAIN trees : DecodeFrom1(trees, payload, c) # Error}
    IN  [c \in contexts |-> DecodeFrom1(trees, payload, c)]

----------------------------------------------------------------------------
(* Tokens (v5_1_visible_unicode_mapping.py).                                *)

\* match_masks: the characters of a font with the pixels of a glyph; pages
\* past the font have no entry.
Read(font, page, symbol) ==
    IF page \notin Pages THEN {} ELSE {c \in DOMAIN font : font[c] = Tile[<<page, symbol>>]}

Operands == OperandBase .. OperandBase + OperandRange - 1

\* _map_visible_symbols_with_page; a truncated or unknown page select raises.
Tokens(symbols, font, start) ==
    LET from[k \in Nat, page \in Nat] ==     \* those of the symbols from the k-th on
            IF k > Len(symbols) THEN <<>>
            ELSE LET symbol == symbols[k]
                     select == symbol = PageSelect
                     next   == IF select THEN (symbols[k + 1] - OperandBase) * OperandRange
                                               + (symbols[k + 2] - OperandBase)
                               ELSE page
                     token  == [kind |-> CASE symbol = End -> "terminator"
                                           [] select -> "page-select"
                                           [] symbol \in GlyphSymbols -> "glyph"
                                           [] OTHER -> "control",
                                page |-> next, symbol |-> symbol,
                                read |-> IF symbol \in GlyphSymbols
                                         THEN Read(font, page, symbol) ELSE {}]
                 IN  IF select /\ (k + 2 > Len(symbols)
                                    \/ ~({symbols[k + 1], symbols[k + 2]} \subseteq Operands))
                     THEN <<[kind |-> "raise", page |-> page, symbol |-> symbol, read |-> {}]>>
                     ELSE <<token>> \o from[IF select THEN k + 3 ELSE k + 1, next]
    IN  from[1, start]

Raises(tokens) == \E k \in DOMAIN tokens : tokens[k].kind = "raise"

CountOf(tokens, Test(_)) == Cardinality({k \in DOMAIN tokens : Test(tokens[k])})
IsGlyph(t) == t.kind = "glyph"
IsUnique(t) == IsGlyph(t) /\ Cardinality(t.read) = 1
IsUnmatched(t) == IsGlyph(t) /\ t.read = {}
IsAmbiguous(t) == IsGlyph(t) /\ Cardinality(t.read) > 1
IsSelect(t) == t.kind = "page-select"

\* Unmatched glyphs first, then ambiguous ones, then unique ones, most first.
PageScore(tokens) ==
    <<CountOf(tokens, IsUnmatched), CountOf(tokens, IsAmbiguous), -CountOf(tokens, IsUnique)>>

\* The order of Python tuples of one length
Below(a, b) == \E k \in DOMAIN a : a[k] < b[k] /\ \A j \in 1 .. k - 1 : a[j] = b[j]
Best(items, Score(_)) == {x \in items : \A y \in items : ~Below(Score(y), Score(x))}

\* map_visible_symbols: the start pages that read the record best; none is
\* listed if it selects one itself.
InitialPages(symbols, font) ==
    IF PageSelect \in Range(symbols) THEN {}
    ELSE Best(Pages, LAMBDA p : PageScore(Tokens(symbols, font, p)))

VisibleTokens(symbols, font) ==
    Tokens(symbols, font,
           IF PageSelect \in Range(symbols) THEN 0 ELSE Min(InitialPages(symbols, font)))

----------------------------------------------------------------------------
(* The text of a record (v5_1_group_text_candidate_resolution.py).          *)

\* The readings of a stream as text: it draws and it selects a page.  A
\* malformed page select fails the trial of that start page only.
PageTrials(stream, font, pages) ==
    {t \in {[stream |-> stream, page |-> p, tokens |-> Tokens(stream, font, p)] : p \in pages} :
        ~Raises(t.tokens) /\ CountOf(t.tokens, IsGlyph) > 0 /\ CountOf(t.tokens, IsSelect) > 0}

ControlSymbols(tokens) ==
    CountOf(tokens, LAMBDA t : t.kind \in {"terminator", "control"})
      + 3 * CountOf(tokens, IsSelect)

TrialScore(t) == PageScore(t.tokens) \o <<ControlSymbols(t.tokens), Len(t.stream)>>

\* The best reading of a stream; that of the lowest page of several.
SelectedTrial(stream, font, pages) ==
    CHOOSE t \in Best(PageTrials(stream, font, pages), LAMBDA u : TrialScore(u) \o <<u.page>>) : TRUE

\* resolve_group_text_candidates, for one record: the streams that read best.
\* The record has text only if there is exactly one.
BestStreams(trees, payload, font, pages) ==
    Best({SelectedTrial(s, font, pages) :
              s \in {c \in Range(CandidateDecodes(trees, payload)) : PageTrials(c, font, pages) # {}}},
         TrialScore)

HasText(trees, payload, font, pages) ==
    Cardinality(BestStreams(trees, payload, font, pages)) = 1

TextTokens(trees, payload, font, pages) ==
    (CHOOSE t \in BestStreams(trees, payload, font, pages) : TRUE).tokens

\* analyze_confirmed_group_unicode: the pages that read a set of records best
\* together; a malformed page select raises here.
TotalScore(streams, font, page) ==
    LET Sum(k) == FoldFunction(+, 0, [r \in DOMAIN streams |->
                                         PageScore(Tokens(streams[r], font, page))[k]])
    IN  <<Sum(1), Sum(2), Sum(3)>>

CoveragePages(streams, font, pages) == Best(pages, LAMBDA p : TotalScore(streams, font, p))

----------------------------------------------------------------------------
(* Glyphs without a character (v5_1_unmatched_glyph_fuzzy.py and            *)
(* v5_1_target_group_non_hangul_glyphs.py).                                 *)

\* mask_distance: the pixels two glyphs do not share
Distance(a, b) == Cardinality((a \ b) \cup (b \ a))

Nearest(mask, font) == {c \in DOMAIN font : \A d \in DOMAIN font :
                            Distance(mask, font[c]) <= Distance(mask, font[d])}

\* nearest_glyphs: one nearest character, near, and well before the next one
HighConfidence(mask, font) ==
    LET near   == Nearest(mask, font)
        first  == Distance(mask, font[CHOOSE c \in near : TRUE])
        second == {Distance(mask, font[c]) : c \in DOMAIN font \ near} \cup {NoSecond}
    IN  Cardinality(near) = 1 /\ first <= MaxDistance /\ Min(second) - first >= MinMargin

\* The coordinates of the unmatched glyphs of records' tokens
Unmatched(texts) ==
    {<<t.page, t.symbol>> : t \in {u \in UNION {Range(tokens) : tokens \in texts} : IsUnmatched(u)}}

InFont(glyphs) == {g \in glyphs : g[1] \in Pages}

\* analyze_unmatched_glyphs: the high-confidence override of each coordinate
FuzzyOverrides(glyphs, font) ==
    [g \in {g \in InFont(glyphs) : HighConfidence(Tile[g], font)} |->
        CHOOSE c \in Nearest(Tile[g], font) : TRUE]

Exact(g) == {c \in DOMAIN Others : Others[c] = Tile[g]}

\* classify_exact_non_hangul: the one exact character, or the one form all
\* exact characters stand for
NonHangulOverrides(glyphs) ==
    [g \in {g \in InFont(glyphs) :
              /\ Cardinality({Canonical[c] : c \in Exact(g)}) = 1
              /\ Cardinality(Exact(g)) = 1 \/ Canonical[CHOOSE c \in Exact(g) : TRUE] \in DOMAIN Others} |->
        LET c == CHOOSE c \in Exact(g) : TRUE
        IN  IF Cardinality(Exact(g)) = 1 THEN c ELSE Canonical[c]]

=============================================================================
