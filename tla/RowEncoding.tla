---------------------------- MODULE RowEncoding ----------------------------
(***************************************************************************)
(* The tool that writes the reviewed lines of the first scene into the      *)
(* game's text records (v5_1_first_context_translation_encoding.py): it     *)
(* reads what each record decodes to, shortens the lines, gives every line  *)
(* font pages of its own, lets the searches place its characters, draws     *)
(* them into the font and encodes the lines.                                *)
(*                                                                         *)
(* A search may give up (it counts the nodes it visits), so any page can be *)
(* passed over; where nothing is found the tool fails and writes no row.    *)
(***************************************************************************)
EXTENDS FixedCountRows, RowLayout

CONSTANTS Vectors,       \* stored trees of each context
          Scenes,        \* [way, texts, originals]: reviewed lines, the text
                         \* [entry, initial, spare] of their records, and how
                         \* the first row is drawn: "plain", "proven", "direct"
                         \* or "none": no row, the searches alone
          ProvenPage,    \* EXPANSION_PAGE
          ExtraSymbols,  \* DIRECT_RENDERER_EXTRA_SYMBOL_COUNT
          Limits,        \* record sizes, in bits, the searches are looked at for
          Captures       \* [samples, page, distance, map]: screens seen, and where
                         \* the glyphs on them lie

Slots == Pages \X (Glyphs \cup {Select})

\* Stored trees are codecs.
ASSUME VectorsAssumption == \A v \in Vectors : IsCodec(LoadTrees(v))

\* A record was read from the context captured for it, and its text ended; only
\* of the canonical context nothing is known.
ASSUME ScenesAssumption ==
    \A s \in Scenes :
        /\ s.texts \in Seq(Seq(Nat)) /\ (s.way # "none" => s.texts # <<>>)
        /\ s.originals \in Seq([entry : Seq(Nat), initial : Nat, spare : Nat])
        /\ Len(s.originals) = Len(s.texts)
        /\ \A o \in ToSet(s.originals) :
              o.initial = End \/ (Terminated(o.entry) /\ Len(o.entry) <= MaxSymbols)

\* Every glyph on the screen lies in the font where map says, all of them at one
\* distance from their tiles; slots are those that hold the same picture.
SeenIn(c, sample) ==
    /\ sample.decoded \in DOMAIN c.map /\ sample.tile = c.map[sample.decoded] + c.distance
    /\ <<c.page, c.map[sample.decoded]>> \in sample.slots
    /\ sample.slots \subseteq Slots /\ IsFiniteSet(sample.slots)

ASSUME CapturesAssumption ==
    \A c \in Captures :
        /\ c.page \in Pages /\ c.distance \in Int
        /\ Len(c.samples) \in Nat /\ DOMAIN c.samples = 1 .. Len(c.samples)
        /\ \A k \in DOMAIN c.samples : SeenIn(c, c.samples[k])

\* DIRECT_RENDERER_EXTRA_SYMBOL_COUNT = 0
ASSUME ExtraAssumption == ExtraSymbols = 0

VARIABLES way, capture,  \* the command line, and what the direct way rests on
          demands,       \* row -> [text, payload, observed]
          phase, limits, lines, pages, rows, font, audit

vars == <<trees, way, capture, demands, phase, limits, lines, pages, rows, font, audit>>

Blank == 0
Rows == DOMAIN demands

\* A record: its bits, rest of the last byte and spare bytes from older text.
Payload(original) ==
    LET bits == Bits(trees, original.initial, original.entry)
        size == (Bytes(bits) + original.spare) * ByteBits
    IN  [k \in 1 .. size |-> IF k <= Len(bits) THEN bits[k] ELSE 1]

Characters == UNION {UNION {ToSet(s.texts[k]) : k \in DOMAIN s.texts} : s \in Scenes}

\* The font holds one tile that already is a character of the text, at worst
\* where a row may want another one.
Init ==
    /\ trees \in {LoadTrees(v) : v \in Vectors}
    /\ \E s \in Scenes :
         /\ \A o \in ToSet(s.originals) : Encodable(trees, o.initial, o.entry)
         /\ way = s.way
         /\ demands = [k \in DOMAIN s.texts |-> [text |-> s.texts[k],
                                                 payload |-> Payload(s.originals[k]),
                                                 observed |-> s.originals[k].initial]]
         /\ capture \in IF way = "direct" THEN Captures
                        ELSE {[samples |-> <<>>, page |-> -1, map |-> <<>>]}
         /\ font \in {[x \in Slots |-> IF x = <<ProvenPage, 2>> THEN c ELSE -1] :
                         c \in IF way = "none" THEN {-1} ELSE Characters}
    /\ phase = "constraints" /\ limits = <<>> /\ lines = <<>> /\ pages = <<>> /\ rows = <<>>
    /\ audit = <<>>

Fail == /\ phase' = "failed"
        /\ UNCHANGED <<trees, way, capture, demands, limits, lines, pages, rows, font, audit>>

----------------------------------------------------------------------------
(* What the records hold.                                                   *)

\* The contexts to try: the one captured, then the canonical one.
ContextCandidates(d) == IF d.observed = End THEN <<End>> ELSE <<d.observed, End>>

\* decode_symbols, encode_symbols and _bits_equal: the record reads back.
ReadsBack(d, context) ==
    LET decoded == DecodeSymbols(trees, d.payload, context)
    IN  /\ decoded.symbols # Error
        /\ Cardinality({k \in DOMAIN decoded.symbols : decoded.symbols[k] = End}) = 1
        /\ EncodeSymbols(trees, decoded.symbols, context, Len(d.payload))
             = SubSeq(d.payload, 1, decoded.next - 1)

ConstraintOf(d, context) ==
    [initial |-> context, capacity |-> Len(d.payload),
     count |-> Len(DecodeSymbols(trees, d.payload, context).symbols)]

\* build_runtime_codec_constraints: the first context that reads back.
BuildConstraints ==
    /\ phase = "constraints" /\ way # "none"
    /\ LET readable(d) == {c \in DOMAIN ContextCandidates(d) : ReadsBack(d, ContextCandidates(d)[c])}
       IN  IF \E k \in Rows : readable(demands[k]) = {} THEN Fail
           ELSE /\ limits' = [k \in Rows |->
                                ConstraintOf(demands[k], ContextCandidates(demands[k])[
                                               Min(readable(demands[k]))])]
                /\ phase' = "layout"
                /\ UNCHANGED <<trees, way, capture, demands, lines, pages, rows, font, audit>>

\* build_runtime_layout_rows; the first row is the compact one.
Layout ==
    /\ phase = "layout"
    /\ LET laid == [k \in Rows |-> LayoutRow(demands[k].text, limits[k].count, k = 1)]
       IN  IF \E k \in Rows : laid[k].refused THEN Fail
           ELSE /\ lines' = laid /\ phase' = "select"
                /\ UNCHANGED <<trees, way, capture, demands, limits, pages, rows, font, audit>>

----------------------------------------------------------------------------
(* Pages, then rows: each row is solved twice, with the same result.        *)

\* Planted fault: pages of earlier rows are forgotten.
UsedPagesForgotten == {}

UsedPages == UNION Range(pages)

IsWay(k, w) == k = 1 /\ way = w

\* The rows the searches return for row k on a set of pages.
SolvedOn(k, group) ==
    LET l == limits[k]
        n == Len(lines[k].text)
    IN  IF IsWay(k, "proven")
        THEN UNION {SolveByteAlignedRow(l.initial, l.capacity, l.count, p, n) :
                      p \in {q \in group : group = {q}}}
        ELSE IF Cardinality(group) = 1
        THEN UNION {SolveFixedCountRow(l.initial, l.capacity, l.count, p, n) : p \in group}
        ELSE SolveFixedCountRowMultiPage(l.initial, l.capacity, l.count, group, n)

\* Groups tried for a row: a page, but never one page where three selections
\* are due, or as many pages as selections.
CandidateGroups(k) ==
    LET n      == Len(lines[k].text)
        tokens == Tokens(limits[k].count, lines[k].text)
        free   == Pages \ UsedPages
        single == IF ~IsWay(k, "proven") /\ tokens = 3 THEN {} ELSE {{p} : p \in free}
        groups == IF ~IsWay(k, "proven") /\ tokens \in {2, 3} THEN kSubset(tokens, free) ELSE {}
    IN  {g \in single \cup groups : SolvedOn(k, g) # {}}

DirectMap == InferPhysicalMap(capture.samples)

\* select_row_font_pages, one row.
SelectRowFontPages ==
    /\ phase = "select"
    /\ LET k == Len(pages) + 1
       IN  /\ \/ /\ IsWay(k, "direct") /\ DirectMap # NoMap
                 /\ pages' = Append(pages, {DirectMap.page})
              \/ /\ ~IsWay(k, "direct")
                 /\ \E g \in CandidateGroups(k) : pages' = Append(pages, g)
           /\ phase' = IF k = Len(demands) THEN "build" ELSE phase
    /\ UNCHANGED <<trees, way, capture, demands, limits, lines, rows, font, audit>>

\* RowRouteError, or no page known for the direct way.
NoRoute == phase \in {"select", "build"} /\ Fail

Padded(visuals, n) == visuals \o [k \in 1 .. n - Len(visuals) |-> Blank]

\* The rows build_single_page_symbol_rows may give: the solved one, with the
\* visual of every slot, or the direct one, which holds one symbol more.
Built(k) ==
    LET l == limits[k]
        n == l.count + ExtraSymbols
        visuals == Padded(lines[k].text, n - 1)
    IN  IF IsWay(k, "direct")
        THEN IF Len(lines[k].text) > n - 1 THEN {}
             ELSE {[symbols |-> r.symbols, slots |-> r.slots, visuals |-> visuals, count |-> n] :
                     r \in SolveDirectRow(l.initial, l.capacity, visuals, DirectMap.page,
                                          DirectMap.map)}
        ELSE {[symbols |-> r.symbols, slots |-> r.slots,
               visuals |-> Padded(lines[k].text, Len(r.slots)),
               count |-> IF IsWay(k, "proven") THEN Len(r.symbols) ELSE l.count] :
                 r \in SolvedOn(k, pages[k])}

BuildRow ==
    /\ phase = "build"
    /\ LET k == Len(rows) + 1
       IN  /\ ~(IsWay(k, "proven") /\ pages[k] # {ProvenPage})
           /\ \E r \in Built(k) : rows' = Append(rows, r)
           /\ phase' = IF k = Len(demands) THEN "overlay" ELSE phase
    /\ UNCHANGED <<trees, way, capture, demands, limits, lines, pages, font, audit>>

----------------------------------------------------------------------------
(* Font and text.                                                           *)

\* Every assignment of every row; tiles that already look right are not
\* written, and two different writes to one tile are refused.
Writes == UNION {{<<rows[k].slots[j], rows[k].visuals[j]>> : j \in DOMAIN rows[k].slots} : k \in Rows}

BuildFontOverlay ==
    /\ phase = "overlay"
    /\ LET made == {w \in Writes : font[w[1]] # w[2]}
       IN  IF \E v, w \in made : v[1] = w[1] /\ v # w THEN Fail
           ELSE /\ font' = [s \in Slots |-> IF \E w \in made : w[1] = s
                                            THEN (CHOOSE w \in made : w[1] = s)[2] ELSE font[s]]
                /\ phase' = "encode"
                /\ UNCHANGED <<trees, way, capture, demands, limits, lines, pages, rows, audit>>

\* A row is encoded, decoded by its count, and counted as one that agrees.
RoundTrips(k) ==
    LET r    == rows[k]
        bits == EncodeSymbolCount(trees, r.symbols, limits[k].initial, limits[k].capacity)
        back == DecodeSymbolCount(trees, Pad(bits), limits[k].initial, r.count)
    IN  /\ bits # Error
        /\ back.symbols = r.symbols /\ back.next = Len(bits) + 1
        /\ Len(r.symbols) = r.count /\ Last(r.symbols) = End

EncodeRows ==
    /\ phase = "encode"
    /\ audit' = [k \in Rows |-> RoundTrips(k)]
    /\ phase' = "done"
    /\ UNCHANGED <<trees, way, capture, demands, limits, lines, pages, rows, font>>

Next == \/ BuildConstraints \/ Layout \/ SelectRowFontPages \/ BuildRow \/ NoRoute
        \/ BuildFontOverlay \/ EncodeRows

Spec == Init /\ [][Next]_vars
----------------------------------------------------------------------------
(* Properties.                                                              *)

\* The renderer, read from its own side: a selection takes two digits and
\* draws nothing, the terminator draws nothing, all else is drawn.
Render(screen, symbol) ==
    CASE screen.digits = 2 -> [screen EXCEPT !.page = (symbol - 2) * 16, !.digits = 1]
      [] screen.digits = 1 -> [screen EXCEPT !.page = @ + symbol - 2, !.digits = 0]
      [] screen.digits = 0 /\ symbol = Select -> [screen EXCEPT !.digits = 2]
      [] screen.digits = 0 /\ symbol = End -> screen
      [] OTHER -> [screen EXCEPT !.drawn = Append(@, <<screen.page, symbol>>)]

Screen(symbols) ==
    LET after[k \in 0 .. Len(symbols)] ==
            IF k = 0 THEN [page |-> -1, digits |-> 0, drawn |-> <<>>]
            ELSE Render(after[k - 1], symbols[k])
    IN  after[Len(symbols)]

Drawn(symbols) == Screen(symbols).drawn

\* What the player sees of row k; of the direct way only symbols whose place
\* was seen on a screen are sure.
Seen(k) ==
    IF IsWay(k, "direct")
    THEN [j \in DOMAIN rows[k].slots |->
            IF rows[k].symbols[j] \in DOMAIN DirectMap.map
            THEN font[<<capture.page, capture.map[rows[k].symbols[j]]>>] ELSE rows[k].visuals[j]]
    ELSE LET drawn == Drawn(rows[k].symbols) IN [j \in DOMAIN drawn |-> font[drawn[j]]]

\* When all rows are in the font, every one of them shows its line, and after
\* it only blanks: no other row, and no glyph of its own, has taken its tiles.
RenderedAsReviewed ==
    phase \in {"encode", "done"} =>
        \A k \in Rows : Seen(k) = Padded(lines[k].text, Len(rows[k].slots))

\* Written over the old record, the row is all that the runtime reads: it
\* takes as many symbols as the old text had, and never the old bits behind.
OldTextIsNotRead ==
    phase = "done" => \A k \in Rows : ~IsWay(k, "proven") =>
        LET d   == demands[k]
            new == Pad(Bits(trees, limits[k].initial, rows[k].symbols))
            record == new \o SubSeq(d.payload, Len(new) + 1, Len(d.payload))
            old == DecodeSymbols(trees, d.payload, d.observed).symbols
        IN  /\ Len(record) = Len(d.payload)
            /\ DecodeSymbolCount(trees, record, d.observed, Len(old)).symbols = rows[k].symbols

LeftOut(short, long) ==
    \E place \in [DOMAIN short -> DOMAIN long] :
        /\ \A i \in DOMAIN short : long[place[i]] = short[i]
        /\ \A i, j \in DOMAIN short : i < j => place[i] < place[j]

\* A line is only shortened: what the row shows is the reviewed line with
\* characters left out, never one more.
LayoutOnlyRemoves ==
    \A k \in DOMAIN lines : LeftOut(lines[k].text, demands[k].text)

\* Is there any row at all?  Any page tokens anywhere, no slot twice.
AnyGlyph(group, at) ==
    {[previous |-> x[2], page |-> x[3], used |-> at.used \cup {<<x[3], x[2]>>},
      left |-> at.left - Cost(at.previous, x[1] \o <<x[2]>>)] :
        x \in {y \in Controls(at.previous, at.left) \X Glyphs \X group :
                 /\ IF y[1] = <<>> THEN y[3] = at.page ELSE Selects(y[1], y[3])
                 /\ <<y[3], y[2]>> \notin at.used
                 /\ LeavesRoom(at.previous, y[1] \o <<y[2]>>, at.left)}}

AnyRow(initial, group, n, limit) ==
    LET reached[k \in 0 .. n] ==
            IF k = 0 THEN {[previous |-> initial, page |-> -1, used |-> {}, left |-> limit]}
            ELSE UNION {AnyGlyph(group, at) : at \in reached[k - 1]}
    IN  \E at \in reached[n] : Within(at.previous, <<End>>, at.left)

\* Entries written one behind the other read back, though an entry may end, and
\* the next begin, in the middle of a byte.
EntriesReadBack ==
    way = "none" =>
        \A entries \in [1 .. 2 -> {Append(text, End) : text \in SeqOf(Glyphs, 2)}] :
            LET bits == EncodeEntries(trees, entries, End, MaxSymbols * ByteBits)
            IN  bits # Error => DecodeEntries(trees, Pad(bits), End, 2) = entries

\* The bounded search over several pages finds a row whenever there is one,
\* though it follows only the cheapest ways, as few as there are glyphs for each
\* context, and searches no place again with fewer bits left.
BoundedSearchIsComplete ==
    way = "none" =>
        \A n \in 1 .. 3, limit \in Limits :
            AnyRow(End, Pages, n, limit)
                => SolveBoundedLengthRowMultiPage(End, limit, Pages, n) # {}

=============================================================================
