--------------------------- MODULE FixedCountRows ---------------------------
(***************************************************************************)
(* The searches for rows the runtime reads by a fixed number of symbols:    *)
(* its text consumer does not stop at the first terminator, so what the row *)
(* does not fill would be read from the old record.  As in RowSolvers a     *)
(* search is the set of the rows it can return.                             *)
(***************************************************************************)
EXTENDS RowSolvers

\* Runs of k page tokens of one page.
Repeated(token, k) == FlattenSeq([j \in 1 .. k |-> token])

----------------------------------------------------------------------------
(* solve_fixed_count_row_visual_symbols                                     *)

\* initial_routes: the page of the row, after at most one temporary page.
Leads(page, extra) ==
    {PageToken(page)} \cup {PageToken(q) \o PageToken(page) : q \in {p \in Pages : extra > 0}}

\* The page tokens of a row
TokensIn(row) == (Len(row.symbols) - Len(row.slots)) \div 3

\* Planted fault: a single token left over is forgotten.
TailsShort(page, left) ==
    IF left = 1 THEN {<<End>>} ELSE {Repeated(PageToken(page), left) \o <<End>>}

\* final_tail: the tokens left over stand before the terminator, where no
\* glyph sees them; one may be of any page.
Tails(page, left) ==
    IF left = 1 THEN {PageToken(q) \o <<End>> : q \in Pages}
    ELSE {Repeated(PageToken(page), left) \o <<End>>}

\* One glyph more, on a slot of its own, after some of the tokens left over.
Spread(initial, limit, tokens, rows) ==
    {r \in UNION {{Draw(row, [via |-> Repeated(PageToken(row.page), k), page |-> row.page,
                              glyph |-> g]) :
                     k \in 0 .. tokens - TokensIn(row),
                     g \in {h \in Glyphs : <<row.page, h>> \notin ToSet(row.slots)}} : row \in rows} :
        Within(initial, r.symbols, limit)}

FixedCountPossible(count, n) == count - n - 1 >= 3 /\ (count - n - 1) % 3 = 0

SolveFixedCountRow(initial, limit, count, page, n) ==
    LET tokens == (count - n - 1) \div 3
        starts == {Start(run, page) :
                     run \in {l \in Leads(page, tokens - 1) : LeavesRoom(initial, l, limit)}}
        drawn[k \in 0 .. n] ==
            IF k = 0 THEN starts ELSE Spread(initial, limit, tokens, drawn[k - 1])
    IN  IF ~FixedCountPossible(count, n) THEN {}
        ELSE {r \in UNION {{Finish(row, t) : t \in Tails(page, tokens - TokensIn(row))} :
                           row \in drawn[n]} : Within(initial, r.symbols, limit)}

----------------------------------------------------------------------------
(* solve_fixed_count_row_multi_page_visual_symbols                          *)

\* The pages a row may go on with: its own, and once it has a glyph the next
\* one of the order.
PagesAhead(order, row) ==
    {row.page} \cup {order[i + 1] : i \in {j \in 1 .. Len(order) - 1 :
                                              order[j] = row.page /\ row.slots # <<>>}}

\* segment_path: one glyph more, distinct from those of its page.
Segments(initial, limit, order, rows) ==
    {r \in UNION {{Draw(row, [via |-> IF p = row.page THEN <<>> ELSE PageToken(p), page |-> p,
                              glyph |-> g]) :
                     p \in PagesAhead(order, row), g \in Glyphs} : row \in rows} :
        /\ Last(r.slots) \notin ToSet(Front(r.slots))
        /\ Within(initial, r.symbols, limit)}

\* One segment on each page, in any order of the pages, none empty.
SegmentedRow(initial, limit, order, n) ==
    LET first == PageToken(Head(order))
        drawn[k \in 0 .. n] ==
            IF k = 0 THEN {Start(run, Head(order)) :
                             run \in {t \in {first} : LeavesRoom(initial, t, limit)}}
            ELSE Segments(initial, limit, order, drawn[k - 1])
    IN  {r \in {Finish(row, <<End>>) : row \in {x \in drawn[n] : x.page = Last(order)}} :
            Within(initial, r.symbols, limit)}

SegmentedRows(initial, limit, pages, n) ==
    UNION {SegmentedRow(initial, limit, order, n) : order \in SetToSeqs(pages)}

\* atoms of pad_row_to_runtime_symbol_count: page tokens and single symbols
NextAtom(symbols, split) ==
    LET at   == split.next
        size == IF at + 2 <= Len(symbols) /\ \E p \in Pages : SubSeq(symbols, at, at + 2) = PageToken(p)
                THEN 3 ELSE 1
    IN  IF at > Len(symbols) THEN split
        ELSE [atoms |-> Append(split.atoms, SubSeq(symbols, at, at + size - 1)), next |-> at + size]

Atoms(symbols) ==
    LET split[k \in 0 .. Len(symbols)] ==
            IF k = 0 THEN [atoms |-> <<>>, next |-> 1] ELSE NextAtom(symbols, split[k - 1])
    IN  split[Len(symbols)].atoms

PageTokenOf(atom) == {p \in Pages : atom = PageToken(p)}

PageAfter(atom, page) == IF PageTokenOf(atom) = {} THEN page ELSE CHOOSE p \in PageTokenOf(atom) : TRUE

\* What may be put before an atom: before a glyph only the page it is drawn
\* from, before another selection or the end any page, before the end also ends.
Fillers(atoms, row) ==
    LET atom == atoms[row.taken + 1]
        last == row.taken + 1 = Len(atoms) /\ atom = <<End>>
        free == PageTokenOf(atom) # {} \/ last \/ row.page = -1
    IN  {PageToken(p) : p \in IF free THEN Pages ELSE {row.page}}
        \cup (IF last THEN {<<End>>} ELSE {})

\* A row being padded goes on with its next atom, or with a filler before it.
Placed(row, atom) ==
    [symbols |-> row.symbols \o atom, page |-> PageAfter(atom, row.page),
     taken |-> row.taken + 1, room |-> row.room]

Filled(row, filler) ==
    [symbols |-> row.symbols \o filler, page |-> PageAfter(filler, row.page),
     taken |-> row.taken, room |-> row.room - Len(filler)]

PadStep(initial, limit, atoms, rows) ==
    LET open == {r \in rows : r.taken < Len(atoms)}
    IN  {r \in {Placed(row, atoms[row.taken + 1]) : row \in open} : Within(initial, r.symbols, limit)}
        \cup {r \in UNION {{Filled(row, f) : f \in {x \in Fillers(atoms, row) : Len(x) <= row.room}} :
                           row \in open} : LeavesRoom(initial, r.symbols, limit)}

PadFrom(initial, limit, atoms, room) ==
    LET padded[k \in 0 .. Len(atoms) + room] ==
            IF k = 0 THEN {[symbols |-> <<>>, page |-> -1, taken |-> 0, room |-> room]}
            ELSE PadStep(initial, limit, atoms, padded[k - 1])
    IN  {r.symbols : r \in {x \in UNION {padded[k] : k \in 0 .. Len(atoms) + room} :
                               x.taken = Len(atoms) /\ x.room = 0}}

PadRow(initial, limit, count, symbols) ==
    IF Len(symbols) > count THEN {}
    ELSE IF Len(symbols) = count THEN {symbols}
    ELSE PadFrom(initial, limit, Atoms(symbols), count - Len(symbols))

\* Two or three tokens for as many pages: segments; more: nothing; else a
\* bounded row padded, or an exact one that happens to have the count.
SolveFixedCountRowMultiPage(initial, limit, count, pages, n) ==
    LET controls == count - n - 1
        tokens   == IF controls >= 0 /\ controls % 3 = 0 THEN controls \div 3 ELSE -1
        bounded  == SolveBoundedLengthRowMultiPage(initial, limit, pages, n)
        padded   == UNION {{Row(s, row.slots) : s \in PadRow(initial, limit, count, row.symbols)} :
                           row \in bounded}
    IN  IF tokens \in {2, 3} /\ Cardinality(pages) = tokens
        THEN SegmentedRows(initial, limit, pages, n)
        ELSE IF tokens >= 3 \/ bounded = {} THEN {}
        ELSE FirstOf(padded,
                     UNION {{row \in SolveExactLengthRowMultiPage(initial, bits, pages, n) :
                               Len(row.symbols) = count} : bits \in 1 .. limit})

----------------------------------------------------------------------------
(* The first row: on the page proved visible, or drawn without selections.  *)

\* blank_suffix: one glyph more that no visible character uses (a glyph of no
\* bits would not come nearer to the length and is never taken).
OneBlankMore(initial, bits, free, rows) ==
    {r \in UNION {{Draw(row, [via |-> <<>>, page |-> row.page, glyph |-> g]) : g \in free} :
                  row \in rows} :
        /\ LeavesRoom(initial, r.symbols, bits)
        /\ Cost(initial, Front(r.symbols)) < Cost(initial, r.symbols)}

\* Blanks and the terminator behind a row, to an exact length.
BlankPadded(initial, bits, free, row) ==
    LET blank[k \in 0 .. bits] ==
            IF k = 0 THEN {row} ELSE OneBlankMore(initial, bits, free, blank[k - 1])
    IN  {r \in {Finish(x, <<End>>) : x \in UNION {blank[k] : k \in 0 .. bits}} :
            Follows(initial, r.symbols) /\ Cost(initial, r.symbols) = bits}

\* solve_exact_length_row_blank_padded_visual_symbols: a fixed-count row of the
\* text and blanks, its terminator replaced by further blanks up to bits.
SolveBlankPaddedRow(initial, bits, limit, count, page, n) ==
    LET glyphs == count - 4
        frozen == {row \in SolveFixedCountRow(initial, limit, count, page, glyphs) :
                      Cost(initial, Front(row.symbols)) < bits}
        unseen(row) == Glyphs \ {row.slots[k][2] : k \in 1 .. n}
    IN  IF glyphs < n THEN {}
        ELSE UNION {BlankPadded(initial, bits, unseen(row),
                                [symbols |-> Front(row.symbols), slots |-> row.slots, page |-> page]) :
                    row \in frozen}

\* solve_byte_aligned_row_blank_padded_visual_symbols: the shortest whole bytes.
SolveByteAlignedRow(initial, limit, count, page, n) ==
    LET rows(b) == SolveBlankPaddedRow(initial, b * ByteBits, limit, count, page, n)
        sizes   == {b \in 1 .. (limit \div ByteBits) : rows(b) # {}}
    IN  IF sizes = {} THEN {} ELSE rows(Min(sizes))

\* infer_direct_renderer_physical_symbol_map: samples of a decoded symbol, the
\* tile seen on the screen and the font slots that hold that picture.
NoMap == [page |-> -1]

InferPhysicalMap(samples) ==
    LET pairs(s)  == {<<t[1], s.tile - t[2]>> : t \in s.slots}
        common    == {x \in UNION {pairs(samples[k]) : k \in DOMAIN samples} :
                         \A k \in DOMAIN samples : x \in pairs(samples[k])}
        pair      == CHOOSE x \in common : TRUE
        at(s)     == s.tile - pair[2]
        decoded   == {samples[k].decoded : k \in DOMAIN samples}
        functional == \A j, k \in DOMAIN samples :
                         samples[j].decoded = samples[k].decoded => at(samples[j]) = at(samples[k])
    IN  IF samples = <<>> \/ Cardinality(common) # 1 \/ ~functional THEN NoMap
        ELSE [page |-> pair[1],
              map |-> [d \in decoded |-> at(samples[CHOOSE k \in DOMAIN samples :
                                                      samples[k].decoded = d])]]

\* physical_symbols.get(symbol, symbol + font_slot_shift), with no shift
Physical(map, symbol) == IF symbol \in DOMAIN map THEN map[symbol] ELSE symbol

\* solve_direct_renderer_proof_symbols: no selections; a glyph may serve twice
\* when it shows the same visual, and so may its place in the font.  The
\* page-select symbol is a glyph here.
Shows(row, place, visuals) ==
    \A j \in DOMAIN row.slots :
        row.slots[j][2] = place => visuals[j] = visuals[Len(row.slots) + 1]

DirectMore(initial, limit, visuals, map, rows) ==
    {r \in UNION {{[symbols |-> Append(row.symbols, g),
                    slots |-> Append(row.slots, <<row.page, Physical(map, g)>>),
                    page |-> row.page] :
                     g \in {h \in Glyphs \cup {Select} : Shows(row, Physical(map, h), visuals)}} :
                  row \in rows} :
        LeavesRoom(initial, r.symbols, limit)}

SolveDirectRow(initial, limit, visuals, page, map) ==
    LET drawn[k \in 0 .. Len(visuals)] ==
            IF k = 0 THEN {Start(<<>>, page)}
            ELSE DirectMore(initial, limit, visuals, map, drawn[k - 1])
    IN  {r \in {Finish(row, <<End>>) : row \in drawn[Len(visuals)]} :
            Within(initial, r.symbols, limit)}
=============================================================================
