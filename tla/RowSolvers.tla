----------------------------- MODULE RowSolvers -----------------------------
(***************************************************************************)
(* The searches that lay one row of Korean text into an existing record    *)
(* (v5_1_first_context_translation_encoding.py).  A glyph can only be       *)
(* drawn after a symbol whose tree has it, so the searches choose the font  *)
(* slot of each glyph and put page selections, which draw nothing, where    *)
(* they are needed.                                                         *)
(*                                                                         *)
(* A search here is the set of the rows it can return; the code takes one,  *)
(* by an order that only prefers short or roomy rows.  A row is the symbols *)
(* and the slots, page and symbol, the tool believes they draw from.        *)
(***************************************************************************)
EXTENDS HuffmanCodec, FiniteSetsExt

CONSTANTS Glyphs,       \* FONT_GLYPH_FIRST_SYMBOL .. FONT_GLYPH_LAST_SYMBOL
          Select,       \* the page-select symbol, 0x5F
          Pages,        \* 0 .. FONT_PAGE_COUNT - 1
          MaxControls   \* bound: page tokens in one unbroken run of them

ASSUME AlphabetAssumption ==
    /\ Glyphs \subseteq Nat /\ Select \in Nat /\ Pages \subseteq Nat /\ MaxControls \in Nat
    /\ Select \notin Glyphs /\ End \notin Glyphs /\ Select # End
    /\ \A p \in Pages : {(p \div 16) + 2, (p % 16) + 2} \subseteq Glyphs

VARIABLE trees          \* context -> symbol -> code, as LoadTrees gives it

\* A row, and a row the searches are still drawing: on which page it stands,
\* or -1 before any selection.
Row(symbols, slots) == [symbols |-> symbols, slots |-> slots]
Start(run, page) == [symbols |-> run, slots |-> <<>>, page |-> page]
Finish(row, tail) == Row(row.symbols \o tail, row.slots)

\* page_select_symbols: the page's digits look like glyphs.
PageToken(p) == <<Select, (p \div 16) + 2, (p % 16) + 2>>

Low(p) == (p % 16) + 2

\* transition, in every search: defined where all symbols can follow.
Follows(previous, symbols) == Encodable(trees, previous, symbols)
Cost(previous, symbols) == Length(trees, previous, symbols)
EndsAfter(previous) == Follows(previous, <<End>>)

Within(previous, symbols, limit) ==
    Follows(previous, symbols) /\ Cost(previous, symbols) <= limit
LeavesRoom(previous, symbols, limit) ==
    Follows(previous, symbols) /\ Cost(previous, symbols) < limit

Distinct(slots) == Cardinality(ToSet(slots)) = Len(slots)
On(page, symbols) == [k \in DOMAIN symbols |-> <<page, symbols[k]>>]

\* Runs of page tokens from a context; every token leaves bits to spare.
OneTokenMore(previous, limit, runs) ==
    {r \in {run \o PageToken(p) : run \in runs, p \in Pages} : LeavesRoom(previous, r, limit)}

Controls(previous, limit) ==
    LET runs[k \in 0 .. MaxControls] ==
            IF k = 0 THEN {<<>>} ELSE OneTokenMore(previous, limit, runs[k - 1])
    IN  UNION {runs[k] : k \in 0 .. MaxControls}

LastOr(symbols, otherwise) == IF symbols = <<>> THEN otherwise ELSE Last(symbols)

Selects(run, p) == run # <<>> /\ SubSeq(run, Len(run) - 2, Len(run)) = PageToken(p)

Cheapest(runs, previous) ==
    {r \in runs : \A s \in runs : Cost(previous, r) <= Cost(previous, s)}

----------------------------------------------------------------------------
(* Fixed slots: the assignment is made first, the page tokens around it.    *)

\* solve_row_visual_symbols: slots of one page, none twice, up to the end.
SolveRowVisualSymbols(page, n) ==
    {a \in [1 .. n -> Glyphs] :
        /\ Distinct(a) /\ Follows(End, PageToken(page))
        /\ Follows(Low(page), a \o <<End>>)}

\* exact_length_row_symbols and bounded_length_row_symbols: page tokens before
\* the page of the row until its length is the target, or fits.
LengthRow(initial, limit, page, a, exact) ==
    LET suffix == PageToken(page) \o a \o <<End>>
    IN  {Row(run \o suffix, On(page, a)) : run \in
            {r \in Controls(initial, limit) :
                /\ Follows(initial, r \o suffix)
                /\ IF exact THEN Cost(initial, r \o suffix) = limit
                            ELSE Cost(initial, r \o suffix) <= limit}}

ExactLengthRow(initial, limit, page, a) == LengthRow(initial, limit, page, a, TRUE)
BoundedLengthRow(initial, limit, page, a) == LengthRow(initial, limit, page, a, FALSE)

\* The path every single-page search tries first.
FixedSlots(initial, limit, page, n, exact) ==
    UNION {LengthRow(initial, limit, page, a, exact) : a \in SolveRowVisualSymbols(page, n)}

----------------------------------------------------------------------------
(* Joint search of slots and page tokens, for one page or several.  The     *)
(* kind of a search is a record: single or several pages, exact or bounded. *)

\* shortest_page_reselection: the cheapest way back to the page of the row.
ShortestPageReselection(previous, page, limit) ==
    Cheapest({r \in Controls(previous, limit) : Selects(r, page)}, previous)

\* page_routes of the exact search: ways of every length.
ExactPageRoutes(previous, pages, limit) ==
    {r \in Controls(previous, limit) : \E p \in pages : Selects(r, p)}

\* A way is a run of page tokens and the length of its code; the shorter one
\* comes first, of two of the same length the one with the smaller symbols.
Earlier(r, s) ==
    \/ IsStrictPrefix(r, s)
    \/ \E k \in DOMAIN r \cap DOMAIN s :
          r[k] < s[k] /\ SubSeq(r, 1, k - 1) = SubSeq(s, 1, k - 1)
Sooner(v, w) == v.bits < w.bits \/ (v.bits = w.bits /\ Earlier(v.run, w.run))
Soonest(ways) == CHOOSE v \in ways : \A w \in ways \ {v} : Sooner(v, w)
Behind(way) == Last(way.run)

\* The ways that go on from the given ones, by one page of a set.
Onward(previous, limit, ways, pages) ==
    {[run |-> r, bits |-> Cost(previous, r)] : r \in
        {x \in {w.run \o PageToken(p) : w \in ways, p \in pages} : LeavesRoom(previous, x, limit)}}

\* The ways a queue would rather have than its own.
Better(queue, ways) ==
    {w \in ways : Behind(w) \in DOMAIN queue.way => w.bits < queue.way[Behind(w)].bits}

\* One turn of the queue: the context of the soonest way is left, and those that
\* are reached from it in a better way are to be left anew.
Leave(queue, context, better) ==
    [way  |-> [c \in {Behind(w) : w \in better} |-> Soonest({w \in better : Behind(w) = c})]
              @@ queue.way,
     open |-> (queue.open \ {context}) \cup {Behind(w) : w \in better}]

LeaveSoonest(previous, limit, queue, context) ==
    Leave(queue, context,
          Better(queue, Onward(previous, limit, {queue.way[context]}, Pages)))

FollowQueue(previous, limit, queue) ==
    IF queue.open = {} THEN queue
    ELSE LeaveSoonest(previous, limit, queue,
                      CHOOSE c \in queue.open :
                          \A d \in queue.open \ {c} : Sooner(queue.way[c], queue.way[d]))

\* best_context, with its paths: the way the search finds to each context.
Ways(previous, limit) ==
    LET queue[k \in 0 .. Cardinality(Pages) + 1] ==
            IF k = 0 THEN [way |-> previous :> [run |-> <<>>, bits |-> 0], open |-> {previous}]
            ELSE FollowQueue(previous, limit, queue[k - 1])
    IN  Range(queue[Cardinality(Pages) + 1].way)

\* best_target: the soonest way to each page.
BestTargets(previous, limit, ways, pages) ==
    {Soonest(to) : to \in {Onward(previous, limit, ways, {p}) : p \in pages} \ {{}}}

\* Planted fault: one target too few, unless one is all.
RetainedFew(targets, n) ==
    {w \in targets : Cardinality({v \in targets : Behind(v) = Behind(w) /\ Sooner(v, w)})
                       < IF n > 1 THEN n - 1 ELSE n}

\* retained: of the targets that end in one context the first n.
Retained(targets, n) ==
    {w \in targets : Cardinality({v \in targets : Behind(v) = Behind(w) /\ Sooner(v, w)}) < n}

\* page_routes of the bounded search: of these, as many as there are glyphs to draw.
BoundedPageRoutes(previous, pages, limit, n) ==
    ExactPageRoutes(previous, pages, limit) \cap
    {w.run : w \in Retained(BestTargets(previous, limit, Ways(previous, limit), pages), n)}

PageOf(run, pages) == CHOOSE p \in pages : Selects(run, p)

Routes(kind, previous, limit) ==
    IF kind.several
    THEN IF kind.exact THEN ExactPageRoutes(previous, kind.pages, limit)
                       ELSE BoundedPageRoutes(previous, kind.pages, limit, kind.n)
    ELSE UNION {ShortestPageReselection(previous, p, limit) : p \in kind.pages}

\* exact_terminator_route, and the test at the end of the bounded searches
Terminators(kind, previous, left) ==
    IF kind.exact
    THEN {r \o <<End>> : r \in {c \in Controls(previous, left) :
             Follows(previous, c \o <<End>>) /\ Cost(previous, c \o <<End>>) = left}}
    ELSE {e \in {<<End>>} : Follows(previous, e) /\ Cost(previous, e) <= left}

\* The steps to the next glyph: at once on the current page, or over a run of
\* page tokens.  Every step leaves bits to spare.
GlyphSteps(kind, previous, page, left) ==
    LET at(run) == IF run = <<>> THEN page ELSE PageOf(run, kind.pages)
        runs    == (IF page = -1 THEN {} ELSE {<<>>}) \cup Routes(kind, previous, kind.limit)
    IN  {[via |-> x[1], page |-> at(x[1]), glyph |-> x[2]] :
            x \in {y \in runs \X Glyphs : LeavesRoom(previous, y[1] \o <<y[2]>>, left)}}

StepSymbols(step) == step.via \o <<step.glyph>>
StepSlot(step) == <<step.page, step.glyph>>

\* relaxed_can_finish: can the rest be drawn if slots could serve twice?
RelaxedCanFinish(kind, previous, page, n, left) ==
    LET can[m \in 0 .. n, context \in Int, at \in Int, room \in Int] ==
            /\ room > 0
            /\ IF m = 0 THEN Terminators(kind, context, room) # {}
               ELSE \E step \in GlyphSteps(kind, context, at, room) :
                       can[m - 1, step.glyph, step.page, room - Cost(context, StepSymbols(step))]
    IN  can[n, previous, page, left]

Draw(row, step) ==
    [symbols |-> row.symbols \o StepSymbols(step), slots |-> Append(row.slots, StepSlot(step)),
     page |-> step.page]

Previous(kind, row) == LastOr(row.symbols, kind.initial)
Left(kind, row) == kind.limit - Cost(kind.initial, row.symbols)

\* Two rows the search can continue in the same ways, but for the bits left.
SamePlace(r, s) ==
    r.page = s.page /\ ToSet(r.slots) = ToSet(s.slots) /\ Last(r.symbols) = Last(s.symbols)

\* The exact searches prune with the relaxation, the bounded one with
\* best_visible_bits: a place that was searched in vain is not searched with
\* fewer bits left.
Promising(kind, rows, n) ==
    {r \in rows :
        /\ kind.prune => RelaxedCanFinish(kind, Previous(kind, r), r.page, n, Left(kind, r))
        /\ kind.sparing => \A s \in rows \ {r} : SamePlace(r, s) => Left(kind, r) >= Left(kind, s)}

\* One glyph more, on a slot that no glyph of the row has.
OneGlyphMore(kind, rows) ==
    UNION {{Draw(r, step) :
              step \in {s \in GlyphSteps(kind, Previous(kind, r), r.page, Left(kind, r)) :
                           StepSlot(s) \notin ToSet(r.slots)}} : r \in rows}

\* search_visible, glyph by glyph
SearchVisible(kind, starts) ==
    LET drawn[k \in 0 .. kind.n] ==
            IF k = 0 THEN Promising(kind, starts, kind.n)
            ELSE Promising(kind, OneGlyphMore(kind, drawn[k - 1]), kind.n - k)
    IN  UNION {{Finish(r, t) : t \in Terminators(kind, Previous(kind, r), Left(kind, r))} :
               r \in drawn[kind.n]}

\* The loop around the searches: page tokens, then a page of the row.
AfterPrefix(kind) ==
    SearchVisible(kind, {Start(x[1], x[2]) :
        x \in {y \in Controls(kind.initial, kind.limit) \X kind.pages : Selects(y[1], y[2])}})

SinglePage(initial, page, n, limit, exact) ==
    [initial |-> initial, pages |-> {page}, several |-> FALSE, exact |-> exact, prune |-> exact,
     sparing |-> FALSE, n |-> n, limit |-> limit]

SeveralPages(initial, pages, n, limit, exact) ==
    [initial |-> initial, pages |-> pages, several |-> TRUE, exact |-> exact, prune |-> exact,
     sparing |-> FALSE, n |-> n, limit |-> limit]

\* A search that found fixed slots never starts the joint one.
FirstOf(first, second) == IF first # {} THEN first ELSE second

SolveBoundedLengthRow(initial, limit, page, n) ==
    FirstOf(FixedSlots(initial, limit, page, n, FALSE),
            AfterPrefix(SinglePage(initial, page, n, limit, FALSE)))

SolveExactLengthRow(initial, limit, page, n) ==
    FirstOf(FixedSlots(initial, limit, page, n, TRUE),
            AfterPrefix(SinglePage(initial, page, n, limit, TRUE)))

\* The places the search must have visited before it gives up decide whether a
\* row is found; its order decides which.
SolveBoundedLengthRowMultiPage(initial, limit, pages, n) ==
    LET kind   == SeveralPages(initial, pages, n, limit, FALSE)
        starts == {Start(<<>>, -1)}
    IN  IF SearchVisible([kind EXCEPT !.sparing = TRUE], starts) = {} THEN {}
        ELSE SearchVisible(kind, starts)

SolveExactLengthRowMultiPage(initial, limit, pages, n) ==
    AfterPrefix(SeveralPages(initial, pages, n, limit, TRUE))
=============================================================================
