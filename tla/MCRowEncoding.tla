---------------------------- MODULE MCRowEncoding ----------------------------
(* A small alphabet: glyphs 2 to 4, which are also the digits of the pages. *)
EXTENDS RowEncoding

One(a)            == [shape |-> <<1>>, symbols |-> <<a>>]
Two(a, b)         == [shape |-> <<0, 1, 1>>, symbols |-> <<b, a>>]
Three(a, b, c)    == [shape |-> <<0, 1, 0, 1, 1>>, symbols |-> <<c, b, a>>]
Four(a, b, c, d)  == [shape |-> <<0, 0, 1, 1, 0, 1, 1>>, symbols |-> <<d, c, b, a>>]
Five(a, b, c, d, e) == [shape |-> <<0, 1, 0, 0, 1, 1, 0, 1, 1>>, symbols |-> <<e, d, c, b, a>>]

\* End first, then the page-select symbol and the glyphs.
VectorOf(t2, t3, t4, t8, t9) == 2 :> t2 @@ 3 :> t3 @@ 4 :> t4 @@ 8 :> t8 @@ 9 :> t9

MCVectors == {VectorOf(t2, t3, t4, t8, t9) :
    t2 \in {Five(2, 3, 4, 8, 9), Four(3, 4, 8, 2), Two(3, 2)},
    t3 \in {Four(9, 8, 4, 2), Three(8, 9, 2)},
    t4 \in {Three(9, 8, 2), Four(2, 3, 8, 9)},
    t8 \in {One(2), Three(2, 3, 4)},
    t9 \in {Three(8, 2, 3)}}
    \* One glyph on each page, and the pages that can be selected end alike.
    \cup {VectorOf(One(3), Three(8, 3, 9), One(3), Three(2, 3, 4), Two(8, 3))}

Entry(symbols, initial, spare) == [entry |-> symbols, initial |-> initial, spare |-> spare]

Scene(w, texts, originals) == [way |-> w, texts |-> texts, originals |-> originals]

\* The compact first row and one with as many selections as pages, rows with
\* one or two selections, rows that only fit in part, and texts that do not end.
MCScenes == {
    Scene("none", <<>>, <<>>),
    Scene("plain", <<<<11, 12, 11>>>>,
          <<Entry(<<2, 3, 2, 3, 2, 2, 3, 2, 8, 2, 2, 3, 9>>, 9, 1)>>),
    Scene("plain", <<<<11>>, <<11, 10, 12>>>>,
          <<Entry(<<8, 2, 2, 3, 9>>, 9, 1), Entry(<<3, 2, 3, 2, 2, 2, 3, 2, 9>>, 9, 0)>>),
    Scene("plain", <<<<11, 12, 13>>, <<12>>>>,
          <<Entry(<<2, 3, 2, 3, 9>>, 9, 1), Entry(<<3, 2, 3, 2, 9>>, 2, 1)>>),
    Scene("proven", <<<<11>>, <<12>>>>,
          <<Entry(<<3, 2, 2, 3, 9>>, 9, 2), Entry(<<3, 2, 3, 2, 9>>, 9, 1)>>),
    Scene("proven", <<<<11, 13>>>>, <<Entry(<<3, 2, 2, 2, 2, 3, 9>>, 9, 2)>>),
    Scene("direct", <<<<11, 13>>, <<12>>>>,
          <<Entry(<<8, 2, 3, 2, 3, 9>>, 9, 0), Entry(<<8, 2, 2, 3, 9>>, 9, 1)>>),
    Scene("plain", <<<<11>>>>, <<Entry(<<2, 3, 2, 3>>, 9, 0)>>),
    Scene("plain", <<<<12>>>>, <<Entry(<<2, 3, 2, 9>>, 9, 0)>>)}
MCCaptures == {[samples |-> <<[decoded |-> 2, tile |-> 13, slots |-> {<<1, 3>>, <<0, 2>>}],
                              [decoded |-> 3, tile |-> 12, slots |-> {<<1, 2>>, <<0, 4>>}]>>,
                page |-> 1, distance |-> 10, map |-> 2 :> 3 @@ 3 :> 2]}
=============================================================================
