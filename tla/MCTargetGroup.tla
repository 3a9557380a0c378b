---------------------------- MODULE MCTargetGroup ----------------------------
(* Glyphs 2 to 4, the first two also operands; 5 selects a page, 9 ends.     *)
EXTENDS TargetGroup

Tree(pairs) == [s \in {p[1] : p \in Range(pairs)} |-> (CHOOSE p \in Range(pairs) : p[1] = s)[2]]

MCTrees ==
    9 :> Tree(<<<<5, <<0>>>>, <<3, <<1, 0>>>>, <<9, <<1, 1>>>>>>) @@
    5 :> Tree(<<<<2, <<0>>>>, <<3, <<1, 0>>>>, <<4, <<1, 1>>>>>>) @@
    2 :> Tree(<<<<2, <<0, 0>>>>, <<3, <<0, 1>>>>, <<9, <<1>>>>>>) @@
    3 :> Tree(<<<<2, <<0>>>>, <<5, <<1, 0>>>>, <<3, <<1, 1, 0>>>>, <<4, <<1, 1, 1, 0>>>>,
                <<9, <<1, 1, 1, 1>>>>>>) @@
    4 :> Tree(<<<<6, <<0, 0>>>>, <<5, <<0, 1, 0>>>>, <<3, <<0, 1, 1>>>>, <<9, <<1>>>>>>) @@
    6 :> Tree(<<<<2, <<0>>>>, <<9, <<1>>>>>>)

\* Pixels 1 to 6.  Page 0 has two syllables, page 1 one that is nearly a
\* syllable and two that are other characters as well, page 2 unknown ones; the
\* second font knows some of these, and has two syllables that look alike.
MCTile == <<0, 2>> :> {1, 2} @@ <<0, 3>> :> {3, 4} @@ <<0, 4>> :> {1, 2, 3} @@
          <<1, 2>> :> {3, 4, 5} @@ <<1, 3>> :> {6} @@ <<1, 4>> :> {5, 6} @@
          <<2, 2>> :> {1, 3, 5, 6} @@ <<2, 3>> :> {4, 5} @@ <<2, 4>> :> {6}

MCHangul == <<"ga" :> {1, 2} @@ "na" :> {3, 4},
              "ga" :> {1, 2} @@ "ka" :> {1, 2} @@ "na" :> {3, 4} @@ "da" :> {6}
              @@ "ra" :> {1, 3, 5, 6}>>
MCOthers == "!" :> {5, 6} @@ "?" :> {3, 4, 5} @@ "wide" :> {6} @@ "thin" :> {6}
MCCanonical == "!" :> "!" @@ "?" :> "?" @@ "wide" :> "thin" @@ "thin" :> "thin"

\* A bank of length-prefixed records, filled up with zeroes.
Rom(records) ==
    LET bytes == FlattenSeq([r \in DOMAIN records |-> <<Len(records[r])>> \o records[r]])
    IN  [a \in 0 .. BankSize - 1 |-> IF a < Len(bytes) THEN bytes[a + 1] ELSE 0]

\* Payloads (four bits a byte): glyph 3 or 3 and 2 of an unknown page; a glyph
\* of page 0, 1, 2 or past the font; a page select without an operand; only
\* from contexts within a record; from no context.
Drawn == <<9>>
Page0 == <<0, 2>>
Page0b == <<0, 6>>
Near == <<1, 4>>
Forms == <<1, 13, 14>>
Past == <<5, 9>>
Cut == <<7>>
Inner == <<8>>
Garbage == <<0>>
\* No glyph; glyph 4 from one context and 3 from another, both before a select.
Bare == <<12>>
Either == <<13, 4, 2>>

At(a) == BankSize + a

MCImages == {
    \* groups that need their context: one with every kind of glyph behind it
    [bytes |-> Rom(<<Page0, Inner, Drawn, Past, Forms>>),
     table |-> <<At(0), At(10)>>, source |-> Rom(<<Page0b, Inner, Drawn>>)],
    [bytes |-> Rom(<<Page0, Garbage, Drawn>>),
     table |-> <<At(0), At(5)>>, source |-> Rom(<<Page0, Garbage, Drawn>>)],
    \* no record of the group is text
    [bytes |-> Rom(<<Inner, Drawn, Page0>>),
     table |-> <<At(0)>>, source |-> Rom(<<Inner, Drawn>>)],
    \* an empty record before the one on the screen; no source ROM
    [bytes |-> Rom(<<Page0, <<>>, Drawn>>), table |-> <<At(0)>>, source |-> <<>>],
    \* a glyph with two readings; a pointer into the middle of a record
    [bytes |-> Rom(<<Drawn, Near, Page0b>>), table |-> <<At(0), At(3)>>, source |-> <<>>],
    \* a text that some fonts and start pages read in two ways
    [bytes |-> Rom(<<Either, Drawn, Bare>>), table |-> <<At(0)>>, source |-> <<>>],
    \* a page select cut short, and a pointer outside the window
    [bytes |-> Rom(<<Drawn, Cut, Page0>>), table |-> <<At(0), 3>>, source |-> <<>>]
    }
=============================================================================
