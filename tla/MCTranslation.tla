---------------------------- MODULE MCTranslation ----------------------------
(* A bank of seven records of two bytes, but for one of one byte.  The anchor *)
(* is record 1 of selector 1; selector 2 points at it.                        *)
EXTENDS Translation

Lengths == <<2, 2, 2, 2, 1, 2, 2>>
Starts == [k \in 1 .. 7 |-> FoldLeft(LAMBDA sum, r : sum + Lengths[r] + 1, 0, [r \in 1 .. k - 1 |-> r])]

\* Seven records from 0 on, then the font.
MCImage ==
    [bytes |-> [a \in 0 .. 27 |-> IF \E k \in 1 .. 7 : Starts[k] = a
                                  THEN Lengths[CHOOSE k \in 1 .. 7 : Starts[k] = a] ELSE 0],
     table |-> <<20, 20 + Starts[2]>>]

Line(text, speaker) == [text |-> text, speaker |-> speaker]

\* The page, and the page after a line was put in behind the anchor.
V1 == <<<<Line("zero", "none"), Line("anchor", "max"), Line("two", "none"), Line("three", "max"),
          Line("four", "none"), Line("five", "max"), Line("six", "none")>>>>
V2 == <<<<Line("zero", "none"), Line("anchor", "max"), Line("new", "max"), Line("two", "none"),
          Line("three", "max"), Line("four", "none")>>>>

\* "three" fits into two bytes and into one, "four" into two only.
MCEncoded == "zero" :> <<11>> @@ "anchor" :> <<12, 1>> @@ "two" :> <<13>> @@ "three" :> <<14>> @@
             "four" :> <<15, 1>> @@ "five" :> <<16>> @@ "six" :> <<17>> @@ "new" :> <<18>>

MCTileOf == [t \in DOMAIN MCEncoded |-> MCEncoded[t][1] + 20]

Text(unread, controls) ==
    [unread |-> unread, hangul |-> TRUE, readable |-> TRUE, controls |-> controls]

\* Records with text: the speaker's control symbol where "max" speaks.  A glyph
\* of the anchor's record cannot be read.
Full == [a \in {Starts[k] : k \in 1 .. 7} |->
            LET k == CHOOSE k \in 1 .. 7 : Starts[k] = a
            IN  Text(IF k = 2 THEN <<"g1">> ELSE <<>>, IF k % 2 = 0 THEN <<1>> ELSE <<>>)]
Gap == [a \in DOMAIN Full \ {Starts[3]} |-> Full[a]]
LateGap == [a \in DOMAIN Full \ {Starts[4]} |-> Full[a]]
TwoUnread == [Full EXCEPT ![Starts[3]].unread = <<"g2">>]
Unclear == [Full EXCEPT ![Starts[4]].hangul = FALSE, ![Starts[4]].readable = FALSE]
MCCorpora == {Full, Gap, TwoUnread, Unclear}

\* What the game shows, as ordinals of selector 1.
Shown(ordinals) == [k \in DOMAIN ordinals |-> [selector |-> 1, ordinal |-> ordinals[k]]]
OtherRecord == <<[selector |-> 2, ordinal |-> 1]>>
MCPlays == {OtherRecord \o Shown(<<1, 2>>) \o <<Silence>> \o Shown(<<3>>), Shown(<<1, 2, 3, 4>>),
            Shown(<<1, 3, 4>>), Shown(<<1, 2>>) \o OtherRecord \o <<Silence>> \o Shown(<<3>>),
            Shown(<<2, 3, 4>>)}

MCSources == {V1, V2}
MCVisibles == {Starts[2], Starts[3]}
MCFuzzyKnown == {"g1", "g2"}
MCExactStatus == "g1" :> "unmatched" @@ "g2" :> "ambiguous"
MCInk == "g1" :> 5 @@ "g2" :> 1
MCReviewedCards == [cards |-> 1, occurrences |-> 1, ambiguous |-> 0, unmatched |-> 1]
MCReviewedShapes == [blank |-> 0, marker |-> 0, visual |-> 1]
MCDecodable == {Starts[k] : k \in 1 .. 7}
=============================================================================
