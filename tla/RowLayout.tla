----------------------------- MODULE RowLayout -----------------------------
(***************************************************************************)
(* How a reviewed line of Korean is shortened to the number of symbols an   *)
(* existing record decodes to (build_runtime_layout_rows).  A record of     *)
(* count symbols holds n characters, whole page selections of three symbols *)
(* and the terminator.  Characters are Hangul syllables or the few signs    *)
(* that the shortening tells apart.                                         *)
(***************************************************************************)
EXTENDS Integers, FiniteSets, SequencesExt

CONSTANTS Hangul,        \* the syllables
          Space, Comma, Bang,
          MaxTokens      \* range(1, 9): page tokens of a technical row, 8

ASSUME LayoutAssumption == MaxTokens \in Nat

Without(text, dropped) ==
    FlattenSeq([k \in DOMAIN text |-> IF text[k] \in dropped THEN <<>> ELSE <<text[k]>>])

HangulOf(text) == Without(text, ToSet(text) \ Hangul)

EndsInBang(text) == text # <<>> /\ Last(text) = Bang

ControlSymbols(count, text) == count - Len(text) - 1

\* At least one page selection, and only whole ones.
Fits(count, text) == ControlSymbols(count, text) >= 3 /\ ControlSymbols(count, text) % 3 = 0

Tokens(count, text) == ControlSymbols(count, text) \div 3

\* The variants, in the order of their names, by which ties are broken.
Variants(text) ==
    <<Without(text, {Space, Comma, Bang}), Without(text, {Space})>>
    \o (IF EndsInBang(text) THEN <<Front(Without(text, {Space})), Front(text)>> ELSE <<>>)

Eligible(text, count) ==
    {v \in DOMAIN Variants(text) :
        /\ HangulOf(Variants(text)[v]) = HangulOf(text)
        /\ Fits(count, Variants(text)[v])}

Distance(text, count, v, preferred) ==
    LET d == Tokens(count, Variants(text)[v]) - preferred IN IF d < 0 THEN -d ELSE d

\* min over (distance to the preferred tokens, characters lost, name)
BestVariant(text, count, preferred) ==
    CHOOSE v \in Eligible(text, count) : \A w \in Eligible(text, count) :
        LET dv == Distance(text, count, v, preferred)
            dw == Distance(text, count, w, preferred)
            nv == Len(Variants(text)[v])
            nw == Len(Variants(text)[w])
        IN  dv < dw \/ (dv = dw /\ (nv > nw \/ (nv = nw /\ v <= w)))

\* The first clause without layout signs, and the text without any of them.
Clause(text) ==
    Without(IF Contains(text, Comma)
            THEN SubSeq(text, 1, (CHOOSE i \in DOMAIN text : /\ text[i] = Comma
                                     /\ \A j \in 1 .. i - 1 : text[j] # Comma) - 1)
            ELSE text, {Space, Comma})

Base(text) == Without(text, {Space, Comma, Bang})

\* technical_proof_prefixes: for each number of visible characters the record
\* could hold, from many to few, the clause with its "!" or a prefix.
ProofCandidates(text, count) ==
    FlattenSeq([k \in 1 .. MaxTokens |->
        LET visible == count - 1 - 3 * k
            bang    == Append(Clause(text), Bang)
        IN  IF visible <= 0 THEN <<>>
            ELSE (IF EndsInBang(text) /\ Len(bang) = visible THEN <<bang>> ELSE <<>>)
                 \o (IF Len(Base(text)) >= visible THEN <<SubSeq(Base(text), 1, visible)>>
                     ELSE <<>>)])

\* build_runtime_layout_rows for one row: [text, technical], or the refusal.
Refused == [text |-> <<>>, technical |-> FALSE, refused |-> TRUE]

LayoutRow(text, count, compact) ==
    IF ~compact /\ Fits(count, text)
    THEN [text |-> text, technical |-> FALSE, refused |-> FALSE]
    ELSE IF Eligible(text, count) # {}
    THEN [text |-> Variants(text)[BestVariant(text, count, IF compact THEN 3 ELSE 1)],
          technical |-> FALSE, refused |-> FALSE]
    ELSE IF ProofCandidates(text, count) # <<>>
    THEN [text |-> ProofCandidates(text, count)[1], technical |-> TRUE, refused |-> FALSE]
    ELSE Refused
=============================================================================
