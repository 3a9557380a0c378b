-------------------------- MODULE RowEncodingProofs --------------------------
(***************************************************************************)
(* RowEncoding for every codec, scene, font and alphabet: what the tool     *)
(* writes reads back, what it draws is what was reviewed, and nothing of an *)
(* old text is read behind a new one.                                       *)
(*                                                                         *)
(* The argument goes from the bits to the screen: a stream that holds the   *)
(* bits of a text decodes to it; every search, whatever it gives up on,     *)
(* keeps its rows such that the renderer draws the slots they claim; every  *)
(* row built has the count of its record and fits it; rows have pages of    *)
(* their own, so the font can show them all.  The last of it is the         *)
(* invariant IInv, which every step keeps.                                  *)
(*                                                                         *)
(* No fact of a recursive definition is taken for granted: iteration is     *)
(* shown to exist once (Iteration, SearchesExist), and every search, the    *)
(* decoder and the renderer are unrolled from there.                        *)
(***************************************************************************)
EXTENDS RowEncoding, SequenceTheorems, WellFoundedInduction, FiniteSetTheorems, TLAPS

-----------------------------------------------------------------------------
(* Iteration                                                                *)

\* Induction with the set of the numbers a fact is known for, up to a number.
LEMMA InductionUpTo ==
  ASSUME NEW n \in Nat, NEW Known, 0 \in Known,
         \A k \in 1 .. n : k - 1 \in Known => k \in Known
  PROVE  0 .. n \subseteq Known
<1> SUFFICES ASSUME NEW m \in 0 .. n, m \notin Known PROVE FALSE
  OBVIOUS
<1> DEFINE Wrong == {k \in Nat : k <= n /\ k \notin Known}
<1>1. \E k \in Wrong : \A j \in Wrong : ~(<<j, k>> \in OpToRel(<, Nat))
  <2>1. Wrong \subseteq Nat /\ Wrong # {}
    OBVIOUS
  <2> HIDE DEF Wrong
  <2> QED BY <2>1, NatLessThanWellFounded, WFMin, Zenon
<1>2. PICK k \in Wrong : \A j \in Wrong : ~(j < k)
  BY <1>1 DEF OpToRel
<1>3. k # 0 /\ k \in 1 .. n
  BY <1>2
<1>4. k - 1 \notin Wrong /\ k - 1 \in Nat /\ k - 1 <= n
  BY <1>2, <1>3
<1> QED BY <1>2, <1>3, <1>4

\* A function that is told by its first value and by each value from the one
\* before it exists, for every number of steps.
Iterates(f, first, step, n) == f[0] = first /\ \A k \in 1 .. n : f[k] = step[k][f[k - 1]]

\* Such a function exists, whatever is told.
LEMMA Iteration ==
  ASSUME NEW T, NEW first \in T, NEW n \in Nat, NEW step \in [1 .. n -> [T -> T]]
  PROVE  \E f \in [0 .. n -> T] : Iterates(f, first, step, n)
<1> DEFINE Works(f, m) == Iterates(f, first, step, m)
           Known == {m \in 0 .. n : \E f \in [0 .. m -> T] : Works(f, m)}
<1>1. 0 \in Known
  <2>1. [k \in 0 .. 0 |-> first] \in [0 .. 0 -> T] /\ Works([k \in 0 .. 0 |-> first], 0)
    BY DEF Iterates
  <2> HIDE DEF Works
  <2>2. \E f \in [0 .. 0 -> T] : Works(f, 0)
    BY <2>1, Zenon
  <2> QED BY <2>2
<1>2. ASSUME NEW m \in 1 .. n, m - 1 \in Known PROVE m \in Known
  <2>1. PICK f \in [0 .. m - 1 -> T] : Works(f, m - 1)
    BY <1>2
  <2> DEFINE g == [k \in 0 .. m |-> IF k = m THEN step[m][f[m - 1]] ELSE f[k]]
  <2>2. g \in [0 .. m -> T]
    <3>1. f[m - 1] \in T /\ step[m] \in [T -> T]
      OBVIOUS
    <3> QED BY <3>1
  <2>3. \A k \in 1 .. m - 1 : g[k] = f[k] /\ g[k - 1] = f[k - 1]
    OBVIOUS
  <2>4. g[m] = step[m][g[m - 1]] /\ g[0] = first
    BY <2>1 DEF Iterates
  <2>5. Works(g, m)
    BY <2>1, <2>3, <2>4 DEF Iterates
  <2>6. m \in 0 .. n
    OBVIOUS
  <2> HIDE DEF Works, g
  <2>7. \E h \in [0 .. m -> T] : Works(h, m)
    BY <2>2, <2>5, Zenon
  <2> QED BY <2>6, <2>7
<1> HIDE DEF Known
<1>3. 0 .. n \subseteq Known
  BY <1>1, <1>2, InductionUpTo
<1>4. n \in Known
  BY <1>3
<1> QED BY <1>4 DEF Known

\* Two functions with one beginning and one way to go on are one.
InStep(f, g, n) == f[0] = g[0] /\ \A k \in 1 .. n : f[k - 1] = g[k - 1] => f[k] = g[k]

\* Then they agree all the way.
LEMMA Unrolled ==
  ASSUME NEW n \in Nat, NEW f, NEW g, InStep(f, g, n)
  PROVE  \A k \in 0 .. n : f[k] = g[k]
<1> DEFINE Known == {k \in 0 .. n : f[k] = g[k]}
<1>1. 0 \in Known /\ \A k \in 1 .. n : k - 1 \in Known => k \in Known
  BY DEF InStep
<1> HIDE DEF Known
<1>2. 0 .. n \subseteq Known
  BY <1>1, InductionUpTo
<1> QED BY <1>2 DEF Known

-----------------------------------------------------------------------------
(* Bits                                                                     *)

\* What the lemmas need to know of a set of sequences.
Strings(T) == <<>> \in T /\ (\A x, y \in T : x \o y \in T) /\ (\A x \in T : <<>> \o x = x)

\* f tells the concatenations of the first sequences of ss.
Concats(f, ss, n) == f[0] = <<>> /\ \A k \in 1 .. n : f[k] = f[k - 1] \o ss[k]

\* All sequences over a set are such a set.
LEMMA SeqIsStrings == ASSUME NEW S PROVE Strings(Seq(S))
BY DEF Strings

\* There are such concatenations for every list of sequences.
LEMMA ConcatsExist ==
  ASSUME NEW T, Strings(T), NEW n \in Nat, NEW ss \in [1 .. n -> T]
  PROVE  \E f \in [0 .. n -> T] : Concats(f, ss, n)
<1>1. PICK step : step = [k \in 1 .. n |-> [x \in T |-> x \o ss[k]]]
  OBVIOUS
<1>2. step \in [1 .. n -> [T -> T]] /\ <<>> \in T
  BY <1>1 DEF Strings
<1>3. PICK f \in [0 .. n -> T] : Iterates(f, <<>>, step, n)
  BY <1>2, Iteration
<1>4. ASSUME NEW k \in 1 .. n PROVE f[k] = f[k - 1] \o ss[k]
  <2>1. f[k - 1] \in T
    OBVIOUS
  <2>2. step[k] = [x \in T |-> x \o ss[k]] /\ f[k] = step[k][f[k - 1]]
    BY <1>1, <1>3 DEF Iterates
  <2> QED BY <2>1, <2>2
<1>5. f[0] = <<>>
  BY <1>3 DEF Iterates
<1>6. Concats(f, ss, n)
  BY <1>4, <1>5 DEF Concats
<1> QED BY <1>6

\* One sequence more is one concatenation more.
LEMMA ConcatsStep ==
  ASSUME NEW T, Strings(T), NEW n \in Nat, NEW ss \in [1 .. n -> T], NEW f \in [0 .. n -> T],
         Concats(f, ss, n), NEW k \in 1 .. n
  PROVE  f[0] = <<>> /\ f[k] = f[k - 1] \o ss[k] /\ (k = 1 => f[k] = ss[k])
<1>1. f[0] = <<>> /\ f[k] = f[k - 1] \o ss[k] /\ ss[k] \in T
  BY DEF Concats
<1>2. k = 1 => f[k - 1] = <<>>
  BY <1>1
<1> QED BY <1>1, <1>2 DEF Strings

\* FlattenSeq is the last of the concatenations.
LEMMA FlattenIs ==
  ASSUME NEW T, Strings(T), NEW n \in Nat, NEW ss \in [1 .. n -> T]
  PROVE  \E f \in [0 .. n -> T] : Concats(f, ss, n) /\ FlattenSeq(ss) = f[n]
<1>1. PICK f \in [0 .. n -> T] : Concats(f, ss, n)
  BY ConcatsExist
<1>2. ss \in Seq(T) /\ Len(ss) = n
  OBVIOUS
<1>3. CASE n = 0
  <2>1. ss = <<>>
    BY <1>2, <1>3, EmptySeq
  <2>2. f[0] = <<>>
    BY <1>1 DEF Concats
  <2>3. FlattenSeq(ss) = f[n]
    BY <1>3, <2>1, <2>2 DEF FlattenSeq
  <2> QED BY <1>1, <2>3
<1>4. CASE n # 0
  <2> DEFINE Is(h) == h = [i \in 1 .. n |-> IF i = 1 THEN ss[i] ELSE h[i - 1] \o ss[i]]
             h == CHOOSE h : Is(h)
  <2>1. PICK g : g = [i \in 1 .. n |-> f[i]]
    OBVIOUS
  <2>2. Is(g)
    <3>1. ASSUME NEW i \in 1 .. n PROVE g[i] = IF i = 1 THEN ss[i] ELSE g[i - 1] \o ss[i]
      <4>1. g[i] = f[i] /\ f[i] = f[i - 1] \o ss[i] /\ (i = 1 => f[i] = ss[i])
        BY <1>1, <2>1, ConcatsStep
      <4>2. i # 1 => g[i - 1] = f[i - 1]
        BY <2>1
      <4> QED BY <4>1, <4>2
    <3> QED BY <2>1, <3>1
  <2>3. Is(h)
    BY <2>2, Zenon
  <2>4. FlattenSeq(ss) = h[n]
    BY <1>2, <1>4 DEF FlattenSeq
  <2> HIDE DEF h
  <2>5. \A k \in 1 .. n : h[k] = IF k = 1 THEN ss[k] ELSE h[k - 1] \o ss[k]
    BY <2>3
  <2> DEFINE Known == {k \in 0 .. n : k = 0 \/ f[k] = h[k]}
  <2>6. 0 \in Known /\ \A k \in 1 .. n : k - 1 \in Known => k \in Known
    <3>1. 0 \in Known
      OBVIOUS
    <3>2. ASSUME NEW k \in 1 .. n, k - 1 \in Known PROVE f[k] = h[k]
      <4>1. f[k] = f[k - 1] \o ss[k] /\ (k = 1 => f[k] = ss[k])
        BY <1>1, ConcatsStep
      <4>2. CASE k = 1
        BY <2>5, <4>1, <4>2
      <4>3. CASE k # 1
        <5>1. h[k] = h[k - 1] \o ss[k]
          BY <2>5, <4>3
        <5>2. f[k - 1] = h[k - 1]
          BY <3>2, <4>3
        <5> QED BY <4>1, <5>1, <5>2, Zenon
      <4> QED BY <4>2, <4>3
    <3> QED BY <3>1, <3>2
  <2>7. n \in Known
    <3> HIDE DEF Known
    <3>1. 0 .. n \subseteq Known
      BY <2>6, InductionUpTo
    <3> QED BY <3>1
  <2>8. FlattenSeq(ss) = f[n]
    BY <1>4, <2>4, <2>7
  <2> QED BY <1>1, <2>8
<1> QED BY <1>3, <1>4

\* Flattening up to one sequence more appends that sequence.
LEMMA FlattenMore ==
  ASSUME NEW T, Strings(T), NEW n \in Nat, NEW ss \in [1 .. n -> T],
         NEW more \in [1 .. n + 1 -> T], \A k \in 1 .. n : more[k] = ss[k]
  PROVE  FlattenSeq(ss) \in T /\ FlattenSeq(more) = FlattenSeq(ss) \o more[n + 1]
<1>1. PICK f \in [0 .. n -> T] : Concats(f, ss, n) /\ FlattenSeq(ss) = f[n]
  BY FlattenIs
<1>2. PICK m \in Nat : m = n + 1
  OBVIOUS
<1>3. PICK g \in [0 .. m -> T] : Concats(g, more, m) /\ FlattenSeq(more) = g[m]
  BY <1>2, FlattenIs
<1> DEFINE Known == {k \in 0 .. n : f[k] = g[k]}
<1>4. 0 \in Known /\ \A k \in 1 .. n : k - 1 \in Known => k \in Known
  <2>1. f[0] = <<>> /\ g[0] = <<>>
    BY <1>1, <1>3 DEF Concats
  <2>2. ASSUME NEW k \in 1 .. n, k - 1 \in Known PROVE f[k] = g[k]
    <3>1. f[k - 1] = g[k - 1] /\ more[k] = ss[k] /\ k \in 1 .. m
      BY <1>2, <2>2
    <3>2. f[k] = f[k - 1] \o ss[k]
      BY <1>1 DEF Concats
    <3>3. g[k] = g[k - 1] \o more[k]
      BY <1>3, <3>1 DEF Concats
    <3> QED BY <3>1, <3>2, <3>3
  <2> QED BY <2>1, <2>2
<1>5. n \in Known
  <2> HIDE DEF Known
  <2>1. 0 .. n \subseteq Known
    BY <1>4, InductionUpTo
  <2> QED BY <2>1
<1>6. g[m] = g[n] \o more[n + 1]
  <2>1. m \in 1 .. m /\ m - 1 = n
    BY <1>2
  <2>2. g[m] = g[m - 1] \o more[m]
    BY <1>3, <2>1 DEF Concats
  <2> QED BY <1>2, <2>1, <2>2
<1> QED BY <1>1, <1>3, <1>5, <1>6

\* The same, of a list with one sequence appended.
LEMMA FlattenAppend ==
  ASSUME NEW T, Strings(T), NEW ss \in Seq(T), NEW s \in T
  PROVE  FlattenSeq(ss) \in T /\ FlattenSeq(Append(ss, s)) = FlattenSeq(ss) \o s
<1>1. PICK n \in Nat : n = Len(ss)
  OBVIOUS
<1>2. ss \in [1 .. n -> T]
  BY <1>1
<1>3. PICK more : more = Append(ss, s)
  OBVIOUS
<1>4. more \in [1 .. n + 1 -> T] /\ more[n + 1] = s
  <2>1. more \in Seq(T) /\ Len(more) = n + 1 /\ more[n + 1] = s
    BY <1>1, <1>3, AppendProperties
  <2> QED BY <2>1
<1>5. \A k \in 1 .. n : more[k] = ss[k]
  BY <1>1, <1>3
<1>6. FlattenSeq(ss) \in T /\ FlattenSeq(more) = FlattenSeq(ss) \o more[n + 1]
  <2> HIDE <1>1, <1>3
  <2> QED BY <1>2, <1>4, <1>5, FlattenMore
<1> QED BY <1>3, <1>4, <1>6

\* A text is encodable when its beginning is and its rest is in the context of the
\* last symbol before it.
LEMMA EncodableConcat ==
  ASSUME NEW codes, NEW previous, NEW a \in Seq(Nat), NEW b \in Seq(Nat)
  PROVE  Encodable(codes, previous, a \o b)
           <=> /\ Encodable(codes, previous, a)
               /\ Encodable(codes, Context(previous, a, Len(a) + 1), b)
<1> DEFINE c == a \o b
           next == Context(previous, a, Len(a) + 1)
           Fine(p, x) == p \in DOMAIN codes /\ x \in DOMAIN codes[p]
<1>1. Len(c) = Len(a) + Len(b) /\ DOMAIN c = 1 .. Len(c) /\ c \in Seq(Nat)
  OBVIOUS
<1>2. \A k \in 1 .. Len(a) : c[k] = a[k] /\ Context(previous, c, k) = Context(previous, a, k)
  BY DEF Context
<1>3. \A k \in 1 .. Len(b) : /\ c[Len(a) + k] = b[k]
                             /\ Context(previous, c, Len(a) + k) = Context(next, b, k)
  BY DEF Context
<1> HIDE DEF c, next
<1>4. ASSUME Encodable(codes, previous, c)
      PROVE  Encodable(codes, previous, a) /\ Encodable(codes, next, b)
  <2>1. \A k \in 1 .. Len(a) : k \in DOMAIN c
    BY <1>1
  <2>2. \A k \in 1 .. Len(b) : Len(a) + k \in DOMAIN c
    BY <1>1
  <2>3. Encodable(codes, previous, a)
    BY <1>2, <1>4, <2>1 DEF Encodable
  <2>4. Encodable(codes, next, b)
    BY <1>3, <1>4, <2>2 DEF Encodable
  <2> QED BY <2>3, <2>4
<1>5. ASSUME Encodable(codes, previous, a), Encodable(codes, next, b)
      PROVE  Encodable(codes, previous, c)
  <2>1. \A k \in 1 .. Len(a) : Fine(Context(previous, c, k), c[k])
    BY <1>2, <1>5 DEF Encodable
  <2>2. \A k \in 1 .. Len(b) : Fine(Context(previous, c, Len(a) + k), c[Len(a) + k])
    BY <1>3, <1>5 DEF Encodable
  <2>3. ASSUME NEW k \in DOMAIN c
        PROVE  Fine(Context(previous, c, k), c[k])
    <3>1. CASE k <= Len(a)
      <4>1. k \in 1 .. Len(a)
        BY <1>1, <3>1
      <4> HIDE DEF Fine
      <4> QED BY <2>1, <4>1
    <3>2. CASE k > Len(a)
      <4>1. k - Len(a) \in 1 .. Len(b) /\ Len(a) + (k - Len(a)) = k
        BY <1>1, <3>2
      <4> HIDE DEF Fine
      <4> QED BY <2>2, <4>1
    <3> QED BY <1>1, <3>1, <3>2
  <2> QED BY <2>3 DEF Encodable
<1> QED BY <1>4, <1>5 DEF c, next

\* The bits of a text with one symbol more.
LEMMA BitsAppend ==
  ASSUME NEW codes, IsCodec(codes), NEW previous, NEW a \in Seq(Nat), NEW s \in Nat,
         Encodable(codes, previous, Append(a, s)), NEW next, next = Context(previous, a, Len(a) + 1)
  PROVE  /\ Encodable(codes, previous, a)
         /\ next \in DOMAIN codes /\ s \in DOMAIN codes[next]
         /\ codes[next][s] \in Seq({0, 1})
         /\ Bits(codes, previous, a) \in Seq({0, 1})
         /\ Bits(codes, previous, Append(a, s)) = Bits(codes, previous, a) \o codes[next][s]
<1> DEFINE code(x) == [k \in DOMAIN x |-> codes[Context(previous, x, k)][x[k]]]
           b == Append(a, s)
<1>1. b = a \o <<s>> /\ <<s>> \in Seq(Nat) /\ Len(<<s>>) = 1 /\ <<s>>[1] = s
  OBVIOUS
<1>2. Encodable(codes, previous, a) /\ Encodable(codes, next, <<s>>)
  BY <1>1, EncodableConcat
<1>3. next \in DOMAIN codes /\ s \in DOMAIN codes[next]
  <2>1. Context(next, <<s>>, 1) = next
    BY DEF Context
  <2> QED BY <1>1, <1>2, <2>1 DEF Encodable
<1>4. codes[next][s] \in Seq({0, 1})
  BY <1>3 DEF IsCodec
<1>5. code(a) \in Seq(Seq({0, 1}))
  <2>1. \A k \in DOMAIN a : codes[Context(previous, a, k)][a[k]] \in Seq({0, 1})
    BY <1>2 DEF Encodable, IsCodec
  <2> QED BY <2>1
<1>6. code(b) = Append(code(a), codes[next][s])
  <2>1. DOMAIN b = 1 .. Len(a) + 1 /\ b[Len(a) + 1] = s
    OBVIOUS
  <2>2. \A k \in 1 .. Len(a) : b[k] = a[k] /\ Context(previous, b, k) = Context(previous, a, k)
    BY DEF Context
  <2>3. Context(previous, b, Len(a) + 1) = next
    BY DEF Context
  <2> DEFINE c == Append(code(a), codes[next][s])
  <2>4. Len(code(a)) = Len(a) /\ DOMAIN a = 1 .. Len(a)
    OBVIOUS
  <2>5. DOMAIN c = 1 .. Len(a) + 1 /\ c[Len(a) + 1] = codes[next][s]
    BY <2>4
  <2>6. \A k \in 1 .. Len(a) : c[k] = codes[Context(previous, a, k)][a[k]]
    BY <2>4
  <2>7. c = [k \in 1 .. Len(a) + 1 |-> c[k]]
    BY <2>4
  <2> HIDE DEF c, b
  <2>8. \A k \in 1 .. Len(a) + 1 : c[k] = codes[Context(previous, b, k)][b[k]]
    <3> TAKE k \in 1 .. Len(a) + 1
    <3>1. CASE k = Len(a) + 1
      BY <2>1, <2>3, <2>5, <3>1
    <3>2. CASE k \in 1 .. Len(a)
      BY <2>2, <2>6, <3>2
    <3> QED BY <3>1, <3>2
  <2> QED BY <2>1, <2>7, <2>8 DEF c
<1>7. FlattenSeq(code(a)) \in Seq({0, 1})
      /\ FlattenSeq(code(b)) = FlattenSeq(code(a)) \o codes[next][s]
  <2> HIDE DEF code, b
  <2> QED BY <1>4, <1>5, <1>6, SeqIsStrings, FlattenAppend
<1> QED BY <1>2, <1>3, <1>4, <1>7 DEF Bits

\* Induction over the sequences of a set, with the set of those a fact is
\* known for.
LEMMA SequenceInduction ==
  ASSUME NEW S, NEW Known, <<>> \in Known,
         \A s \in Seq(S), e \in S : s \in Known => Append(s, e) \in Known,
         NEW seq \in Seq(S)
  PROVE  seq \in Known
<1>1. PICK n \in Nat : n = Len(seq)
  OBVIOUS
<1> DEFINE Numbers == {k \in 0 .. n : SubSeq(seq, 1, k) \in Known}
<1>2. 0 \in Numbers
  <2>1. SubSeq(seq, 1, 0) = <<>>
    OBVIOUS
  <2>2. SubSeq(seq, 1, 0) \in Known
    BY <2>1
  <2>3. 0 \in 0 .. n
    OBVIOUS
  <2> QED BY <2>2, <2>3, Zenon
<1>3. ASSUME NEW k \in 1 .. n, k - 1 \in Numbers PROVE k \in Numbers
  <2>1. SubSeq(seq, 1, k - 1) \in Seq(S) /\ seq[k] \in S
    BY <1>1
  <2>2. SubSeq(seq, 1, k) = Append(SubSeq(seq, 1, k - 1), seq[k])
    BY <1>1
  <2>3. SubSeq(seq, 1, k) \in Known
    BY <1>3, <2>1, <2>2
  <2> QED BY <2>3
<1> HIDE DEF Numbers
<1>4. 0 .. n \subseteq Numbers
  BY <1>2, <1>3, InductionUpTo
<1>5. n \in Numbers
  BY <1>4
<1>6. SubSeq(seq, 1, n) = seq
  BY <1>1
<1> QED BY <1>5, <1>6 DEF Numbers

\* What lies where in a concatenation.
LEMMA ConcatIs ==
  ASSUME NEW T, NEW x \in Seq(T), NEW y \in Seq(T), NEW z \in Seq(T),
         Len(z) = Len(x) + Len(y), \A k \in 1 .. Len(x) : z[k] = x[k],
         \A k \in 1 .. Len(y) : z[Len(x) + k] = y[k]
  PROVE  z = x \o y
<1>1. /\ x \o y \in Seq(T) /\ Len(x \o y) = Len(x) + Len(y)
      /\ \A i \in 1 .. Len(x) + Len(y) :
            (x \o y)[i] = IF i <= Len(x) THEN x[i] ELSE y[i - Len(x)]
  BY ConcatProperties
<1>2. PICK w : w = x \o y
  OBVIOUS
<1>3. ASSUME NEW k \in 1 .. Len(z) PROVE z[k] = w[k]
  <2>1. CASE k <= Len(x)
    BY <1>1, <1>2, <2>1
  <2>2. CASE k > Len(x)
    <3>1. k - Len(x) \in 1 .. Len(y) /\ Len(x) + (k - Len(x)) = k
      BY <2>2
    <3>2. z[k] = y[k - Len(x)]
      BY <3>1
    <3>3. w[k] = y[k - Len(x)]
      BY <1>1, <1>2, <2>2
    <3> QED BY <3>2, <3>3
  <2> QED BY <2>1, <2>2
<1>4. z = w
  BY <1>1, <1>2, <1>3, SeqEqual
<1> QED BY <1>2, <1>4

\* Nothing flattens to nothing.
LEMMA FlattenEmpty == FlattenSeq(<<>>) = <<>>
BY DEF FlattenSeq

\* Sequences flatten to a sequence over the same set.
LEMMA FlattenType ==
  ASSUME NEW S, NEW ss \in Seq(Seq(S))
  PROVE  FlattenSeq(ss) \in Seq(S)
<1>1. <<>> \in Seq(S) /\ Strings(Seq(S))
  BY SeqIsStrings
<1> QED BY <1>1, FlattenAppend

\* One sequence alone flattens to itself ...
LEMMA FlattenOneOf ==
  ASSUME NEW T, Strings(T), NEW s \in T
  PROVE  FlattenSeq(<<s>>) = s
<1>1. <<>> \in Seq(T) /\ <<s>> = Append(<<>>, s)
  OBVIOUS
<1>2. FlattenSeq(Append(<<>>, s)) = FlattenSeq(<<>>) \o s
  BY <1>1, FlattenAppend
<1> QED BY <1>1, <1>2, FlattenEmpty DEF Strings

\* ... whatever set it is over.
LEMMA FlattenOne ==
  ASSUME NEW S, NEW s \in Seq(S)
  PROVE  FlattenSeq(<<s>>) = s
BY SeqIsStrings, FlattenOneOf

\* One sequence more, of any set.
LEMMA FlattenMoreOf ==
  ASSUME NEW S, NEW ss \in Seq(Seq(S)), NEW s \in Seq(S)
  PROVE  FlattenSeq(Append(ss, s)) = FlattenSeq(ss) \o s
BY SeqIsStrings, FlattenAppend

\* Two lists flatten to the concatenation of what each flattens to.
LEMMA FlattenConcat ==
  ASSUME NEW S, NEW a \in Seq(Seq(S)), NEW b \in Seq(Seq(S))
  PROVE  FlattenSeq(a \o b) = FlattenSeq(a) \o FlattenSeq(b)
<1> DEFINE Known == {x \in Seq(Seq(S)) : FlattenSeq(a \o x) = FlattenSeq(a) \o FlattenSeq(x)}
<1>1. <<>> \in Known
  <2>1. FlattenSeq(a) \in Seq(S) /\ a \o <<>> = a
    BY FlattenType
  <2> QED BY <2>1, FlattenEmpty
<1>2. ASSUME NEW x \in Seq(Seq(S)), NEW e \in Seq(S), x \in Known PROVE Append(x, e) \in Known
  <2>1. a \o Append(x, e) = Append(a \o x, e) /\ a \o x \in Seq(Seq(S))
    OBVIOUS
  <2>2. FlattenSeq(Append(a \o x, e)) = FlattenSeq(a \o x) \o e
    BY <2>1, FlattenMoreOf
  <2>3. FlattenSeq(Append(x, e)) = FlattenSeq(x) \o e
    BY FlattenMoreOf
  <2>4. FlattenSeq(a) \in Seq(S) /\ FlattenSeq(x) \in Seq(S)
    BY FlattenType
  <2>5. FlattenSeq(a \o x) = FlattenSeq(a) \o FlattenSeq(x)
    BY <1>2
  <2>6. (FlattenSeq(a) \o FlattenSeq(x)) \o e = FlattenSeq(a) \o (FlattenSeq(x) \o e)
    BY <2>4, ConcatAssociative
  <2>7. Append(x, e) \in Seq(Seq(S))
    OBVIOUS
  <2>8. FlattenSeq(a \o Append(x, e)) = FlattenSeq(a) \o FlattenSeq(Append(x, e))
    BY <2>1, <2>2, <2>3, <2>5, <2>6
  <2> QED BY <2>7, <2>8
<1> HIDE DEF Known
<1>3. b \in Known
  BY <1>1, <1>2, SequenceInduction
<1> QED BY <1>3 DEF Known

-----------------------------------------------------------------------------
Bit == {0, 1}

\* The codes of symbols, one by one.
Codes(codes, previous, symbols) ==
    [k \in DOMAIN symbols |-> codes[Context(previous, symbols, k)][symbols[k]]]

\* The codes of an encodable text are bits.
LEMMA CodesType ==
  ASSUME NEW codes, IsCodec(codes), NEW previous, NEW a \in Seq(Nat), Encodable(codes, previous, a)
  PROVE  Codes(codes, previous, a) \in Seq(Seq(Bit)) /\ Len(Codes(codes, previous, a)) = Len(a)
<1>1. \A k \in DOMAIN a : codes[Context(previous, a, k)][a[k]] \in Seq(Bit)
  BY DEF Encodable, IsCodec, Bit
<1> QED BY <1>1 DEF Codes

\* No symbols, no bits.
LEMMA BitsEmpty == ASSUME NEW codes, NEW previous
                   PROVE  Encodable(codes, previous, <<>>) /\ Bits(codes, previous, <<>>) = <<>>
<1>1. DOMAIN (<<>>) = {}
  OBVIOUS
<1>2. [k \in DOMAIN (<<>>) |-> codes[Context(previous, <<>>, k)][(<<>>)[k]]] = <<>>
  BY <1>1
<1> QED BY <1>1, <1>2, FlattenEmpty DEF Bits, Encodable

\* An encodable text has bits.
LEMMA BitsType ==
  ASSUME NEW codes, IsCodec(codes), NEW previous, NEW a \in Seq(Nat), Encodable(codes, previous, a)
  PROVE  Bits(codes, previous, a) \in Seq(Bit) /\ Length(codes, previous, a) \in Nat
<1>1. Bits(codes, previous, a) = FlattenSeq(Codes(codes, previous, a))
  BY DEF Bits, Codes
<1>2. Bits(codes, previous, a) \in Seq(Bit)
  BY <1>1, CodesType, FlattenType
<1> QED BY <1>2 DEF Length

\* The bits of a concatenation are the bits of both parts, each in its context.
LEMMA BitsConcat ==
  ASSUME NEW codes, IsCodec(codes), NEW previous, NEW a \in Seq(Nat), NEW b \in Seq(Nat),
         Encodable(codes, previous, a \o b), NEW next, next = Context(previous, a, Len(a) + 1)
  PROVE  /\ Encodable(codes, previous, a) /\ Encodable(codes, next, b)
         /\ Bits(codes, previous, a \o b) = Bits(codes, previous, a) \o Bits(codes, next, b)
         /\ Length(codes, previous, a \o b)
              = Length(codes, previous, a) + Length(codes, next, b)
<1>2. PICK c : c = a \o b
  OBVIOUS
<1>3. Encodable(codes, previous, a) /\ Encodable(codes, next, b)
  BY EncodableConcat
<1>4. Codes(codes, previous, a \o b) = Codes(codes, previous, a) \o Codes(codes, next, b)
  <2>1. Len(c) = Len(a) + Len(b) /\ c \in Seq(Nat) /\ DOMAIN c = 1 .. Len(a) + Len(b)
    BY <1>2
  <2>2. \A k \in 1 .. Len(a) : c[k] = a[k] /\ Context(previous, c, k) = Context(previous, a, k)
    BY <1>2 DEF Context
  <2>3. \A k \in 1 .. Len(b) : c[Len(a) + k] = b[k]
                               /\ Context(previous, c, Len(a) + k) = Context(next, b, k)
    BY <1>2 DEF Context
  <2>4. PICK T : T = Seq(Bit)
    OBVIOUS
  <2>5. PICK x : x = Codes(codes, previous, a)
    OBVIOUS
  <2>6. PICK y : y = Codes(codes, next, b)
    OBVIOUS
  <2>7. PICK z : z = Codes(codes, previous, c)
    OBVIOUS
  <2>8. x \in Seq(T) /\ Len(x) = Len(a) /\ y \in Seq(T) /\ Len(y) = Len(b)
    BY <1>3, <2>4, <2>5, <2>6, CodesType
  <2>9. z \in Seq(T) /\ Len(z) = Len(a) + Len(b)
    BY <1>2, <2>1, <2>4, <2>7, CodesType
  <2>10. \A k \in 1 .. Len(a) : z[k] = x[k]
    BY <2>1, <2>2, <2>5, <2>7 DEF Codes
  <2>11. \A k \in 1 .. Len(b) : z[Len(a) + k] = y[k]
    BY <2>1, <2>3, <2>6, <2>7 DEF Codes
  <2>12. /\ Len(z) = Len(x) + Len(y) /\ \A k \in 1 .. Len(x) : z[k] = x[k]
         /\ \A k \in 1 .. Len(y) : z[Len(x) + k] = y[k]
    BY <2>8, <2>9, <2>10, <2>11
  <2>13. z = x \o y
    BY <2>8, <2>9, <2>12, ConcatIs
  <2> QED BY <1>2, <2>5, <2>6, <2>7, <2>13
<1>5. Bits(codes, previous, a \o b) = Bits(codes, previous, a) \o Bits(codes, next, b)
  <2>1. Codes(codes, previous, a) \in Seq(Seq(Bit)) /\ Codes(codes, next, b) \in Seq(Seq(Bit))
    BY <1>3, CodesType
  <2>2. /\ Bits(codes, previous, a \o b) = FlattenSeq(Codes(codes, previous, a \o b))
        /\ Bits(codes, previous, a) = FlattenSeq(Codes(codes, previous, a))
        /\ Bits(codes, next, b) = FlattenSeq(Codes(codes, next, b))
    BY DEF Bits, Codes
  <2>3. FlattenSeq(Codes(codes, previous, a) \o Codes(codes, next, b))
          = FlattenSeq(Codes(codes, previous, a)) \o FlattenSeq(Codes(codes, next, b))
    BY <2>1, FlattenConcat
  <2> QED BY <1>4, <2>2, <2>3
<1>6. Bits(codes, previous, a) \in Seq(Bit) /\ Bits(codes, next, b) \in Seq(Bit)
  BY <1>3, BitsType
<1>7. Length(codes, previous, a \o b) = Length(codes, previous, a) + Length(codes, next, b)
  BY <1>5, <1>6 DEF Length
<1> QED BY <1>3, <1>5, <1>7

Appended(codes, previous, a, s, next, b) ==
    /\ Encodable(codes, previous, a) /\ next \in DOMAIN codes /\ s \in DOMAIN codes[next]
    /\ codes[next][s] \in Seq(Bit) /\ Bits(codes, previous, a) \in Seq(Bit)
    /\ Bits(codes, previous, b) = Bits(codes, previous, a) \o codes[next][s]

\* The same of one symbol more, with all that a step of the decoder needs.
LEMMA BitsMore ==
  ASSUME NEW codes, IsCodec(codes), NEW previous, NEW a \in Seq(Nat), NEW s \in Nat,
         NEW b, b = Append(a, s), Encodable(codes, previous, b),
         NEW next, next = Context(previous, a, Len(a) + 1)
  PROVE  Appended(codes, previous, a, s, next, b)
BY BitsAppend DEF Appended, Bit

\* A stream of bits holds some bits from one of its places on.
Holds(bits, start, b) ==
    start + Len(b) - 1 <= Len(bits) /\ \A i \in 1 .. Len(b) : bits[start + i - 1] = b[i]

\* What holds a concatenation holds both parts, one behind the other.
LEMMA HoldsParts ==
  ASSUME NEW bits \in Seq(Bit), NEW start \in Nat \ {0}, NEW x \in Seq(Bit), NEW y \in Seq(Bit),
         Holds(bits, start, x \o y)
  PROVE  Holds(bits, start, x) /\ Holds(bits, start + Len(x), y)
<1>1. PICK w \in Seq(Bit) : w = x \o y
  <2>1. x \o y \in Seq(Bit)
    BY ConcatProperties
  <2> QED BY <2>1
<1>2. Len(w) = Len(x) + Len(y) /\ start + Len(w) - 1 <= Len(bits)
  BY <1>1 DEF Holds
<1>3. \A i \in 1 .. Len(w) : bits[start + i - 1] = w[i]
  BY <1>1 DEF Holds
<1>4. \A i \in 1 .. Len(x) : w[i] = x[i]
  BY <1>1
<1>5. \A i \in 1 .. Len(y) : w[Len(x) + i] = y[i]
  BY <1>1
<1>6. Holds(bits, start, x)
  BY <1>2, <1>3, <1>4 DEF Holds
<1>7. Holds(bits, start + Len(x), y)
  <2>1. start + Len(x) + Len(y) - 1 <= Len(bits)
    BY <1>2
  <2>2. ASSUME NEW i \in 1 .. Len(y) PROVE bits[start + Len(x) + i - 1] = y[i]
    <3>1. Len(x) + i \in 1 .. Len(w) /\ start + (Len(x) + i) - 1 = start + Len(x) + i - 1
      BY <1>2
    <3> QED BY <1>3, <1>5, <3>1
  <2> QED BY <2>1, <2>2 DEF Holds
<1> QED BY <1>6, <1>7

\* Two codes held at one place: the shorter begins the longer.
LEMMA PrefixIs ==
  ASSUME NEW x \in Seq(Bit), NEW y \in Seq(Bit), Len(x) <= Len(y),
         \A i \in 1 .. Len(x) : x[i] = y[i]
  PROVE  IsPrefix(x, y)
<1>1. SubSeq(x, 1, Len(x)) = x
  BY SubSeqFull
<1>2. SubSeq(y, 1, Len(x)) \in Seq(Bit) /\ Len(SubSeq(y, 1, Len(x))) = Len(x)
  OBVIOUS
<1>3. \A i \in 1 .. Len(x) : x[i] = SubSeq(y, 1, Len(x))[i]
  OBVIOUS
<1>4. x = SubSeq(y, 1, Len(x))
  BY <1>2, <1>3, SeqEqual
<1> QED BY <1>1, <1>4 DEF IsPrefix

\* Where the code of a symbol lies no other one lies.
LEMMA SpelledOne ==
  ASSUME NEW codes, IsCodec(codes), NEW previous \in DOMAIN codes, NEW s \in DOMAIN codes[previous],
         NEW bits \in Seq(Bit), NEW at \in Nat \ {0}, Holds(bits, at, codes[previous][s])
  PROVE  Spelled(codes, previous, bits, at) = {s}
<1> DEFINE code(t) == codes[previous][t]
           part(t) == SubSeq(bits, at, at + Len(code(t)) - 1)
<1>1. \A t \in DOMAIN codes[previous] : code(t) \in Seq(Bit)
  BY DEF IsCodec, Bit
<1>2. ASSUME NEW t \in DOMAIN codes[previous], at + Len(code(t)) - 1 <= Len(bits)
      PROVE  /\ part(t) \in Seq(Bit) /\ Len(part(t)) = Len(code(t))
             /\ \A i \in 1 .. Len(code(t)) : part(t)[i] = bits[at + i - 1]
  <2>1. code(t) \in Seq(Bit)
    BY <1>1
  <2>2. \A i \in at .. at + Len(code(t)) - 1 : bits[i] \in Bit
    BY <1>2, <2>1
  <2>3. at + Len(code(t)) - 1 \in Int
    BY <2>1
  <2> HIDE DEF code
  <2>4. /\ part(t) \in Seq(Bit)
        /\ Len(part(t)) = IF at <= at + Len(code(t)) - 1 THEN at + Len(code(t)) - 1 - at + 1 ELSE 0
        /\ \A i \in 1 .. at + Len(code(t)) - 1 - at + 1 : part(t)[i] = bits[at + i - 1]
    BY <2>2, <2>3, SubSeqProperties
  <2> QED BY <2>1, <2>4
<1>3. part(s) = code(s) /\ at + Len(code(s)) - 1 <= Len(bits)
  <2>1. at + Len(code(s)) - 1 <= Len(bits) /\ code(s) \in Seq(Bit)
    BY <1>1 DEF Holds
  <2>2. part(s) \in Seq(Bit) /\ Len(part(s)) = Len(code(s))
    BY <1>2, <2>1
  <2>3. \A i \in 1 .. Len(code(s)) : part(s)[i] = code(s)[i]
    BY <1>2, <2>1 DEF Holds
  <2> HIDE DEF part, code
  <2> QED BY <2>1, <2>2, <2>3, SeqEqual
<1>4. s \in Spelled(codes, previous, bits, at)
  BY <1>3 DEF Spelled
<1>5. ASSUME NEW t \in Spelled(codes, previous, bits, at) PROVE t = s
  <2>1. t \in DOMAIN codes[previous] /\ at + Len(code(t)) - 1 <= Len(bits) /\ part(t) = code(t)
    BY DEF Spelled
  <2>2. code(t) \in Seq(Bit) /\ code(s) \in Seq(Bit)
    BY <1>1, <2>1
  <2>3. \A i \in 1 .. Len(code(t)) : code(t)[i] = bits[at + i - 1]
    BY <1>2, <2>1
  <2>4. \A i \in 1 .. Len(code(s)) : code(s)[i] = bits[at + i - 1]
    BY <1>2, <1>3
  <2>5. CASE Len(code(s)) <= Len(code(t))
    <3> HIDE DEF code
    <3>2. \A i \in 1 .. Len(code(s)) : code(s)[i] = code(t)[i]
      BY <2>2, <2>3, <2>4, <2>5
    <3>1. IsPrefix(code(s), code(t))
      BY <2>2, <2>5, <3>2, PrefixIs
    <3> USE DEF code
    <3> QED BY <2>1, <3>1 DEF IsCodec
  <2>6. CASE Len(code(t)) <= Len(code(s))
    <3> HIDE DEF code
    <3>2. \A i \in 1 .. Len(code(t)) : code(t)[i] = code(s)[i]
      BY <2>2, <2>3, <2>4, <2>6
    <3>1. IsPrefix(code(t), code(s))
      BY <2>2, <2>6, <3>2, PrefixIs
    <3> USE DEF code
    <3> QED BY <2>1, <3>1 DEF IsCodec
  <2> QED BY <2>2, <2>5, <2>6
<1> QED BY <1>4, <1>5

\* Where the loop of a decoder stands after k symbols.
After(codes, previous, symbols, start, k) ==
    [last |-> Context(previous, symbols, k + 1),
     next |-> start + Length(codes, previous, SubSeq(symbols, 1, k)),
     symbols |-> SubSeq(symbols, 1, k)]

\* The beginning of a text is encodable, and its bits begin the bits of the text.
LEMMA PrefixOf ==
  ASSUME NEW symbols \in Seq(Nat), NEW k \in 1 .. Len(symbols)
  PROVE  /\ SubSeq(symbols, 1, k) \in Seq(Nat) /\ SubSeq(symbols, 1, k - 1) \in Seq(Nat)
         /\ Len(SubSeq(symbols, 1, k)) = k /\ Len(SubSeq(symbols, 1, k - 1)) = k - 1
         /\ SubSeq(symbols, 1, k) = Append(SubSeq(symbols, 1, k - 1), symbols[k])
         /\ symbols[k] \in Nat
         /\ \A previous : Context(previous, SubSeq(symbols, 1, k - 1), k)
                            = Context(previous, symbols, k)
<1>1. /\ SubSeq(symbols, 1, k) \in Seq(Nat) /\ SubSeq(symbols, 1, k - 1) \in Seq(Nat)
      /\ Len(SubSeq(symbols, 1, k)) = k /\ Len(SubSeq(symbols, 1, k - 1)) = k - 1
      /\ symbols[k] \in Nat
  OBVIOUS
<1>2. SubSeq(symbols, 1, k) = Append(SubSeq(symbols, 1, k - 1), symbols[k])
  OBVIOUS
<1>3. k # 1 => SubSeq(symbols, 1, k - 1)[k - 1] = symbols[k - 1]
  OBVIOUS
<1> QED BY <1>1, <1>2, <1>3 DEF Context

\* One pass of the decoder's loop reads the next symbol of the text.
LEMMA FurtherReads ==
  ASSUME NEW codes, IsCodec(codes), NEW previous, NEW symbols \in Seq(Nat),
         Encodable(codes, previous, symbols), NEW bits \in Seq(Bit), NEW start \in Nat \ {0},
         Holds(bits, start, Bits(codes, previous, symbols)), NEW k \in 1 .. Len(symbols)
  PROVE  Further(codes, bits, After(codes, previous, symbols, start, k - 1))
           = After(codes, previous, symbols, start, k)
<1>1. PICK a : a = SubSeq(symbols, 1, k - 1)
  OBVIOUS
<1>2. PICK b : b = SubSeq(symbols, 1, k)
  OBVIOUS
<1>3. PICK s : s = symbols[k]
  OBVIOUS
<1>4. PICK c : c = Context(previous, symbols, k)
  OBVIOUS
<1>5. /\ a \in Seq(Nat) /\ b \in Seq(Nat) /\ s \in Nat /\ b = Append(a, s) /\ Len(a) = k - 1
      /\ Context(previous, a, k) = c
  BY <1>1, <1>2, <1>3, <1>4, PrefixOf
<1>6. PICK rest \in Seq(Nat) : symbols = b \o rest
  <2>1. SubSeq(symbols, k + 1, Len(symbols)) \in Seq(Nat)
    OBVIOUS
  <2>2. symbols = b \o SubSeq(symbols, k + 1, Len(symbols))
    BY <1>2
  <2> QED BY <2>1, <2>2
<1> DEFINE next == Context(previous, b, Len(b) + 1)
<1>7. /\ Encodable(codes, previous, b) /\ Encodable(codes, next, rest)
      /\ Bits(codes, previous, symbols) = Bits(codes, previous, b) \o Bits(codes, next, rest)
  <2>1. Encodable(codes, previous, b \o rest)
    BY <1>6
  <2>2. b \in Seq(Nat)
    BY <1>5
  <2>3. /\ Encodable(codes, previous, b) /\ Encodable(codes, next, rest)
        /\ Bits(codes, previous, b \o rest) = Bits(codes, previous, b) \o Bits(codes, next, rest)
    BY <2>1, <2>2, BitsConcat
  <2> QED BY <1>6, <2>3
<1> HIDE DEF next
<1>8. /\ Encodable(codes, previous, a) /\ c \in DOMAIN codes /\ s \in DOMAIN codes[c]
      /\ codes[c][s] \in Seq(Bit) /\ Bits(codes, previous, a) \in Seq(Bit)
      /\ Bits(codes, previous, b) = Bits(codes, previous, a) \o codes[c][s]
  <2>1. Encodable(codes, previous, Append(a, s)) /\ Context(previous, a, Len(a) + 1) = c
    BY <1>5, <1>7
  <2> HIDE DEF Bit
  <2>2. a \in Seq(Nat) /\ s \in Nat /\ c = Context(previous, a, Len(a) + 1)
    BY <1>5, <2>1
  <2>3. PICK x : x = Append(a, s)
    OBVIOUS
  <2>4. Encodable(codes, previous, x)
    BY <2>1, <2>3
  <2>5. Appended(codes, previous, a, s, c, x)
    BY <2>2, <2>3, <2>4, BitsMore
  <2> QED BY <1>5, <2>3, <2>5 DEF Appended
<1>9. Holds(bits, start, Bits(codes, previous, b))
  <2>1. Bits(codes, previous, b) \in Seq(Bit) /\ Bits(codes, next, rest) \in Seq(Bit)
    BY <1>5, <1>6, <1>7, BitsType
  <2> QED BY <1>7, <2>1, HoldsParts
<1>10. PICK at \in Nat \ {0} : at = start + Length(codes, previous, a)
  BY <1>8 DEF Length
<1>11. Holds(bits, at, codes[c][s])
  BY <1>8, <1>9, <1>10, HoldsParts DEF Length
<1>12. Spelled(codes, c, bits, at) = {s}
  BY <1>8, <1>10, <1>11, SpelledOne
<1>13. at + Len(codes[c][s]) = start + Length(codes, previous, b)
  BY <1>8, <1>10 DEF Length
<1>14. Context(previous, symbols, k + 1) = s
  BY <1>3 DEF Context
<1>15. PICK read : read = After(codes, previous, symbols, start, k - 1)
  OBVIOUS
<1>16. read = [last |-> c, next |-> at, symbols |-> a]
  BY <1>1, <1>4, <1>10, <1>15 DEF After
<1>17. Further(codes, bits, read)
         = [last |-> s, next |-> at + Len(codes[c][s]), symbols |-> Append(a, s)]
  <2>1. (CHOOSE x \in Spelled(codes, c, bits, at) : TRUE) = s
    BY <1>12
  <2>2. read.last = c /\ read.next = at /\ read.symbols = a
    BY <1>16
  <2> QED BY <1>8, <1>12, <2>1, <2>2 DEF Further
<1>18. After(codes, previous, symbols, start, k)
         = [last |-> s, next |-> at + Len(codes[c][s]), symbols |-> Append(a, s)]
  BY <1>2, <1>5, <1>13, <1>14 DEF After
<1> QED BY <1>15, <1>17, <1>18

\* No text can be mistaken for an error.
LEMMA NoTextIsError == ASSUME NEW symbols \in Seq(Nat) PROVE symbols # Error
<1>1. ASSUME symbols = <<-1>> PROVE FALSE
  <2>1. symbols[1] = -1 /\ Len(symbols) = 1
    BY <1>1
  <2>2. symbols[1] \in Nat
    BY <2>1
  <2> QED BY <2>1, <2>2
<1> QED BY <1>1 DEF Error

\* The symbols, and the bit behind them, that a decoder of count symbols, or of
\* a terminated text, finds where they were encoded.
THEOREM DecodeReads ==
  ASSUME NEW codes, IsCodec(codes), NEW previous, NEW symbols \in Seq(Nat),
         Encodable(codes, previous, symbols), NEW bits \in Seq(Bit), NEW start \in Nat \ {0},
         Holds(bits, start, Bits(codes, previous, symbols)), NEW count,
         \/ count = Len(symbols)
         \/ count = -1 /\ Terminated(symbols) /\ Len(symbols) <= MaxSymbols
  PROVE  Decode(codes, previous, bits, start, count)
           = [symbols |-> symbols, next |-> start + Length(codes, previous, symbols)]
<1>1. PICK limit \in Nat : limit = (IF count = -1 THEN MaxSymbols ELSE count)
                           /\ Len(symbols) <= limit
  BY CodecAssumption
<1> DEFINE stand(k) == After(codes, previous, symbols, start, k)
           first == [last |-> previous, next |-> start, symbols |-> <<>>]
           stops(read) == read.symbols = Error \/ (count = -1 /\ Ended(read))
           step(read) == IF stops(read) THEN read ELSE Further(codes, bits, read)
           Is(f) == f = [k \in 0 .. limit |-> IF k = 0 THEN first ELSE step(f[k - 1])]
           after == CHOOSE f : Is(f)
           reached(k) == IF k <= Len(symbols) THEN k ELSE Len(symbols)
<1>2. stand(0) = first
  <2>1. SubSeq(symbols, 1, 0) = <<>> /\ Length(codes, previous, <<>>) = 0
    BY BitsEmpty DEF Length
  <2>2. Context(previous, symbols, 0 + 1) = previous
    BY DEF Context
  <2>3. start + Length(codes, previous, SubSeq(symbols, 1, 0)) = start
    <3>1. Length(codes, previous, SubSeq(symbols, 1, 0)) = 0
      BY <2>1, Zenon
    <3> QED BY <3>1
  <2> QED BY <2>1, <2>2, <2>3 DEF After
<1>3. ASSUME NEW k \in 1 .. Len(symbols) PROVE step(stand(k - 1)) = stand(k)
  <2>1. stand(k - 1).symbols # Error
    <3>1. stand(k - 1).symbols \in Seq(Nat)
      BY PrefixOf DEF After
    <3> HIDE DEF stand
    <3> QED BY <3>1, NoTextIsError
  <2>2. ~(count = -1 /\ Ended(stand(k - 1)))
    <3>1. SUFFICES ASSUME count = -1, Ended(stand(k - 1)) PROVE FALSE
      OBVIOUS
    <3>2. k # 1
      BY <1>2, <3>1 DEF Ended
    <3>3. stand(k - 1).last = symbols[k - 1]
      BY <3>2 DEF After, Context
    <3>4. Terminated(symbols)
      BY <3>1
    <3> QED BY <3>1, <3>2, <3>3, <3>4 DEF Ended, Terminated
  <2>3. Further(codes, bits, stand(k - 1)) = stand(k)
    BY FurtherReads
  <2> HIDE DEF stand
  <2> QED BY <2>1, <2>2, <2>3
<1>4. stand(Len(symbols)).symbols = symbols
      /\ stand(Len(symbols)).next = start + Length(codes, previous, symbols)
  BY SubSeqFull DEF After
<1>5. count = -1 => Ended(stand(Len(symbols)))
  <2>1. SUFFICES ASSUME Terminated(symbols) PROVE Ended(stand(Len(symbols)))
    OBVIOUS
  <2>2. Len(symbols) \in 1 .. Len(symbols) /\ symbols # <<>>
    BY <2>1 DEF Terminated
  <2>3. stand(Len(symbols)).last = End
    BY <2>1, <2>2 DEF After, Context, Terminated
  <2> QED BY <1>4, <2>2, <2>3 DEF Ended
<1>6. limit # Len(symbols) => count = -1
  BY <1>1
<1> HIDE DEF stand, first
<1>7. PICK g : g = [k \in 0 .. limit |-> stand(reached(k))]
  OBVIOUS
<1>8. Is(g)
  <2>1. ASSUME NEW k \in 0 .. limit PROVE g[k] = IF k = 0 THEN first ELSE step(g[k - 1])
    <3>1. CASE k = 0
      BY <1>2, <1>7, <3>1
    <3>2. CASE k # 0 /\ k <= Len(symbols)
      <4>1. g[k] = stand(k) /\ g[k - 1] = stand(k - 1) /\ k \in 1 .. Len(symbols)
        BY <1>7, <3>2
      <4> HIDE DEF step
      <4> QED BY <1>3, <3>2, <4>1
    <3>3. CASE k # 0 /\ k > Len(symbols)
      <4>1. g[k] = stand(Len(symbols)) /\ g[k - 1] = stand(Len(symbols))
        BY <1>7, <3>3
      <4>2. count = -1
        BY <1>6, <3>3
      <4> QED BY <1>5, <3>3, <4>1, <4>2
    <3> QED BY <3>1, <3>2, <3>3
  <2> HIDE DEF step
  <2> QED BY <1>7, <2>1
<1>9. Is(after)
  <2> HIDE DEF Is
  <2> QED BY <1>8, Zenon
<1> HIDE DEF after
<1>10. after[limit] = g[limit]
  <2> DEFINE Known == {k \in 0 .. limit : after[k] = g[k]}
  <2> HIDE DEF step
  <2>1. 0 \in Known
    BY <1>8, <1>9
  <2>2. ASSUME NEW k \in 1 .. limit, k - 1 \in Known PROVE k \in Known
    <3>1. after[k - 1] = g[k - 1]
      BY <2>2
    <3>2. after[k] = step(after[k - 1]) /\ g[k] = step(g[k - 1])
      BY <1>8, <1>9
    <3>3. after[k] = g[k]
      BY <3>1, <3>2
    <3> QED BY <3>3
  <2> HIDE DEF Known
  <2>3. 0 .. limit \subseteq Known
    BY <2>1, <2>2, InductionUpTo
  <2>4. limit \in Known
    BY <2>3
  <2> QED BY <2>4 DEF Known
<1>11. g[limit] = stand(Len(symbols))
  BY <1>1, <1>7
<1>12. PICK read : read = after[limit]
  OBVIOUS
<1>13. Decode(codes, previous, bits, start, count)
         = [symbols |-> IF count = -1 /\ ~Ended(read) THEN Error ELSE read.symbols,
            next |-> read.next]
  BY <1>1, <1>12 DEF Decode, after, first
<1> QED BY <1>4, <1>5, <1>10, <1>11, <1>12, <1>13

\* A number between two neighbouring multiples.
LEMMA Division ==
  ASSUME NEW n \in Nat, NEW b \in Nat \ {0}
  PROVE  n \div b \in Nat /\ (n \div b) * b <= n /\ n < (n \div b) * b + b
OBVIOUS

\* Multiples grow with their factor.
LEMMA Multiples ==
  ASSUME NEW m \in Nat, NEW n \in Nat, NEW b \in Nat \ {0}
  PROVE  /\ m * b \in Nat /\ (m + 1) * b = m * b + b
         /\ m <= n => m * b <= n * b
         /\ m * b < (n + 1) * b => m <= n
OBVIOUS

\* The bytes of some bits hold them, with less than a byte to spare.
LEMMA BytesHold ==
  ASSUME NEW bits \in Seq(Bit)
  PROVE  /\ Bytes(bits) \in Nat
         /\ Len(bits) <= Bytes(bits) * ByteBits
         /\ Bytes(bits) * ByteBits < Len(bits) + ByteBits
         /\ Bytes(bits) * ByteBits \in Nat
<1>1. PICK n \in Nat : n = Len(bits) + ByteBits - 1
  BY CodecAssumption
<1>2. n \div ByteBits \in Nat /\ (n \div ByteBits) * ByteBits <= n
      /\ n < (n \div ByteBits) * ByteBits + ByteBits
  BY CodecAssumption, Division
<1>3. Bytes(bits) = n \div ByteBits
  BY <1>1 DEF Bytes
<1>4. PICK q \in Nat : q = n \div ByteBits
  BY <1>2
<1>5. PICK r \in Nat : r = q * ByteBits
  BY CodecAssumption, Multiples
<1>6. r <= n /\ n < r + ByteBits
  BY <1>2, <1>4, <1>5
<1>7. Len(bits) <= r /\ r < Len(bits) + ByteBits
  BY <1>1, <1>6, CodecAssumption
<1> QED BY <1>3, <1>4, <1>5, <1>7

\* The bytes of an encoded text hold it, and go no further than the record it
\* fits into.
LEMMA PadHolds ==
  ASSUME NEW bits \in Seq(Bit)
  PROVE  /\ Pad(bits) \in Seq(Bit) /\ Holds(Pad(bits), 1, bits)
         /\ Len(Pad(bits)) = Bytes(bits) * ByteBits
<1>1. PICK more \in Nat : more = Bytes(bits) * ByteBits - Len(bits)
  BY BytesHold
<1>2. PICK zeroes : zeroes = [k \in 1 .. more |-> 0]
  OBVIOUS
<1>3. zeroes \in Seq(Bit) /\ Len(zeroes) = more
  BY <1>2 DEF Bit
<1>4. Pad(bits) = bits \o zeroes
  BY <1>1, <1>2 DEF Pad
<1>5. PICK w : w = bits \o zeroes
  OBVIOUS
<1>6. /\ w \in Seq(Bit) /\ Len(w) = Len(bits) + Len(zeroes)
      /\ \A i \in 1 .. Len(bits) : w[i] = bits[i]
  <2>1. /\ bits \o zeroes \in Seq(Bit) /\ Len(bits \o zeroes) = Len(bits) + Len(zeroes)
        /\ \A i \in 1 .. Len(bits) + Len(zeroes) :
              (bits \o zeroes)[i] = IF i <= Len(bits) THEN bits[i] ELSE zeroes[i - Len(bits)]
    BY <1>3, ConcatProperties
  <2>2. \A i \in 1 .. Len(bits) : i \in 1 .. Len(bits) + Len(zeroes) /\ i <= Len(bits)
    BY <1>3
  <2> QED BY <1>5, <2>1, <2>2
<1>7. Holds(w, 1, bits)
  BY <1>6 DEF Holds
<1>8. Len(w) = Bytes(bits) * ByteBits
  BY <1>1, <1>3, <1>6, BytesHold
<1> QED BY <1>4, <1>5, <1>6, <1>7, <1>8

\* Bits that fit into so many bytes fit padded.
LEMMA PadFits ==
  ASSUME NEW bits \in Seq(Bit), NEW size \in Nat, Len(bits) <= size * ByteBits
  PROVE  Len(Pad(bits)) <= size * ByteBits
<1>1. Bytes(bits) * ByteBits < size * ByteBits + ByteBits
  BY BytesHold, CodecAssumption
<1>2. Bytes(bits) * ByteBits < (size + 1) * ByteBits
  BY <1>1, Multiples, CodecAssumption
<1>3. Bytes(bits) <= size
  BY <1>2, BytesHold, Multiples, CodecAssumption
<1> QED BY <1>3, BytesHold, PadHolds, Multiples, CodecAssumption

-----------------------------------------------------------------------------
\* A run of entries comes back from the bits it was written to, one entry
\* behind the other.
Entry(codes, initial, e) ==
    e \in Seq(Nat) /\ Encodable(codes, initial, e) /\ Terminated(e) /\ Len(e) <= MaxSymbols

\* An entry decodes up to its terminator, from wherever the bits hold it.
LEMMA EntryReads ==
  ASSUME NEW codes, IsCodec(codes), NEW initial, NEW bits \in Seq(Bit), NEW start \in Nat \ {0},
         NEW e, Entry(codes, initial, e), Holds(bits, start, Bits(codes, initial, e))
  PROVE  Decode(codes, initial, bits, start, -1)
           = [symbols |-> e, next |-> start + Length(codes, initial, e)]
BY DecodeReads DEF Entry

\* A stream that holds all entries holds each behind those before it.
LEMMA HeldFromTheFirst ==
  ASSUME NEW n \in Nat, NEW ss, NEW f \in [0 .. n -> Seq(Bit)], NEW bits \in Seq(Bit),
         ss \in [1 .. n -> Seq(Bit)], Concats(f, ss, n), Holds(bits, 1, f[n])
  PROVE  \A k \in 1 .. n : Holds(bits, 1 + Len(f[k - 1]), ss[k])
<1> DEFINE Known == {j \in 0 .. n : Holds(bits, 1, f[n - j])}
<1>1. ASSUME NEW k \in 1 .. n, Holds(bits, 1, f[k])
      PROVE  Holds(bits, 1, f[k - 1]) /\ Holds(bits, 1 + Len(f[k - 1]), ss[k])
  <2>1. f[k] = f[k - 1] \o ss[k] /\ f[k - 1] \in Seq(Bit) /\ ss[k] \in Seq(Bit)
    <3>1. f[k] = f[k - 1] \o ss[k]
      BY DEF Concats
    <3>2. PICK T : T = Seq(Bit)
      OBVIOUS
    <3>3. f \in [0 .. n -> T] /\ ss \in [1 .. n -> T]
      BY <3>2, Zenon
    <3>4. k - 1 \in 0 .. n
      OBVIOUS
    <3>5. f[k - 1] \in T /\ ss[k] \in T
      BY <3>3, <3>4, Zenon
    <3> QED BY <3>1, <3>2, <3>5, Zenon
  <2>2. Holds(bits, 1, f[k - 1] \o ss[k])
    BY <1>1, <2>1
  <2> QED BY <2>1, <2>2, HoldsParts
<1>2. 0 \in Known
  OBVIOUS
<1>3. ASSUME NEW j \in 1 .. n, j - 1 \in Known PROVE j \in Known
  <2>1. n - (j - 1) \in 1 .. n /\ (n - (j - 1)) - 1 = n - j
    OBVIOUS
  <2>2. Holds(bits, 1, f[n - (j - 1)])
    BY <1>3
  <2>3. Holds(bits, 1, f[n - j])
    BY <1>1, <2>1, <2>2
  <2> QED BY <2>3
<1>4. 0 .. n \subseteq Known
  <2> HIDE DEF Known
  <2> QED BY <1>2, <1>3, InductionUpTo
<1>5. ASSUME NEW k \in 1 .. n PROVE Holds(bits, 1, f[k])
  <2>1. n - k \in 0 .. n /\ n - (n - k) = k
    OBVIOUS
  <2>2. n - k \in Known
    <3> HIDE DEF Known
    <3> QED BY <1>4, <2>1
  <2> QED BY <2>1, <2>2
<1> QED BY <1>1, <1>5

\* After k entries the reader stands behind them, with these entries.
StandAfter(entries, f, k) == [entries |-> SubSeq(entries, 1, k), next |-> 1 + Len(f[k])]

\* All entries of a stream are read, one by one.
LEMMA EntriesRead ==
  ASSUME NEW codes, IsCodec(codes), NEW initial, NEW n \in Nat, NEW entries \in Seq(Seq(Nat)),
         Len(entries) = n, \A k \in 1 .. n : Entry(codes, initial, entries[k]),
         NEW bits \in Seq(Bit), NEW ss, ss = [k \in 1 .. n |-> Bits(codes, initial, entries[k])],
         Holds(bits, 1, FlattenSeq(ss))
  PROVE  DecodeFrom(codes, bits, initial, n, 1) = entries
<1>1. ss \in [1 .. n -> Seq(Bit)]
  <2>1. \A k \in 1 .. n : Bits(codes, initial, entries[k]) \in Seq(Bit)
    BY BitsType DEF Entry
  <2> QED BY <2>1
<1>2. PICK f \in [0 .. n -> Seq(Bit)] : Concats(f, ss, n) /\ FlattenSeq(ss) = f[n]
  BY <1>1, SeqIsStrings, FlattenIs
<1>3. \A k \in 1 .. n : Holds(bits, 1 + Len(f[k - 1]), ss[k])
  BY <1>1, <1>2, HeldFromTheFirst
<1> DEFINE first == [entries |-> <<>>, next |-> 1]
           read(b) == Decode(codes, initial, bits, b.next, -1)
           step(b) == IF b.entries = <<Error>> THEN b
                      ELSE OneEntry(b.entries, read(b), read(b).next)
           Is(g) == g = [k \in 0 .. n |-> IF k = 0 THEN first ELSE step(g[k - 1])]
           after == CHOOSE g : Is(g)
           stand(k) == StandAfter(entries, f, k)
<1>4. PICK T : T = Seq(Nat)
  OBVIOUS
<1>5. entries \in Seq(T) /\ \A e \in T : e # Error
  BY <1>4, NoTextIsError
<1>6. stand(0) = first
  <2>1. f[0] = <<>>
    BY <1>2 DEF Concats
  <2>2. SubSeq(entries, 1, 0) = <<>> /\ 1 + Len(f[0]) = 1
    BY <2>1
  <2> QED BY <2>2 DEF StandAfter
<1>7. ASSUME NEW k \in 1 .. n PROVE step(stand(k - 1)) = stand(k)
  <2>1. PICK b : b = stand(k - 1)
    OBVIOUS
  <2>2. b.entries = SubSeq(entries, 1, k - 1) /\ b.next = 1 + Len(f[k - 1])
    BY <2>1 DEF StandAfter
  <2>3. b.entries # <<Error>>
    <3>1. PICK x \in Seq(T) : x = SubSeq(entries, 1, k - 1)
      <4>1. SubSeq(entries, 1, k - 1) \in Seq(T)
        BY <1>5
      <4> QED BY <4>1, Zenon
    <3>2. ASSUME x = <<Error>> PROVE FALSE
      <4>1. PICK e : e = Error
        OBVIOUS
      <4>2. x[1] = e /\ Len(x) = 1
        BY <3>2, <4>1
      <4>3. 1 \in 1 .. Len(x)
        BY <4>2
      <4>5. x[1] \in T
        BY <4>3, ElementOfSeq
      <4> QED BY <1>5, <4>1, <4>2, <4>5
    <3>3. x # <<Error>>
      BY <3>2
    <3> QED BY <2>2, <3>1, <3>3, Zenon
  <2>4. f[k - 1] \in Seq(Bit) /\ Len(f[k - 1]) \in Nat /\ 1 + Len(f[k - 1]) \in Nat \ {0}
    <3>1. k - 1 \in 0 .. n
      OBVIOUS
    <3>2. f[k - 1] \in Seq(Bit)
      BY <3>1, Zenon
    <3> QED BY <3>2
  <2>5. ss[k] = Bits(codes, initial, entries[k])
    OBVIOUS
  <2>6. read(b) = [symbols |-> entries[k], next |-> 1 + Len(f[k - 1]) + Length(codes, initial, entries[k])]
    <3>1. Holds(bits, 1 + Len(f[k - 1]), Bits(codes, initial, entries[k]))
      BY <1>3, <2>5
    <3>2. Entry(codes, initial, entries[k])
      OBVIOUS
    <3>3. PICK at \in Nat \ {0} : at = 1 + Len(f[k - 1])
      BY <2>4
    <3>4. Decode(codes, initial, bits, at, -1)
            = [symbols |-> entries[k], next |-> at + Length(codes, initial, entries[k])]
      BY <3>1, <3>2, <3>3, EntryReads
    <3> QED BY <2>2, <3>3, <3>4
  <2>7. Len(f[k]) = Len(f[k - 1]) + Length(codes, initial, entries[k])
    <3>1. f[k] = f[k - 1] \o ss[k]
      BY <1>2 DEF Concats
    <3>2. ss[k] \in Seq(Bit)
      BY <1>1
    <3>3. Len(f[k - 1] \o ss[k]) = Len(f[k - 1]) + Len(ss[k])
      BY <2>4, <3>2, ConcatProperties
    <3> QED BY <2>5, <3>1, <3>3 DEF Length
  <2>8. Length(codes, initial, entries[k]) \in Nat
    BY BitsType DEF Entry
  <2>9. SubSeq(entries, 1, k) = Append(SubSeq(entries, 1, k - 1), entries[k]) /\ entries[k] # Error
    BY <1>5
  <2>10. step(b) = OneEntry(b.entries, read(b), read(b).next)
    BY <2>3
  <2>11. 1 + Len(f[k]) = 1 + Len(f[k - 1]) + Length(codes, initial, entries[k])
    BY <2>4, <2>7, <2>8
  <2>12. OneEntry(b.entries, read(b), read(b).next)
           = [entries |-> Append(b.entries, entries[k]), next |-> 1 + Len(f[k])]
    <3>1. PICK r : r = read(b)
      OBVIOUS
    <3>2. r.symbols = entries[k] /\ r.next = 1 + Len(f[k - 1]) + Length(codes, initial, entries[k])
      BY <2>6, <3>1
    <3>3. r.next = 1 + Len(f[k]) /\ r.symbols # Error
      BY <2>9, <2>11, <3>2
    <3>4. PICK done : done = b.entries
      OBVIOUS
    <3> HIDE DEF read
    <3>5. OneEntry(done, r, r.next) = [entries |-> Append(done, r.symbols), next |-> r.next]
      BY <3>3 DEF OneEntry
    <3> QED BY <3>1, <3>2, <3>3, <3>4, <3>5, Zenon
  <2> QED BY <2>1, <2>2, <2>9, <2>10, <2>12 DEF StandAfter
<1> HIDE DEF stand, first, step
<1>8. PICK g : g = [k \in 0 .. n |-> stand(k)]
  OBVIOUS
<1>9. Is(g)
  <2>1. ASSUME NEW k \in 0 .. n PROVE g[k] = IF k = 0 THEN first ELSE step(g[k - 1])
    <3>1. CASE k = 0
      BY <1>6, <1>8, <3>1
    <3>2. CASE k # 0
      <4>1. g[k] = stand(k) /\ g[k - 1] = stand(k - 1) /\ k \in 1 .. n
        BY <1>8, <3>2
      <4> QED BY <1>7, <3>2, <4>1
    <3> QED BY <3>1, <3>2
  <2> QED BY <1>8, <2>1
<1>10. Is(after)
  <2> HIDE DEF Is
  <2> QED BY <1>9, Zenon
<1> HIDE DEF after
<1>11. after[n] = g[n]
  <2> DEFINE Known == {k \in 0 .. n : after[k] = g[k]}
  <2>1. 0 \in Known
    BY <1>9, <1>10
  <2>2. ASSUME NEW k \in 1 .. n, k - 1 \in Known PROVE k \in Known
    <3>1. after[k - 1] = g[k - 1]
      BY <2>2
    <3>2. after[k] = step(after[k - 1]) /\ g[k] = step(g[k - 1])
      BY <1>9, <1>10
    <3>3. after[k] = g[k]
      BY <3>1, <3>2
    <3> QED BY <3>3
  <2> HIDE DEF Known
  <2>3. 0 .. n \subseteq Known
    BY <2>1, <2>2, InductionUpTo
  <2>4. n \in Known
    BY <2>3
  <2> QED BY <2>4 DEF Known
<1>12. g[n].entries = entries
  <2>1. SubSeq(entries, 1, n) = entries
    BY <1>5, SubSeqFull
  <2> QED BY <1>8, <2>1 DEF stand, StandAfter
<1>13. DecodeFrom(codes, bits, initial, n, 1) = after[n].entries
  BY DEF DecodeFrom, after, step, first
<1> QED BY <1>11, <1>12, <1>13

-----------------------------------------------------------------------------
(* Searches: sets of rows, one from the other.                              *)

\* A search takes the steps it should as long as its rows are good.
Guided(f, first, step, Good, n) ==
    f[0] = first /\ \A k \in 1 .. n : f[k - 1] \subseteq Good[k - 1] => f[k] = step[k][f[k - 1]]

\* Every step goes from good rows to good rows.
Steps(step, Good, n) == \A k \in 1 .. n : step[k] \in [SUBSET Good[k - 1] -> SUBSET Good[k]]

\* What holds of the first rows and is kept by every step holds of all of them.
LEMMA SearchesStay ==
  ASSUME NEW n \in Nat, NEW Good, NEW step, Steps(step, Good, n), NEW first \in SUBSET Good[0],
         NEW f, Guided(f, first, step, Good, n)
  PROVE  \A k \in 0 .. n : f[k] \subseteq Good[k]
<1> DEFINE Known == {k \in 0 .. n : f[k] \subseteq Good[k]}
<1>3. ASSUME NEW k \in 1 .. n, f[k - 1] \subseteq Good[k - 1] PROVE f[k] \subseteq Good[k]
  <2>1. f[k] = step[k][f[k - 1]]
    BY <1>3 DEF Guided
  <2>2. step[k] \in [SUBSET Good[k - 1] -> SUBSET Good[k]]
    BY DEF Steps
  <2>3. step[k][f[k - 1]] \in SUBSET Good[k]
    BY <1>3, <2>2
  <2> QED BY <2>1, <2>3
<1>1. 0 \in Known /\ \A k \in 1 .. n : k - 1 \in Known => k \in Known
  <2>1. f[0] \subseteq Good[0]
    BY DEF Guided
  <2> QED BY <1>3, <2>1
<1> HIDE DEF Known
<1>2. 0 .. n \subseteq Known
  BY <1>1, InductionUpTo
<1> QED BY <1>2 DEF Known

\* Such a chain of sets exists when every step goes from good rows to good rows.
Chain(f, first, step, n) ==
    f = [k \in 0 .. n |-> IF k = 0 THEN first ELSE step[k][f[k - 1]]]

\* And its sets hold good rows only.
LEMMA SearchesExist ==
  ASSUME NEW n \in Nat, NEW Good, NEW step, NEW first \in SUBSET Good[0],
         Steps(step, Good, n)
  PROVE  \E f : Chain(f, first, step, n) /\ \A k \in 0 .. n : f[k] \subseteq Good[k]
<1> DEFINE Works(f, m) == /\ Chain(f, first, step, m)
                          /\ \A k \in 0 .. m : f[k] \subseteq Good[k]
           Known == {m \in 0 .. n : \E f : Works(f, m)}
<1>1. 0 \in Known
  <2>1. PICK g : g = [k \in 0 .. 0 |-> first]
    OBVIOUS
  <2>2. Works(g, 0)
    BY <2>1 DEF Chain
  <2> HIDE DEF Works
  <2>3. \E f : Works(f, 0)
    BY <2>2, Zenon
  <2> QED BY <2>3
<1>2. ASSUME NEW m \in 1 .. n, m - 1 \in Known PROVE m \in Known
  <2>1. PICK f : Works(f, m - 1)
    BY <1>2
  <2>2. PICK last : last = f[m - 1]
    OBVIOUS
  <2>3. PICK more : more = step[m][last]
    OBVIOUS
  <2>4. last \subseteq Good[m - 1] /\ more \subseteq Good[m]
    <3>1. last \subseteq Good[m - 1]
      BY <2>1, <2>2
    <3>2. step[m] \in [SUBSET Good[m - 1] -> SUBSET Good[m]]
      BY DEF Steps
    <3>3. step[m][last] \in SUBSET Good[m]
      BY <3>1, <3>2
    <3> QED BY <2>3, <3>1, <3>3
  <2>5. PICK g : g = [k \in 0 .. m |-> IF k = m THEN more ELSE f[k]]
    OBVIOUS
  <2>6. \A k \in 0 .. m - 1 : g[k] = f[k]
    BY <2>5
  <2>7. g[m] = more /\ g[m - 1] = last
    BY <2>2, <2>5
  <2>8. ASSUME NEW k \in 0 .. m PROVE g[k] = IF k = 0 THEN first ELSE step[k][g[k - 1]]
    <3>1. CASE k = m
      BY <2>3, <2>7, <3>1
    <3>2. CASE k \in 0 .. m - 1
      <4>1. f[k] = IF k = 0 THEN first ELSE step[k][f[k - 1]]
        BY <2>1, <3>2 DEF Chain
      <4>2. k # 0 => g[k - 1] = f[k - 1]
        BY <2>6, <3>2
      <4> QED BY <2>6, <3>2, <4>1, <4>2
    <3> QED BY <3>1, <3>2
  <2>9. \A k \in 0 .. m : g[k] \subseteq Good[k]
    <3>1. \A k \in 0 .. m - 1 : f[k] \subseteq Good[k]
      BY <2>1
    <3> QED BY <2>4, <2>6, <2>7, <3>1
  <2>10. Chain(g, first, step, m)
    <3>1. g = [k \in 0 .. m |-> g[k]]
      BY <2>5
    <3> QED BY <2>8, <3>1 DEF Chain
  <2>11. Works(g, m)
    BY <2>9, <2>10
  <2> HIDE DEF Works
  <2>12. \E h : Works(h, m)
    BY <2>11, Zenon
  <2>13. m \in 0 .. n
    OBVIOUS
  <2> QED BY <2>12, <2>13
<1> HIDE DEF Known
<1>3. 0 .. n \subseteq Known
  BY <1>1, <1>2, InductionUpTo
<1>4. n \in Known
  BY <1>3
<1> QED BY <1>4, Zenon DEF Known

-----------------------------------------------------------------------------
(* The screen                                                               *)

Screens == [page : Int, digits : {0, 1, 2}, drawn : Seq(Int \X Nat)]
Dark == [page |-> -1, digits |-> 0, drawn |-> <<>>]

\* f tells the screen after each of the first symbols.
Renders(f, symbols, n) == f[0] = Dark /\ \A k \in 1 .. n : f[k] = Render(f[k - 1], symbols[k])

\* A symbol turns a screen into a screen.
LEMMA RenderType ==
  ASSUME NEW screen \in Screens, NEW symbol \in Nat
  PROVE  Render(screen, symbol) \in Screens
<1>1. CASE screen.digits = 2
  <2>1. Render(screen, symbol) = [screen EXCEPT !.page = (symbol - 2) * 16, !.digits = 1]
    BY <1>1 DEF Render
  <2>2. (symbol - 2) * 16 \in Int
    OBVIOUS
  <2> QED BY <2>1, <2>2 DEF Screens
<1>2. CASE screen.digits = 1
  <2>1. Render(screen, symbol) = [screen EXCEPT !.page = @ + symbol - 2, !.digits = 0]
    BY <1>2 DEF Render
  <2>2. screen.page + symbol - 2 \in Int
    BY DEF Screens
  <2> QED BY <2>1, <2>2 DEF Screens
<1>3. CASE screen.digits = 0
  <2>1. PICK slot \in Int \X Nat : slot = <<screen.page, symbol>>
    BY DEF Screens
  <2>2. Append(screen.drawn, slot) \in Seq(Int \X Nat)
    BY AppendProperties DEF Screens
  <2>3. Append(screen.drawn, <<screen.page, symbol>>) \in Seq(Int \X Nat)
    BY <2>1, <2>2
  <2>4. CASE symbol = Select
    BY <1>3, <2>4 DEF Render, Screens
  <2>5. CASE symbol # Select /\ symbol = End
    BY <1>3, <2>5 DEF Render, Screens
  <2>6. CASE symbol # Select /\ symbol # End
    <3>1. Render(screen, symbol) = [screen EXCEPT !.drawn = Append(@, <<screen.page, symbol>>)]
      BY <1>3, <2>6 DEF Render
    <3> QED BY <2>3, <3>1 DEF Screens
  <2> QED BY <2>4, <2>5, <2>6
<1> QED BY <1>1, <1>2, <1>3 DEF Screens

\* The screen of a row is the last of such a function.
LEMMA ScreenIs ==
  ASSUME NEW symbols \in Seq(Nat), NEW n \in Nat, n = Len(symbols)
  PROVE  \E f \in [0 .. n -> Screens] : Renders(f, symbols, n) /\ Screen(symbols) = f[n]
<1>1. Dark \in Screens
  BY DEF Dark, Screens
<1>2. PICK step : step = [k \in 1 .. n |-> [s \in Screens |-> Render(s, symbols[k])]]
  OBVIOUS
<1>3. step \in [1 .. n -> [Screens -> Screens]]
  <2>1. \A k \in 1 .. n : symbols[k] \in Nat
    OBVIOUS
  <2> QED BY <1>2, <2>1, RenderType
<1>4. PICK f \in [0 .. n -> Screens] : Iterates(f, Dark, step, n)
  BY <1>1, <1>3, Iteration
<1>5. ASSUME NEW k \in 1 .. n PROVE f[k] = Render(f[k - 1], symbols[k])
  <2>1. f[k - 1] \in Screens
    OBVIOUS
  <2>2. step[k] = [s \in Screens |-> Render(s, symbols[k])] /\ f[k] = step[k][f[k - 1]]
    BY <1>2, <1>4 DEF Iterates
  <2> QED BY <2>1, <2>2
<1>6. f[0] = Dark
  BY <1>4 DEF Iterates
<1> DEFINE Is(g) == g = [k \in 0 .. n |-> IF k = 0 THEN Dark ELSE Render(g[k - 1], symbols[k])]
           after == CHOOSE g : Is(g)
<1>7. Is(f)
  BY <1>5, <1>6
<1>8. Is(after)
  <2> HIDE DEF Is
  <2> QED BY <1>7, Zenon
<1> HIDE DEF after
<1>12. ASSUME NEW k \in 1 .. n PROVE after[k] = Render(after[k - 1], symbols[k])
  <2>1. k \in 0 .. n /\ k # 0
    OBVIOUS
  <2>2. after[k] = IF k = 0 THEN Dark ELSE Render(after[k - 1], symbols[k])
    BY <1>8, <2>1
  <2> QED BY <2>1, <2>2
<1>9. InStep(after, f, n)
  <2>1. after[0] = Dark
    BY <1>8
  <2>2. ASSUME NEW k \in 1 .. n, after[k - 1] = f[k - 1] PROVE after[k] = f[k]
    <3>1. after[k] = Render(after[k - 1], symbols[k])
      BY <1>12
    <3> QED BY <1>5, <2>2, <3>1
  <2> QED BY <1>6, <2>1, <2>2 DEF InStep
<1>10. \A k \in 0 .. n : after[k] = f[k]
  <2> HIDE DEF Is
  <2> QED BY <1>9, Unrolled
<1>11. Screen(symbols) = after[n]
  BY DEF Screen, after, Dark
<1> QED BY <1>5, <1>6, <1>10, <1>11 DEF Renders

\* One symbol more is one step of the renderer more.
LEMMA ScreenMore ==
  ASSUME NEW symbols \in Seq(Nat), NEW symbol \in Nat, NEW more, more = Append(symbols, symbol)
  PROVE  Screen(symbols) \in Screens /\ Screen(more) = Render(Screen(symbols), symbol)
<1>1. PICK n \in Nat : n = Len(symbols)
  OBVIOUS
<1>2. PICK f \in [0 .. n -> Screens] : Renders(f, symbols, n) /\ Screen(symbols) = f[n]
  BY <1>1, ScreenIs
<1>3. PICK m \in Nat : m = n + 1
  OBVIOUS
<1>4. /\ more \in Seq(Nat) /\ Len(more) = m /\ more[m] = symbol
      /\ \A k \in 1 .. n : more[k] = symbols[k]
  BY <1>1, <1>3, AppendProperties
<1>5. PICK g \in [0 .. m -> Screens] : Renders(g, more, m) /\ Screen(more) = g[m]
  BY <1>4, ScreenIs
<1>6. f[0] = g[0]
  BY <1>2, <1>5 DEF Renders
<1>7. ASSUME NEW k \in 1 .. n, f[k - 1] = g[k - 1] PROVE f[k] = g[k]
  <2>1. f[k] = Render(f[k - 1], symbols[k])
    BY <1>2 DEF Renders
  <2>2. k \in 1 .. m
    BY <1>3
  <2>3. g[k] = Render(g[k - 1], more[k])
    BY <1>5, <2>2 DEF Renders
  <2> QED BY <1>4, <1>7, <2>1, <2>3
<1>8. f[n] = g[n]
  <2>1. InStep(f, g, n)
    BY <1>6, <1>7 DEF InStep
  <2>2. \A k \in 0 .. n : f[k] = g[k]
    BY <2>1, Unrolled
  <2> QED BY <2>2
<1>9. g[m] = Render(g[n], symbol)
  <2>1. m \in 1 .. m /\ m - 1 = n
    BY <1>3
  <2>2. g[m] = Render(g[m - 1], more[m])
    BY <1>5, <2>1 DEF Renders
  <2> QED BY <1>4, <2>1, <2>2
<1> QED BY <1>2, <1>5, <1>8, <1>9

\* Without a symbol the screen is dark.
LEMMA ScreenEmpty == Screen(<<>>) = Dark
<1>1. PICK n \in Nat : n = 0
  OBVIOUS
<1>2. PICK e : e = <<>>
  OBVIOUS
<1>3. e \in Seq(Nat) /\ Len(e) = n
  BY <1>1, <1>2
<1>4. PICK f \in [0 .. n -> Screens] : Renders(f, e, n) /\ Screen(e) = f[n]
  BY <1>3, ScreenIs
<1>5. f[n] = Dark
  BY <1>1, <1>4 DEF Renders
<1> QED BY <1>2, <1>4, <1>5

-----------------------------------------------------------------------------
(* Rows as they grow                                                        *)

\* A page selection lies at one place of a row.
PageAt(symbols, i, p) ==
    /\ i + 2 <= Len(symbols) /\ symbols[i] = Select
    /\ symbols[i + 1] = (p \div 16) + 2 /\ symbols[i + 2] = (p % 16) + 2

\* Page-select symbols stand in selections only.
Tokened(symbols) ==
    \A i \in 1 .. Len(symbols) : symbols[i] = Select => \E p \in Pages : PageAt(symbols, i, p)

Stands(symbols, page, slots) ==
    Screen(symbols) = [page |-> page, digits |-> 0, drawn |-> slots]

\* What every search keeps of the row it draws: the screen shows the slots the
\* tool believes in, on the page it believes to be on, and the first symbol
\* selects a page.
Formed(symbols, page, slots) ==
    /\ symbols \in Seq(Nat) /\ slots \in Seq(Pages \X Glyphs)
    /\ Stands(symbols, page, slots) /\ Tokened(symbols)
    /\ symbols = <<>> => page = -1
    /\ symbols # <<>> => symbols[1] = Select /\ page \in Pages

\* And of the row it returns.
Whole(symbols, slots) ==
    /\ symbols \in Seq(Nat) /\ slots \in Seq(Pages \X Glyphs)
    /\ symbols # <<>> /\ Last(symbols) = End
    /\ Screen(symbols).drawn = slots /\ Tokened(symbols)
    /\ symbols[1] = Select \/ symbols = <<End>>

\* The digits of a page are glyphs, and they select it.
LEMMA PageDigits ==
  ASSUME NEW p \in Pages
  PROVE  /\ p \in Nat /\ (p \div 16) + 2 \in Nat /\ (p % 16) + 2 \in Nat
         /\ (p \div 16) + 2 \in Glyphs /\ (p % 16) + 2 \in Glyphs
         /\ ((p \div 16) + 2 - 2) * 16 + ((p % 16) + 2) - 2 = p
         /\ PageToken(p) \in Seq(Nat) /\ Len(PageToken(p)) = 3
         /\ PageToken(p)[1] = Select /\ PageToken(p)[2] = (p \div 16) + 2
         /\ PageToken(p)[3] = (p % 16) + 2
<1>1. p \in Nat
  BY AlphabetAssumption
<1>2. p \div 16 \in Nat /\ p % 16 \in Nat
  BY <1>1
<1>6. p % 16 = p - 16 * (p \div 16)
  BY <1>1
<1>3. (p \div 16) + 2 \in Glyphs /\ (p % 16) + 2 \in Glyphs
  BY AlphabetAssumption
<1>4. /\ PageToken(p) \in Seq(Nat) /\ Len(PageToken(p)) = 3
      /\ PageToken(p)[1] = Select /\ PageToken(p)[2] = (p \div 16) + 2
      /\ PageToken(p)[3] = (p % 16) + 2
  <2>1. PICK a : a = (p \div 16) + 2
    OBVIOUS
  <2>2. PICK b : b = (p % 16) + 2
    OBVIOUS
  <2>3. a \in Nat /\ b \in Nat /\ Select \in Nat
    BY <1>2, <2>1, <2>2, AlphabetAssumption
  <2>4. PageToken(p) = <<Select, a, b>>
    BY <2>1, <2>2 DEF PageToken
  <2>5. <<Select, a, b>> \in Seq(Nat) /\ Len(<<Select, a, b>>) = 3
    BY <2>3
  <2> QED BY <2>1, <2>2, <2>4, <2>5
<1>5. (p \div 16) + 2 \in Nat /\ (p % 16) + 2 \in Nat
      /\ ((p \div 16) + 2 - 2) * 16 + ((p % 16) + 2) - 2 = p
  <2>1. PICK q \in Nat : q = p \div 16
    BY <1>2
  <2>2. PICK r \in Nat : r = p % 16
    BY <1>2
  <2>3. r = p - 16 * q
    BY <1>6, <2>1, <2>2
  <2> QED BY <1>1, <2>1, <2>2, <2>3
<1> QED BY <1>1, <1>3, <1>4, <1>5

\* The page of two digits.
Number(high, low) == (high - 2) * 16 + low - 2

\* The renderer computes the page from its digits.
LEMMA PageNumber == ASSUME NEW p \in Pages PROVE Number((p \div 16) + 2, (p % 16) + 2) = p
<1>1. PICK q \in Nat : q = p \div 16
  BY AlphabetAssumption
<1>2. PICK r \in Nat : r = p % 16
  BY AlphabetAssumption
<1>3. p \in Nat
  BY AlphabetAssumption
<1>4. r = p - 16 * q
  BY <1>1, <1>2, <1>3
<1>5. (q + 2 - 2) * 16 + (r + 2) - 2 = p
  BY <1>3, <1>4
<1> QED BY <1>1, <1>2, <1>5 DEF Number

\* Two rows of whole selections make one.
LEMMA TokenedConcat ==
  ASSUME NEW a \in Seq(Nat), NEW b \in Seq(Nat), Tokened(a), Tokened(b)
  PROVE  Tokened(a \o b)
<1>1. PICK c : c = a \o b
  OBVIOUS
<1>2. /\ c \in Seq(Nat) /\ Len(c) = Len(a) + Len(b)
      /\ \A i \in 1 .. Len(a) : c[i] = a[i]
      /\ \A i \in 1 .. Len(b) : c[Len(a) + i] = b[i]
  BY <1>1
<1>3. ASSUME NEW i \in 1 .. Len(c), c[i] = Select PROVE \E p \in Pages : PageAt(c, i, p)
  <2>1. CASE i <= Len(a)
    <3>1. i \in 1 .. Len(a) /\ a[i] = Select
      BY <1>2, <1>3, <2>1
    <3>2. PICK p \in Pages : PageAt(a, i, p)
      BY <3>1 DEF Tokened
    <3>3. i + 1 \in 1 .. Len(a) /\ i + 2 \in 1 .. Len(a)
      BY <3>1, <3>2 DEF PageAt
    <3>4. c[i + 1] = a[i + 1] /\ c[i + 2] = a[i + 2] /\ i + 2 <= Len(c)
      BY <1>2, <3>3
    <3>5. PageAt(c, i, p)
      BY <1>3, <3>2, <3>4 DEF PageAt
    <3> QED BY <3>5
  <2>2. CASE i > Len(a)
    <3>1. PICK j \in 1 .. Len(b) : i = Len(a) + j
      <4>1. i - Len(a) \in 1 .. Len(b) /\ i = Len(a) + (i - Len(a))
        BY <1>2, <2>2
      <4> QED BY <4>1
    <3>2. b[j] = Select
      BY <1>2, <1>3, <3>1
    <3>3. PICK p \in Pages : PageAt(b, j, p)
      BY <3>2 DEF Tokened
    <3>4. j + 1 \in 1 .. Len(b) /\ j + 2 \in 1 .. Len(b)
      BY <3>3 DEF PageAt
    <3>5. c[Len(a) + (j + 1)] = b[j + 1] /\ c[Len(a) + (j + 2)] = b[j + 2]
      BY <1>2, <3>4
    <3>6. i + 1 = Len(a) + (j + 1) /\ i + 2 = Len(a) + (j + 2) /\ i + 2 <= Len(c)
      BY <1>2, <3>1, <3>4
    <3>7. PageAt(c, i, p)
      BY <1>3, <3>3, <3>5, <3>6 DEF PageAt
    <3> QED BY <3>7
  <2> QED BY <1>2, <2>1, <2>2
<1> QED BY <1>1, <1>3 DEF Tokened

\* A selection is whole.
LEMMA TokenedToken == ASSUME NEW p \in Pages PROVE Tokened(PageToken(p))
<1>1. PICK t : t = PageToken(p)
  OBVIOUS
<1>2. /\ Len(t) = 3 /\ t[1] = Select /\ t[2] = (p \div 16) + 2 /\ t[3] = (p % 16) + 2
      /\ t[2] \in Glyphs /\ t[3] \in Glyphs
  BY <1>1, PageDigits
<1>3. t[2] # Select /\ t[3] # Select
  BY <1>2, AlphabetAssumption
<1>4. PageAt(t, 1, p)
  BY <1>2 DEF PageAt
<1>5. ASSUME NEW i \in 1 .. Len(t), t[i] = Select PROVE i = 1
  BY <1>2, <1>3, <1>5
<1> QED BY <1>1, <1>4, <1>5 DEF Tokened

\* A symbol that selects nothing breaks no selection.
LEMMA TokenedOne == ASSUME NEW s \in Nat, s # Select PROVE Tokened(<<s>>)
BY DEF Tokened

\* The renderer meets a page select: two digits are due.
LEMMA RenderSelect ==
  ASSUME NEW q, NEW d, NEW screen, screen = [page |-> q, digits |-> 0, drawn |-> d]
  PROVE  Render(screen, Select) = [page |-> q, digits |-> 2, drawn |-> d]
<1>1. screen.digits = 0 /\ Select # End
  BY AlphabetAssumption
<1>2. Render(screen, Select) = [screen EXCEPT !.digits = 2]
  BY <1>1 DEF Render
<1>3. [[page |-> q, digits |-> 0, drawn |-> d] EXCEPT !.digits = 2]
        = [page |-> q, digits |-> 2, drawn |-> d]
  OBVIOUS
<1>4. [screen EXCEPT !.digits = 2] = [page |-> q, digits |-> 2, drawn |-> d]
  BY <1>3, Zenon
<1> QED BY <1>2, <1>4, Zenon

\* The first digit.
LEMMA RenderHigh ==
  ASSUME NEW q, NEW d, NEW a, NEW screen, screen = [page |-> q, digits |-> 2, drawn |-> d]
  PROVE  Render(screen, a) = [page |-> (a - 2) * 16, digits |-> 1, drawn |-> d]
<1>1. screen.digits = 2
  OBVIOUS
<1>2. Render(screen, a) = [screen EXCEPT !.page = (a - 2) * 16, !.digits = 1]
  BY <1>1 DEF Render
<1> QED BY <1>2

\* The second digit.
LEMMA RenderLow ==
  ASSUME NEW q, NEW d, NEW a, NEW screen, screen = [page |-> q, digits |-> 1, drawn |-> d]
  PROVE  Render(screen, a) = [page |-> q + a - 2, digits |-> 0, drawn |-> d]
<1>1. screen.digits = 1
  OBVIOUS
<1>2. Render(screen, a) = [screen EXCEPT !.page = @ + a - 2, !.digits = 0]
  BY <1>1 DEF Render
<1> QED BY <1>2

\* A glyph is drawn from the page that is set.
LEMMA RenderGlyph ==
  ASSUME NEW q, NEW d, NEW g \in Nat, g # Select, g # End, NEW screen, screen = [page |-> q, digits |-> 0, drawn |-> d]
  PROVE  Render(screen, g) = [page |-> q, digits |-> 0, drawn |-> Append(d, <<q, g>>)]
<1>1. screen.digits = 0 /\ g # Select /\ g # End
  OBVIOUS
<1>2. Render(screen, g) = [screen EXCEPT !.drawn = Append(@, <<screen.page, g>>)]
  BY <1>1 DEF Render
<1>3. screen.page = q
  OBVIOUS
<1>4. PICK more : more = Append(d, <<q, g>>)
  OBVIOUS
<1>5. [[page |-> q, digits |-> 0, drawn |-> d] EXCEPT !.drawn = more]
        = [page |-> q, digits |-> 0, drawn |-> more]
  OBVIOUS
<1>6. screen.drawn = d
  OBVIOUS
<1>7. Render(screen, g) = [screen EXCEPT !.drawn = more]
  BY <1>2, <1>3, <1>4, <1>6
<1>8. [screen EXCEPT !.drawn = more] = [page |-> q, digits |-> 0, drawn |-> more]
  BY <1>5, Zenon
<1> QED BY <1>4, <1>7, <1>8, Zenon

\* The terminator draws nothing.
LEMMA RenderEnd ==
  ASSUME NEW screen, screen.digits = 0
  PROVE  Render(screen, End) = screen
<1>1. End # Select
  BY AlphabetAssumption
<1> QED BY <1>1 DEF Render

\* A page selection moves the screen to its page and draws nothing.
LEMMA StandsToken ==
  ASSUME NEW s \in Seq(Nat), NEW q, NEW d, Stands(s, q, d), NEW p \in Pages
  PROVE  Stands(s \o PageToken(p), p, d)
<1>1. PICK a : a = (p \div 16) + 2
  OBVIOUS
<1>2. PICK b : b = (p % 16) + 2
  OBVIOUS
<1>3. a \in Nat /\ b \in Nat /\ Select \in Nat /\ (a - 2) * 16 + b - 2 = p
  BY <1>1, <1>2, PageDigits, AlphabetAssumption
<1>4. PICK s1 \in Seq(Nat) : s1 = Append(s, Select)
  <2>1. Append(s, Select) \in Seq(Nat)
    BY <1>3
  <2> QED BY <2>1
<1>5. PICK s2 \in Seq(Nat) : s2 = Append(s1, a)
  <2>1. Append(s1, a) \in Seq(Nat)
    BY <1>3
  <2> QED BY <2>1
<1>6. PICK s3 \in Seq(Nat) : s3 = Append(s2, b)
  <2>1. Append(s2, b) \in Seq(Nat)
    BY <1>3
  <2> QED BY <2>1
<1>7. s \o PageToken(p) = s3
  <2>1. PageToken(p) = <<Select, a, b>>
    BY <1>1, <1>2 DEF PageToken
  <2>2. s \o <<Select, a, b>> = s3
    BY <1>3, <1>4, <1>5, <1>6
  <2> QED BY <2>1, <2>2
<1>8. Screen(s) = [page |-> q, digits |-> 0, drawn |-> d]
  BY DEF Stands
<1>9. Screen(s1) = [page |-> q, digits |-> 2, drawn |-> d]
  <2>1. Screen(s1) = Render(Screen(s), Select)
    BY <1>3, <1>4, ScreenMore
  <2> QED BY <1>8, <2>1, RenderSelect
<1>10. Screen(s2) = [page |-> (a - 2) * 16, digits |-> 1, drawn |-> d]
  <2>1. Screen(s2) = Render(Screen(s1), a)
    BY <1>3, <1>5, ScreenMore
  <2> QED BY <1>9, <2>1, RenderHigh
<1>11. Screen(s3) = [page |-> p, digits |-> 0, drawn |-> d]
  <2>1. Screen(s3) = Render(Screen(s2), b)
    BY <1>3, <1>6, ScreenMore
  <2>2. Screen(s3) = [page |-> (a - 2) * 16 + b - 2, digits |-> 0, drawn |-> d]
    BY <1>10, <2>1, RenderLow
  <2> QED BY <1>3, <2>2
<1> QED BY <1>7, <1>11 DEF Stands

\* A glyph draws its slot of the page.
LEMMA StandsGlyph ==
  ASSUME NEW s \in Seq(Nat), NEW p, NEW d, Stands(s, p, d), NEW g \in Nat, g # Select, g # End
  PROVE  Stands(s \o <<g>>, p, Append(d, <<p, g>>))
<1>1. g \in Nat /\ g # Select /\ g # End
  OBVIOUS
<1>2. PICK t : t = Append(s, g)
  OBVIOUS
<1>3. s \o <<g>> = t
  BY <1>1, <1>2, AppendIsConcat
<1>4. Screen(t) = Render(Screen(s), g)
  BY <1>1, <1>2, ScreenMore
<1>5. Screen(s) = [page |-> p, digits |-> 0, drawn |-> d]
  BY DEF Stands
<1>6. Screen(t) = [page |-> p, digits |-> 0, drawn |-> Append(d, <<p, g>>)]
  BY <1>1, <1>4, <1>5, RenderGlyph
<1> QED BY <1>3, <1>6 DEF Stands

\* The terminator leaves all as it is.
LEMMA StandsEnd ==
  ASSUME NEW s \in Seq(Nat), NEW p, NEW d, Stands(s, p, d)
  PROVE  Stands(s \o <<End>>, p, d)
<1>1. End \in Nat /\ End # Select
  BY AlphabetAssumption, CodecAssumption
<1>2. PICK t : t = Append(s, End)
  OBVIOUS
<1>3. s \o <<End>> = t
  BY <1>1, <1>2, AppendIsConcat
<1>4. Screen(t) = Render(Screen(s), End)
  BY <1>1, <1>2, ScreenMore
<1>5. Screen(s) = [page |-> p, digits |-> 0, drawn |-> d]
  BY DEF Stands
<1>6. Screen(t) = [page |-> p, digits |-> 0, drawn |-> d]
  BY <1>4, <1>5, RenderEnd
<1> QED BY <1>3, <1>6 DEF Stands

\* A row begins without a page and without a slot.
LEMMA FormedEmpty == Formed(<<>>, -1, <<>>)
<1>1. Stands(<<>>, -1, <<>>)
  BY ScreenEmpty DEF Stands, Dark
<1>2. Tokened(<<>>)
  BY DEF Tokened
<1> QED BY <1>1, <1>2 DEF Formed

\* The first and the last symbol of a concatenation.
LEMMA FirstOfConcat ==
  ASSUME NEW s \in Seq(Nat), NEW t \in Seq(Nat)
  PROVE  /\ s # <<>> => s \o t # <<>> /\ (s \o t)[1] = s[1]
         /\ s = <<>> => s \o t = t
         /\ t # <<>> => s \o t # <<>> /\ Last(s \o t) = Last(t)
<1>1. PICK w \in Seq(Nat) : w = s \o t
  <2>1. s \o t \in Seq(Nat)
    BY ConcatProperties
  <2> QED BY <2>1
<1>2. Len(w) = Len(s) + Len(t) /\ \A i \in 1 .. Len(w) :
                w[i] = IF i <= Len(s) THEN s[i] ELSE t[i - Len(s)]
  <2>1. /\ Len(s \o t) = Len(s) + Len(t)
        /\ \A i \in 1 .. Len(s) + Len(t) :
             (s \o t)[i] = IF i <= Len(s) THEN s[i] ELSE t[i - Len(s)]
    BY ConcatProperties
  <2> QED BY <1>1, <2>1
<1>3. s # <<>> => Len(s) > 0
  BY EmptySeq
<1>4. t # <<>> => Len(t) > 0
  BY EmptySeq
<1>5. s = <<>> => w = t
  BY <1>1, ConcatEmptySeq
<1>6. s # <<>> => w # <<>> /\ w[1] = s[1]
  <2>1. SUFFICES ASSUME s # <<>> PROVE w # <<>> /\ w[1] = s[1]
    OBVIOUS
  <2>2. Len(w) > 0 /\ 1 \in 1 .. Len(w) /\ 1 <= Len(s)
    BY <1>2, <1>3, <2>1
  <2>3. w[1] = s[1]
    BY <1>2, <2>2
  <2> QED BY <2>2, <2>3
<1>7. t # <<>> => w # <<>> /\ w[Len(w)] = t[Len(t)]
  <2>1. SUFFICES ASSUME t # <<>> PROVE w # <<>> /\ w[Len(w)] = t[Len(t)]
    OBVIOUS
  <2>2. Len(w) > 0 /\ Len(w) \in 1 .. Len(w) /\ Len(w) > Len(s) /\ Len(w) - Len(s) = Len(t)
    BY <1>2, <1>4, <2>1
  <2>3. w[Len(w)] = t[Len(t)]
    BY <1>2, <2>2
  <2> QED BY <2>2, <2>3
<1>8. t # <<>> => w # <<>> /\ Last(w) = Last(t)
  BY <1>7, Zenon DEF Last
<1> QED BY <1>1, <1>5, <1>6, <1>8, Zenon

\* A selection can follow every row that is being drawn.
LEMMA FormedToken ==
  ASSUME NEW s, NEW q, NEW d, Formed(s, q, d), NEW p \in Pages
  PROVE  Formed(s \o PageToken(p), p, d)
<1>1. s \in Seq(Nat) /\ d \in Seq(Pages \X Glyphs) /\ Stands(s, q, d) /\ Tokened(s)
  BY DEF Formed
<1>2. PICK t \in Seq(Nat) : t = PageToken(p) /\ Len(t) = 3 /\ t[1] = Select /\ Tokened(t)
  BY PageDigits, TokenedToken
<1>3. t # <<>>
  BY <1>2
<1>4. PICK w : w = s \o t
  OBVIOUS
<1>5. w \in Seq(Nat) /\ Tokened(w) /\ w # <<>> /\ w[1] = Select
  <2>1. s = <<>> => w = t
    BY <1>1, <1>4, FirstOfConcat
  <2>2. s # <<>> => w[1] = s[1] /\ s[1] = Select
    BY <1>1, <1>4, FirstOfConcat DEF Formed
  <2>3. w \in Seq(Nat)
    BY <1>1, <1>4, ConcatProperties
  <2>4. w # <<>>
    BY <1>1, <1>3, <1>4, FirstOfConcat
  <2>5. Tokened(w)
    BY <1>1, <1>2, <1>4, TokenedConcat
  <2> QED BY <1>2, <2>1, <2>2, <2>3, <2>4, <2>5
<1>6. Stands(w, p, d)
  BY <1>1, <1>2, <1>4, StandsToken
<1> QED BY <1>1, <1>2, <1>4, <1>5, <1>6 DEF Formed

\* A glyph can follow a row that stands on a page.
LEMMA FormedGlyph ==
  ASSUME NEW s, NEW p, NEW d, Formed(s, p, d), p # -1, NEW g \in Glyphs
  PROVE  /\ Formed(s \o <<g>>, p, Append(d, <<p, g>>)) /\ p \in Pages
         /\ <<g>> \in Seq(Nat)
<1>1. s \in Seq(Nat) /\ d \in Seq(Pages \X Glyphs) /\ Stands(s, p, d) /\ Tokened(s)
      /\ s # <<>> /\ s[1] = Select /\ p \in Pages
  BY DEF Formed
<1>2. PICK t \in Seq(Nat) : t = <<g>> /\ Tokened(t)
  <2>1. g \in Nat /\ g # Select
    BY AlphabetAssumption
  <2>2. <<g>> \in Seq(Nat) /\ Tokened(<<g>>)
    BY <2>1, TokenedOne
  <2> QED BY <2>2
<1>3. PICK w : w = s \o t
  OBVIOUS
<1>4. w \in Seq(Nat) /\ Tokened(w) /\ w # <<>> /\ w[1] = Select
  <2>1. w \in Seq(Nat)
    BY <1>1, <1>3, ConcatProperties
  <2>2. Tokened(w)
    BY <1>1, <1>2, <1>3, TokenedConcat
  <2> QED BY <1>1, <1>3, <2>1, <2>2, FirstOfConcat
<1>5. Stands(w, p, Append(d, <<p, g>>))
  <2>1. g \in Nat /\ g # Select /\ g # End
    BY AlphabetAssumption
  <2> QED BY <1>1, <1>2, <1>3, <2>1, StandsGlyph
<1>6. Append(d, <<p, g>>) \in Seq(Pages \X Glyphs)
  <2>1. PICK slot \in Pages \X Glyphs : slot = <<p, g>>
    BY <1>1
  <2> QED BY <1>1, <2>1, AppendProperties
<1> QED BY <1>1, <1>2, <1>3, <1>4, <1>5, <1>6 DEF Formed

\* The terminator makes a whole row of it.
LEMMA FormedEnd ==
  ASSUME NEW s, NEW p, NEW d, Formed(s, p, d)
  PROVE  Whole(s \o <<End>>, d)
<1>1. s \in Seq(Nat) /\ d \in Seq(Pages \X Glyphs) /\ Stands(s, p, d) /\ Tokened(s)
      /\ (s # <<>> => s[1] = Select)
  BY DEF Formed
<1>2. PICK t \in Seq(Nat) : t = <<End>> /\ Tokened(t) /\ t # <<>> /\ Last(t) = End
  <2>1. End \in Nat /\ End # Select
    BY AlphabetAssumption, CodecAssumption
  <2>2. <<End>> \in Seq(Nat) /\ Tokened(<<End>>) /\ <<End>> # <<>> /\ Last(<<End>>) = End
    BY <2>1, TokenedOne DEF Last
  <2> QED BY <2>2
<1>3. PICK w : w = s \o t
  OBVIOUS
<1>4. w \in Seq(Nat) /\ Tokened(w) /\ w # <<>> /\ Last(w) = End
  <2>1. w \in Seq(Nat)
    BY <1>1, <1>3, ConcatProperties
  <2>2. Tokened(w)
    BY <1>1, <1>2, <1>3, TokenedConcat
  <2> QED BY <1>1, <1>2, <1>3, <2>1, <2>2, FirstOfConcat
<1>5. w[1] = Select \/ w = t
  BY <1>1, <1>3, FirstOfConcat
<1>6. Stands(w, p, d)
  BY <1>1, <1>2, <1>3, StandsEnd
<1>7. Screen(w).drawn = d
  BY <1>6 DEF Stands
<1> QED BY <1>1, <1>2, <1>3, <1>4, <1>5, <1>7 DEF Whole

-----------------------------------------------------------------------------
(* Runs of page selections                                                  *)

\* The page a row stands on behind a run, which it began on page q.
RunPage(r, q) == IF r = <<>> THEN q ELSE CHOOSE p \in Pages : Selects(r, p)

\* A run can follow any row that is being drawn, and draws nothing.
Turning(r) ==
    /\ r \in Seq(Nat) /\ (r # <<>> => \E p \in Pages : Selects(r, p))
    /\ \A s, q, d : Formed(s, q, d) => Formed(s \o r, RunPage(r, q), d)

\* A run selects one page at most.
LEMMA SelectsOne ==
  ASSUME NEW r, NEW p \in Pages, NEW q \in Pages, Selects(r, p), Selects(r, q)
  PROVE  p = q
<1>1. PageToken(p) = PageToken(q)
  BY DEF Selects
<1>2. (p \div 16) + 2 = (q \div 16) + 2 /\ (p % 16) + 2 = (q % 16) + 2
  <2>1. PICK t : t = PageToken(p)
    OBVIOUS
  <2>2. t = PageToken(q)
    BY <1>1, <2>1
  <2>3. t[2] = (p \div 16) + 2 /\ t[3] = (p % 16) + 2
    BY <2>1, PageDigits
  <2>4. t[2] = (q \div 16) + 2 /\ t[3] = (q % 16) + 2
    BY <2>2, PageDigits
  <2> QED BY <2>3, <2>4
<1>3. Number((p \div 16) + 2, (p % 16) + 2) = p
  BY PageNumber
<1>4. Number((q \div 16) + 2, (q % 16) + 2) = q
  BY PageNumber
<1>5. PICK a : a = (p \div 16) + 2 /\ a = (q \div 16) + 2
  BY <1>2
<1>6. PICK b : b = (p % 16) + 2 /\ b = (q % 16) + 2
  BY <1>2
<1>7. Number(a, b) = p
  BY <1>3, <1>5, <1>6, Zenon
<1>8. Number(a, b) = q
  BY <1>4, <1>5, <1>6, Zenon
<1> QED BY <1>7, <1>8, Zenon

\* That page is the one the row then stands on.
LEMMA RunPageIs ==
  ASSUME NEW r, r # <<>>, NEW p \in Pages, Selects(r, p), NEW q
  PROVE  RunPage(r, q) = p
BY SelectsOne DEF RunPage

\* A run selects the page of its last token.
LEMMA SelectsLast ==
  ASSUME NEW r \in Seq(Nat), NEW p \in Pages, NEW w, w = r \o PageToken(p)
  PROVE  w \in Seq(Nat) /\ w # <<>> /\ Selects(w, p) /\ Len(w) = Len(r) + 3
<1>1. PICK t \in Seq(Nat) : t = PageToken(p) /\ Len(t) = 3
  BY PageDigits
<1>2. /\ w \in Seq(Nat) /\ Len(w) = Len(r) + 3
      /\ \A i \in 1 .. Len(w) : w[i] = IF i <= Len(r) THEN r[i] ELSE t[i - Len(r)]
  <2>1. /\ r \o t \in Seq(Nat) /\ Len(r \o t) = Len(r) + Len(t)
        /\ \A i \in 1 .. Len(r) + Len(t) :
             (r \o t)[i] = IF i <= Len(r) THEN r[i] ELSE t[i - Len(r)]
    BY ConcatProperties
  <2>2. w = r \o t
    BY <1>1
  <2> QED BY <1>1, <2>1, <2>2
<1>3. PICK last : last = SubSeq(w, Len(w) - 2, Len(w))
  OBVIOUS
<1>4. last \in Seq(Nat) /\ Len(last) = 3 /\ \A i \in 1 .. 3 : last[i] = w[Len(r) + i]
  <2>1. \A i \in Len(w) - 2 .. Len(w) : w[i] \in Nat
    BY <1>2
  <2>2. /\ last \in Seq(Nat)
        /\ Len(last) = IF Len(w) - 2 <= Len(w) THEN Len(w) - (Len(w) - 2) + 1 ELSE 0
        /\ \A i \in 1 .. Len(w) - (Len(w) - 2) + 1 : last[i] = w[Len(w) - 2 + i - 1]
    BY <1>2, <1>3, <2>1, SubSeqProperties
  <2>3. PICK n \in Nat : n = Len(w)
    BY <1>2
  <2>4. n - 2 <= n /\ n - (n - 2) + 1 = 3 /\ \A i \in 1 .. 3 : n - 2 + i - 1 = Len(r) + i
    BY <1>2, <2>3
  <2>5. last \in Seq(Nat) /\ Len(last) = 3
    BY <2>2, <2>3, <2>4
  <2>6. ASSUME NEW i \in 1 .. 3 PROVE last[i] = w[Len(r) + i]
    <3>1. i \in 1 .. n - (n - 2) + 1 /\ n - 2 + i - 1 = Len(r) + i
      BY <2>4
    <3>2. last[i] = w[n - 2 + i - 1]
      BY <2>2, <2>3, <3>1
    <3> QED BY <3>1, <3>2
  <2> QED BY <2>5, <2>6
<1>5. \A i \in 1 .. 3 : last[i] = t[i]
  <2>1. ASSUME NEW i \in 1 .. 3 PROVE w[Len(r) + i] = t[i]
    <3>1. Len(r) + i \in 1 .. Len(w) /\ ~(Len(r) + i <= Len(r)) /\ (Len(r) + i) - Len(r) = i
      BY <1>2
    <3> QED BY <1>2, <3>1
  <2> QED BY <1>4, <2>1
<1>6. last = t
  BY <1>1, <1>4, <1>5, SeqEqual
<1>7. w # <<>>
  BY <1>2
<1> QED BY <1>1, <1>2, <1>3, <1>6, <1>7 DEF Selects

\* No run at all turns nothing.
LEMMA TurningEmpty == Turning(<<>>)
<1>1. ASSUME NEW s, NEW q, NEW d, Formed(s, q, d)
      PROVE  Formed(s \o <<>>, RunPage(<<>>, q), d)
  <2>1. s \in Seq(Nat)
    BY <1>1 DEF Formed
  <2>2. s \o <<>> = s
    BY <2>1, ConcatEmptySeq
  <2>3. RunPage(<<>>, q) = q
    BY DEF RunPage
  <2> QED BY <1>1, <2>2, <2>3
<1>2. <<>> \in Seq(Nat)
  OBVIOUS
<1> QED BY <1>1, <1>2 DEF Turning

\* One token more turns to its page.
LEMMA TurningMore ==
  ASSUME NEW r, Turning(r), NEW p \in Pages
  PROVE  Turning(r \o PageToken(p))
<1>1. r \in Seq(Nat) /\ PageToken(p) \in Seq(Nat)
  BY PageDigits DEF Turning
<1>2. PICK w : w = r \o PageToken(p)
  OBVIOUS
<1>3. w \in Seq(Nat) /\ w # <<>> /\ Selects(w, p)
  BY <1>1, <1>2, SelectsLast
<1>4. ASSUME NEW s, NEW q, NEW d, Formed(s, q, d)
      PROVE  Formed(s \o w, RunPage(w, q), d)
  <2>1. s \in Seq(Nat)
    BY <1>4 DEF Formed
  <2>2. s \o w = (s \o r) \o PageToken(p)
    BY <1>1, <1>2, <2>1, ConcatAssociative
  <2>3. Formed(s \o r, RunPage(r, q), d)
    BY <1>4 DEF Turning
  <2>4. Formed((s \o r) \o PageToken(p), p, d)
    BY <2>3, FormedToken
  <2>5. RunPage(w, q) = p
    BY <1>3, RunPageIs
  <2> QED BY <2>2, <2>4, <2>5
<1>5. Turning(w)
  BY <1>3, <1>4 DEF Turning
<1> QED BY <1>2, <1>5

Turns(previous) == {r \in Seq(Nat) : Turning(r) /\ Follows(previous, r)}

\* Every run the searches make is one of these, and can follow the context.
LEMMA ControlsTurn ==
  ASSUME NEW previous, NEW limit
  PROVE  Controls(previous, limit) \subseteq Turns(previous)
<1> DEFINE n == MaxControls
           Is(f) == f = [k \in 0 .. n |-> IF k = 0 THEN {<<>>}
                                          ELSE OneTokenMore(previous, limit, f[k - 1])]
           runs == CHOOSE f : Is(f)
<1>1. n \in Nat
  BY AlphabetAssumption
<1>2. PICK Good : Good = [k \in 0 .. n |-> Turns(previous)]
  OBVIOUS
<1>3. PICK step : step = [k \in 1 .. n |-> [R \in SUBSET Turns(previous) |-> OneTokenMore(previous, limit, R)]]
  OBVIOUS
<1>4. ASSUME NEW R \in SUBSET Turns(previous) PROVE OneTokenMore(previous, limit, R) \in SUBSET Turns(previous)
  <2>1. ASSUME NEW r \in OneTokenMore(previous, limit, R) PROVE r \in Turns(previous)
    <3>1. PICK run \in R, p \in Pages : r = run \o PageToken(p) /\ Follows(previous, r)
      BY DEF OneTokenMore, LeavesRoom
    <3>2. Turning(run)
      BY DEF Turns
    <3>3. Turning(r)
      BY <3>1, <3>2, TurningMore
    <3> QED BY <3>1, <3>3 DEF Turns, Turning
  <2> QED BY <2>1
<1>5. {<<>>} \in SUBSET Turns(previous)
  BY TurningEmpty, BitsEmpty DEF Turns, Turning, Follows
<1> HIDE DEF Is, runs, n
<1>6. Steps(step, Good, n)
  <2>1. ASSUME NEW k \in 1 .. n PROVE step[k] \in [SUBSET Good[k - 1] -> SUBSET Good[k]]
    <3>1. Good[k - 1] = Turns(previous) /\ Good[k] = Turns(previous)
      BY <1>1, <1>2
    <3>2. step[k] = [R \in SUBSET Turns(previous) |-> OneTokenMore(previous, limit, R)]
      BY <1>3
    <3>3. step[k] \in [SUBSET Turns(previous) -> SUBSET Turns(previous)]
      BY <1>4, <3>2
    <3> QED BY <3>1, <3>3, Zenon
  <2> QED BY <2>1 DEF Steps
<1>7. Good[0] = Turns(previous)
  BY <1>1, <1>2
<1>8. PICK f : Chain(f, {<<>>}, step, n) /\ \A k \in 0 .. n : f[k] \subseteq Good[k]
  BY <1>1, <1>5, <1>6, <1>7, SearchesExist
<1>9. ASSUME NEW k \in 1 .. n, NEW R \in SUBSET Good[k - 1]
      PROVE  step[k][R] = OneTokenMore(previous, limit, R)
  <2>1. Good[k - 1] = Turns(previous)
    BY <1>1, <1>2
  <2> QED BY <1>3, <2>1
<1>10. Is(f)
  <2>1. ASSUME NEW k \in 0 .. n
        PROVE  f[k] = IF k = 0 THEN {<<>>} ELSE OneTokenMore(previous, limit, f[k - 1])
    <3>1. f[k] = IF k = 0 THEN {<<>>} ELSE step[k][f[k - 1]]
      BY <1>8 DEF Chain
    <3>2. k # 0 => k \in 1 .. n /\ k - 1 \in 0 .. n
      BY <1>1
    <3>3. k # 0 => f[k - 1] \in SUBSET Good[k - 1]
      BY <1>8, <3>2
    <3>4. k # 0 => step[k][f[k - 1]] = OneTokenMore(previous, limit, f[k - 1])
      BY <1>9, <3>2, <3>3
    <3> QED BY <3>1, <3>4
  <2>2. f = [k \in 0 .. n |-> f[k]]
    BY <1>8 DEF Chain
  <2> QED BY <2>1, <2>2 DEF Is
<1>11. Is(runs)
  BY <1>10, Zenon DEF runs
<1>12. Guided(runs, {<<>>}, step, Good, n)
  <2>1. runs[0] = {<<>>}
    BY <1>1, <1>11 DEF Is
  <2>2. ASSUME NEW k \in 1 .. n, runs[k - 1] \subseteq Good[k - 1]
        PROVE  runs[k] = step[k][runs[k - 1]]
    <3>1. k \in 0 .. n /\ k # 0
      BY <1>1
    <3>2. runs[k] = OneTokenMore(previous, limit, runs[k - 1])
      BY <1>11, <3>1 DEF Is
    <3> QED BY <1>9, <2>2, <3>2
  <2> QED BY <2>1, <2>2 DEF Guided
<1>13. \A k \in 0 .. n : runs[k] \subseteq Good[k]
  BY <1>1, <1>5, <1>6, <1>7, <1>12, SearchesStay
<1>14. \A k \in 0 .. n : runs[k] \subseteq Turns(previous)
  BY <1>2, <1>13
<1>15. Controls(previous, limit) = UNION {runs[k] : k \in 0 .. n}
  BY DEF Controls, runs, Is, n
<1> QED BY <1>14, <1>15

-----------------------------------------------------------------------------
(* Rows of one glyph per slot                                               *)

\* No slot serves twice.
Different(slots) == \A i, j \in 1 .. Len(slots) : slots[i] = slots[j] => i = j

\* A row being drawn with k glyphs on pages of a group, and one that is done.
Growing == [symbols : Seq(Nat), slots : Seq(Pages \X Glyphs), page : Pages \cup {-1}]

Grown(group, k) ==
    {r \in Growing : /\ Formed(r.symbols, r.page, r.slots) /\ r.page \in group \cup {-1}
                     /\ r.slots \in Seq(group \X Glyphs) /\ Len(r.slots) = k
                     /\ Different(r.slots)}

Laid(group, n, r) ==
    /\ Whole(r.symbols, r.slots)
    /\ r.slots \in Seq(group \X Glyphs) /\ Len(r.slots) = n /\ Different(r.slots)

\* A slot no slot before it is may be added.
LEMMA DifferentMore ==
  ASSUME NEW S, NEW slots \in Seq(S), Different(slots), NEW slot \in S,
         slot \notin ToSet(slots)
  PROVE  Different(Append(slots, slot))
<1>1. PICK w \in Seq(S) : w = Append(slots, slot)
  <2>1. Append(slots, slot) \in Seq(S)
    BY AppendProperties
  <2> QED BY <2>1
<1>2. /\ Len(w) = Len(slots) + 1 /\ w[Len(slots) + 1] = slot
      /\ \A i \in 1 .. Len(slots) : w[i] = slots[i]
  BY <1>1, AppendProperties
<1>3. \A i \in 1 .. Len(slots) : slots[i] # slot
  <2>1. DOMAIN slots = 1 .. Len(slots)
    BY LenProperties
  <2> QED BY <2>1 DEF ToSet
<1>4. ASSUME NEW i \in 1 .. Len(w), NEW j \in 1 .. Len(w), w[i] = w[j] PROVE i = j
  <2>1. CASE i \in 1 .. Len(slots) /\ j \in 1 .. Len(slots)
    <3>1. slots[i] = slots[j]
      BY <1>2, <1>4, <2>1
    <3> QED BY <2>1, <3>1 DEF Different
  <2>2. CASE i \in 1 .. Len(slots) /\ j = Len(slots) + 1
    BY <1>2, <1>3, <1>4, <2>2
  <2>3. CASE j \in 1 .. Len(slots) /\ i = Len(slots) + 1
    BY <1>2, <1>3, <1>4, <2>3
  <2>4. CASE j = Len(slots) + 1 /\ i = Len(slots) + 1
    BY <2>4
  <2> QED BY <1>2, <2>1, <2>2, <2>3, <2>4
<1> QED BY <1>1, <1>4 DEF Different

\* Draw adds a glyph to a row.
LEMMA DrawGrows ==
  ASSUME NEW group \in SUBSET Pages, NEW k \in Nat, NEW r \in Grown(group, k),
         NEW step, Turning(step.via), step.page = RunPage(step.via, r.page),
         step.page \in group, step.glyph \in Glyphs, StepSlot(step) \notin ToSet(r.slots)
  PROVE  Draw(r, step) \in Grown(group, k + 1)
<1>1. Formed(r.symbols, r.page, r.slots) /\ Different(r.slots)
      /\ r.slots \in Seq(group \X Glyphs) /\ Len(r.slots) = k
  BY DEF Grown
<1>2. PICK s : s = r.symbols \o step.via
  OBVIOUS
<1>3. Formed(s, step.page, r.slots)
  BY <1>1, <1>2 DEF Turning
<1>4. step.page # -1
  BY AlphabetAssumption
<1>5. PICK slot : slot = <<step.page, step.glyph>>
  OBVIOUS
<1>6. /\ Formed(s \o <<step.glyph>>, step.page, Append(r.slots, slot))
      /\ <<step.glyph>> \in Seq(Nat)
  BY <1>3, <1>4, <1>5, FormedGlyph
<1>7. PICK w : w = r.symbols \o StepSymbols(step)
  OBVIOUS
<1>8. w = s \o <<step.glyph>>
  <2>1. PICK t \in Seq(Nat) : t = <<step.glyph>>
    BY <1>6
  <2>2. PICK x \in Seq(Nat) : x = r.symbols
    BY <1>1 DEF Formed
  <2>3. PICK y \in Seq(Nat) : y = step.via
    BY DEF Turning
  <2>4. x \o (y \o t) = (x \o y) \o t
    BY ConcatAssociative
  <2> QED BY <1>2, <1>7, <2>1, <2>2, <2>3, <2>4, Zenon DEF StepSymbols
<1>9. PICK slots : slots = Append(r.slots, slot)
  OBVIOUS
<1>10. slot \in group \X Glyphs /\ slot \notin ToSet(r.slots) /\ StepSlot(step) = slot
  BY <1>5 DEF StepSlot
<1>11. slots \in Seq(group \X Glyphs) /\ Len(slots) = k + 1
  BY <1>1, <1>9, <1>10, AppendProperties
<1>12. Different(slots)
  BY <1>1, <1>9, <1>10, DifferentMore
<1>13. Formed(w, step.page, slots)
  BY <1>6, <1>8, <1>9
<1>14. Draw(r, step) = [symbols |-> w, slots |-> slots, page |-> step.page]
  BY <1>7, <1>9, <1>10 DEF Draw
<1>15. [symbols |-> w, slots |-> slots, page |-> step.page] \in Growing
  BY <1>13 DEF Formed, Growing
<1> QED BY <1>11, <1>12, <1>13, <1>14, <1>15 DEF Grown

\* A run and the terminator finish a row with all its glyphs.
LEMMA FinishLays ==
  ASSUME NEW group, NEW n, NEW r \in Grown(group, n), NEW run, Turning(run),
         NEW t, t = run \o <<End>>
  PROVE  Laid(group, n, Finish(r, t)) /\ t \in Seq(Nat)
<1>1. Formed(r.symbols, r.page, r.slots)
  BY DEF Grown
<1>2. Formed(r.symbols \o run, RunPage(run, r.page), r.slots)
  BY <1>1 DEF Turning
<1>3. Whole((r.symbols \o run) \o <<End>>, r.slots)
  BY <1>2, FormedEnd
<1>4. PICK e \in Seq(Nat) : e = <<End>>
  <2>1. <<End>> \in Seq(Nat)
    BY CodecAssumption
  <2> QED BY <2>1
<1>5. PICK x \in Seq(Nat) : x = r.symbols
  BY <1>1 DEF Formed
<1>10. run \in Seq(Nat)
  BY DEF Turning
<1>6. r.symbols \o t = (r.symbols \o run) \o <<End>>
  <2>1. x \o (run \o e) = (x \o run) \o e
    BY <1>10, ConcatAssociative
  <2> QED BY <1>4, <1>5, <2>1, Zenon
<1>7. t \in Seq(Nat)
  BY <1>4, <1>10, ConcatProperties
<1>8. Finish(r, t) = [symbols |-> r.symbols \o t, slots |-> r.slots]
  BY DEF Finish, Row
<1>9. Whole(r.symbols \o t, r.slots)
  BY <1>3, <1>6
<1>11. PICK done : done = Finish(r, t)
  OBVIOUS
<1>12. done.symbols = r.symbols \o t /\ done.slots = r.slots
  <2>1. PICK w : w = r.symbols \o t
    OBVIOUS
  <2>2. PICK slots : slots = r.slots
    OBVIOUS
  <2>3. done = [symbols |-> w, slots |-> slots]
    BY <1>8, <1>11, <2>1, <2>2, Zenon
  <2>4. done.symbols = w /\ done.slots = slots
    BY <2>3
  <2> QED BY <2>1, <2>2, <2>4, Zenon
<1>13. Whole(done.symbols, done.slots)
  BY <1>9, <1>12, Zenon
<1>14. r.slots \in Seq(group \X Glyphs) /\ Len(r.slots) = n /\ Different(r.slots)
  BY DEF Grown
<1>15. Laid(group, n, done)
  BY <1>12, <1>13, <1>14 DEF Laid
<1> QED BY <1>7, <1>11, <1>15

-----------------------------------------------------------------------------
(* The searches over several pages                                          *)

Several(kind) ==
    kind.several /\ kind.pages \in SUBSET Pages /\ kind.n \in Nat /\ kind.limit \in Nat

\* The routes of a search lead to its pages.
LEMMA RoutesTurn ==
  ASSUME NEW kind, Several(kind), NEW previous, NEW limit, NEW r \in Routes(kind, previous, limit)
  PROVE  Turning(r) /\ r # <<>> /\ \E p \in kind.pages : Selects(r, p)
<1>1. CASE kind.exact
  <2>1. r \in ExactPageRoutes(previous, kind.pages, limit)
    BY <1>1 DEF Routes, Several
  <2>2. r \in Controls(previous, limit) /\ \E p \in kind.pages : Selects(r, p)
    BY <2>1 DEF ExactPageRoutes
  <2>3. Turning(r)
    BY <2>2, ControlsTurn DEF Turns
  <2> QED BY <2>2, <2>3 DEF Selects
<1>2. CASE ~kind.exact
  <2>1. r \in BoundedPageRoutes(previous, kind.pages, limit, kind.n)
    BY <1>2 DEF Routes, Several
  <2>2. r \in ExactPageRoutes(previous, kind.pages, limit)
    BY <2>1 DEF BoundedPageRoutes
  <2>3. PICK p \in kind.pages : r \in Controls(previous, limit) /\ Selects(r, p)
    BY <2>2 DEF ExactPageRoutes
  <2>4. Turning(r)
    BY <2>3, ControlsTurn DEF Turns
  <2> QED BY <2>3, <2>4 DEF Selects
<1> QED BY <1>1, <1>2

\* What a step of a search is.
LEMMA GlyphStepIs ==
  ASSUME NEW kind, Several(kind), NEW previous, NEW page \in kind.pages \cup {-1}, NEW left,
         NEW step \in GlyphSteps(kind, previous, page, left)
  PROVE  /\ Turning(step.via) /\ step.page = RunPage(step.via, page)
         /\ step.page \in kind.pages /\ step.glyph \in Glyphs
         /\ Follows(previous, StepSymbols(step))
<1> DEFINE at(run) == IF run = <<>> THEN page ELSE PageOf(run, kind.pages)
           runs == (IF page = -1 THEN {} ELSE {<<>>}) \cup Routes(kind, previous, kind.limit)
<1>1. PICK run \in runs, g \in Glyphs :
           /\ step = [via |-> run, page |-> at(run), glyph |-> g]
           /\ LeavesRoom(previous, run \o <<g>>, left)
  BY DEF GlyphSteps
<1>2. step.via = run /\ step.page = at(run) /\ step.glyph = g
  BY <1>1
<1>3. StepSymbols(step) = run \o <<g>>
  BY <1>2, Zenon DEF StepSymbols
<1>4. Follows(previous, StepSymbols(step))
  BY <1>1, <1>3, Zenon DEF LeavesRoom
<1>5. CASE run = <<>> /\ page # -1
  BY <1>2, <1>4, <1>5, TurningEmpty DEF RunPage
<1>6. CASE run \in Routes(kind, previous, kind.limit)
  <2>1. Turning(run) /\ run # <<>> /\ \E p \in kind.pages : Selects(run, p)
    BY <1>6, RoutesTurn
  <2>2. PICK p \in kind.pages : p = PageOf(run, kind.pages) /\ Selects(run, p)
    BY <2>1 DEF PageOf
  <2>3. p = RunPage(run, page)
    BY <2>1, <2>2, RunPageIs DEF Several
  <2> QED BY <1>2, <1>4, <2>1, <2>2, <2>3
<1> QED BY <1>1, <1>5, <1>6

\* The context of the next symbol is the last one drawn.
LEMMA PreviousIs ==
  ASSUME NEW kind, NEW row
  PROVE  row.symbols \in Seq(Nat)
           => Previous(kind, row) = Context(kind.initial, row.symbols, Len(row.symbols) + 1)
<1>1. SUFFICES ASSUME row.symbols \in Seq(Nat)
               PROVE  Previous(kind, row) = Context(kind.initial, row.symbols, Len(row.symbols) + 1)
  OBVIOUS
<1>2. PICK x \in Seq(Nat) : x = row.symbols
  BY <1>1
<1>3. LastOr(x, kind.initial) = Context(kind.initial, x, Len(x) + 1)
  <2>1. x = <<>> <=> Len(x) + 1 = 1
    BY EmptySeq
  <2>2. Len(x) + 1 - 1 = Len(x)
    OBVIOUS
  <2> QED BY <2>1, <2>2 DEF LastOr, Context, Last
<1> QED BY <1>2, <1>3 DEF Previous

GrownIn(kind, k) == {r \in Grown(kind.pages, k) : Follows(kind.initial, r.symbols)}

\* One round of a search gives rows with one glyph more.
LEMMA GlyphMore ==
  ASSUME NEW kind, Several(kind), NEW k \in Nat, NEW old \in SUBSET GrownIn(kind, k)
  PROVE  OneGlyphMore(kind, old) \subseteq GrownIn(kind, k + 1)
<1>1. ASSUME NEW r \in OneGlyphMore(kind, old) PROVE r \in GrownIn(kind, k + 1)
  <2>1. PICK row \in old :
          \E step \in GlyphSteps(kind, Previous(kind, row), row.page, Left(kind, row)) :
              r = Draw(row, step) /\ StepSlot(step) \notin ToSet(row.slots)
    BY DEF OneGlyphMore
  <2>2. PICK step \in GlyphSteps(kind, Previous(kind, row), row.page, Left(kind, row)) :
              r = Draw(row, step) /\ StepSlot(step) \notin ToSet(row.slots)
    BY <2>1
  <2>3. row \in Grown(kind.pages, k) /\ Follows(kind.initial, row.symbols)
    BY DEF GrownIn
  <2>4. row.page \in kind.pages \cup {-1} /\ Formed(row.symbols, row.page, row.slots)
    BY <2>3 DEF Grown
  <2>5. /\ Turning(step.via) /\ step.page = RunPage(step.via, row.page)
        /\ step.page \in kind.pages /\ step.glyph \in Glyphs
        /\ Follows(Previous(kind, row), StepSymbols(step))
    BY <2>2, <2>4, GlyphStepIs
  <2>6. r \in Grown(kind.pages, k + 1)
    BY <2>2, <2>3, <2>5, DrawGrows DEF Several
  <2>7. PICK x \in Seq(Nat) : x = row.symbols
    BY <2>4 DEF Formed
  <2>8. PICK y \in Seq(Nat) : y = StepSymbols(step)
    <3>1. step.via \in Seq(Nat) /\ step.glyph \in Nat
      BY <2>5, AlphabetAssumption DEF Turning
    <3>2. step.via \o <<step.glyph>> \in Seq(Nat)
      <4>1. PICK v \in Seq(Nat) : v = step.via
        BY <3>1
      <4>2. PICK t \in Seq(Nat) : t = <<step.glyph>>
        <5>1. <<step.glyph>> \in Seq(Nat)
          BY <3>1
        <5> QED BY <5>1
      <4>3. v \o t \in Seq(Nat)
        BY ConcatProperties
      <4> QED BY <4>1, <4>2, <4>3
    <3> QED BY <3>2 DEF StepSymbols
  <2>9. Previous(kind, row) = Context(kind.initial, x, Len(x) + 1)
    BY <2>7, PreviousIs
  <2>10. Follows(kind.initial, x \o y)
    <3>1. Encodable(trees, kind.initial, x) /\ Encodable(trees, Context(kind.initial, x, Len(x) + 1), y)
      BY <2>3, <2>5, <2>7, <2>8, <2>9 DEF Follows
    <3> QED BY <3>1, EncodableConcat DEF Follows
  <2>11. r.symbols = x \o y
    BY <2>2, <2>7, <2>8 DEF Draw
  <2> QED BY <2>6, <2>10, <2>11 DEF GrownIn
<1> QED BY <1>1

\* What a search ends a row with.
LEMMA TerminatorIs ==
  ASSUME NEW kind, NEW previous, NEW left, NEW t \in Terminators(kind, previous, left), left \in Int
  PROVE  \E run : /\ Turning(run) /\ t = run \o <<End>> /\ Follows(previous, t)
                  /\ Cost(previous, t) <= left
<1>1. CASE kind.exact
  <2>1. PICK run \in Controls(previous, left) : /\ t = run \o <<End>> /\ Follows(previous, t)
                                                /\ Cost(previous, t) = left
    BY <1>1 DEF Terminators
  <2>2. Turning(run)
    BY ControlsTurn DEF Turns
  <2>3. Cost(previous, t) <= left
    BY <2>1
  <2> QED BY <2>1, <2>2, <2>3
<1>2. CASE ~kind.exact
  <2>1. t = <<End>> /\ Follows(previous, t) /\ Cost(previous, t) <= left
    BY <1>2 DEF Terminators
  <2>2. PICK e \in Seq(Nat) : e = <<End>>
    <3>1. <<End>> \in Seq(Nat)
      BY CodecAssumption
    <3> QED BY <3>1
  <2>3. <<>> \o e = e
    BY ConcatEmptySeq
  <2>4. t = <<>> \o <<End>>
    BY <2>1, <2>2, <2>3, Zenon
  <2> QED BY <2>1, <2>4, TurningEmpty
<1> QED BY <1>1, <1>2

\* What is kept of every row that fits, and what a search returns of it.
Fitting(kind, r) == Laid(kind.pages, kind.n, r) /\ Within(kind.initial, r.symbols, kind.limit)

\* A row so ended fits its record.
LEMMA TerminatedFits ==
  ASSUME IsCodec(trees), NEW kind, Several(kind), NEW r \in GrownIn(kind, kind.n),
         NEW t \in Terminators(kind, Previous(kind, r), Left(kind, r))
  PROVE  Fitting(kind, Finish(r, t))
<1>1. r \in Grown(kind.pages, kind.n) /\ Follows(kind.initial, r.symbols)
  BY DEF GrownIn
<1>2. PICK x \in Seq(Nat) : x = r.symbols
  BY <1>1 DEF Grown, Formed
<1>3. PICK next : next = Context(kind.initial, x, Len(x) + 1)
  OBVIOUS
<1>4. Previous(kind, r) = next
  BY <1>2, <1>3, PreviousIs
<1>5. Encodable(trees, kind.initial, x)
  BY <1>1, <1>2 DEF Follows
<1>6. Length(trees, kind.initial, x) \in Nat
  BY <1>5, BitsType
<1>7. Left(kind, r) = kind.limit - Length(trees, kind.initial, x)
  BY <1>2 DEF Left, Cost
<1>8. Left(kind, r) \in Int
  BY <1>6, <1>7 DEF Several
<1>9. PICK run : /\ Turning(run) /\ t = run \o <<End>> /\ Follows(next, t)
                 /\ Cost(next, t) <= Left(kind, r)
  BY <1>4, <1>8, TerminatorIs
<1>10. Laid(kind.pages, kind.n, Finish(r, t)) /\ t \in Seq(Nat)
  BY <1>1, <1>9, FinishLays
<1>11. Encodable(trees, next, t) /\ Length(trees, next, t) \in Nat
  BY <1>9, <1>10, BitsType DEF Follows
<1>12. Encodable(trees, kind.initial, x \o t)
  BY <1>3, <1>5, <1>10, <1>11, EncodableConcat
<1>13. Length(trees, kind.initial, x \o t)
         = Length(trees, kind.initial, x) + Length(trees, next, t)
  BY <1>3, <1>10, <1>12, BitsConcat
<1>14. Length(trees, next, t) <= kind.limit - Length(trees, kind.initial, x)
  BY <1>7, <1>9 DEF Cost
<1>15. Length(trees, kind.initial, x \o t) <= kind.limit
  BY <1>6, <1>11, <1>13, <1>14 DEF Several
<1>16. Within(kind.initial, x \o t, kind.limit)
  BY <1>12, <1>15 DEF Within, Follows, Cost
<1>17. Finish(r, t).symbols = x \o t
  BY <1>2 DEF Finish, Row
<1> QED BY <1>10, <1>16, <1>17 DEF Fitting

\* Every row the search for visible glyphs returns fits its record.
LEMMA VisibleFits ==
  ASSUME IsCodec(trees), NEW kind, Several(kind), NEW starts \in SUBSET GrownIn(kind, 0),
         NEW r \in SearchVisible(kind, starts)
  PROVE  Fitting(kind, r)
<1> DEFINE n == kind.n
           first == Promising(kind, starts, kind.n)
           more(k, R) == Promising(kind, OneGlyphMore(kind, R), kind.n - k)
           Is(f) == f = [k \in 0 .. n |-> IF k = 0 THEN first ELSE more(k, f[k - 1])]
           drawn == CHOOSE f : Is(f)
<1>1. n \in Nat
  BY DEF Several
<1>2. PICK Good : Good = [k \in 0 .. n |-> GrownIn(kind, k)]
  OBVIOUS
<1>3. PICK step : step = [k \in 1 .. n |-> [R \in SUBSET GrownIn(kind, k - 1) |-> more(k, R)]]
  OBVIOUS
<1>4. ASSUME NEW k \in 1 .. n, NEW R \in SUBSET GrownIn(kind, k - 1)
      PROVE  more(k, R) \in SUBSET GrownIn(kind, k)
  <2>1. PICK j \in Nat : j = k - 1 /\ k = j + 1
    BY <1>1
  <2>2. OneGlyphMore(kind, R) \subseteq GrownIn(kind, k)
    BY <2>1, GlyphMore
  <2> QED BY <2>2 DEF Promising
<1>5. first \in SUBSET GrownIn(kind, 0)
  BY DEF Promising
<1>17. SearchVisible(kind, starts)
         = UNION {{Finish(x, t) : t \in Terminators(kind, Previous(kind, x), Left(kind, x))} :
                  x \in drawn[n]}
  BY DEF SearchVisible
<1> HIDE DEF Is, drawn, n, first, more
<1>6. Steps(step, Good, n)
  <2>1. ASSUME NEW k \in 1 .. n PROVE step[k] \in [SUBSET Good[k - 1] -> SUBSET Good[k]]
    <3>1. Good[k - 1] = GrownIn(kind, k - 1) /\ Good[k] = GrownIn(kind, k)
      BY <1>1, <1>2
    <3>2. step[k] = [R \in SUBSET GrownIn(kind, k - 1) |-> more(k, R)]
      BY <1>3
    <3>3. step[k] \in [SUBSET GrownIn(kind, k - 1) -> SUBSET GrownIn(kind, k)]
      BY <1>4, <3>2
    <3> QED BY <3>1, <3>3, Zenon
  <2> QED BY <2>1 DEF Steps
<1>7. Good[0] = GrownIn(kind, 0)
  BY <1>1, <1>2
<1>8. PICK f : Chain(f, first, step, n) /\ \A k \in 0 .. n : f[k] \subseteq Good[k]
  BY <1>1, <1>5, <1>6, <1>7, SearchesExist
<1>9. ASSUME NEW k \in 1 .. n, NEW R \in SUBSET Good[k - 1]
      PROVE  step[k][R] = more(k, R)
  <2>1. Good[k - 1] = GrownIn(kind, k - 1)
    BY <1>1, <1>2
  <2> QED BY <1>3, <2>1
<1>10. Is(f)
  <2>1. ASSUME NEW k \in 0 .. n
        PROVE  f[k] = IF k = 0 THEN first ELSE more(k, f[k - 1])
    <3>1. f[k] = IF k = 0 THEN first ELSE step[k][f[k - 1]]
      BY <1>8 DEF Chain
    <3>2. k # 0 => k \in 1 .. n /\ k - 1 \in 0 .. n
      BY <1>1
    <3>3. k # 0 => f[k - 1] \in SUBSET Good[k - 1]
      BY <1>8, <3>2
    <3>4. k # 0 => step[k][f[k - 1]] = more(k, f[k - 1])
      BY <1>9, <3>2, <3>3
    <3> QED BY <3>1, <3>4
  <2>2. f = [k \in 0 .. n |-> f[k]]
    BY <1>8 DEF Chain
  <2> QED BY <2>1, <2>2 DEF Is
<1>11. Is(drawn)
  BY <1>10, Zenon DEF drawn
<1>12. Guided(drawn, first, step, Good, n)
  <2>1. drawn[0] = first
    BY <1>1, <1>11 DEF Is
  <2>2. ASSUME NEW k \in 1 .. n, drawn[k - 1] \subseteq Good[k - 1]
        PROVE  drawn[k] = step[k][drawn[k - 1]]
    <3>1. k \in 0 .. n /\ k # 0
      BY <1>1
    <3>2. drawn[k] = more(k, drawn[k - 1])
      BY <1>11, <3>1 DEF Is
    <3> QED BY <1>9, <2>2, <3>2
  <2> QED BY <2>1, <2>2 DEF Guided
<1>13. \A k \in 0 .. n : drawn[k] \subseteq Good[k]
  BY <1>1, <1>5, <1>6, <1>7, <1>12, SearchesStay
<1>14. drawn[n] \subseteq GrownIn(kind, n)
  BY <1>1, <1>2, <1>13
<1>15. PICK x \in drawn[n] : \E t \in Terminators(kind, Previous(kind, x), Left(kind, x)) :
                                 r = Finish(x, t)
  BY <1>17
<1>16. x \in GrownIn(kind, kind.n)
  BY <1>14 DEF n
<1> QED BY <1>15, <1>16, TerminatedFits

\* A run that selects a page begins a row on it.
LEMMA FormedRun ==
  ASSUME NEW run, Turning(run), run # <<>>, NEW p \in Pages, Selects(run, p)
  PROVE  Formed(run, p, <<>>)
<1>1. Formed(<<>> \o run, RunPage(run, -1), <<>>)
  BY FormedEmpty DEF Turning
<1>2. <<>> \o run = run
  BY ConcatEmptySeq DEF Turning
<1>3. RunPage(run, -1) = p
  BY RunPageIs
<1> QED BY <1>1, <1>2, <1>3

\* Start is a row with no glyph yet.
LEMMA StartGrows ==
  ASSUME NEW group \in SUBSET Pages, NEW run, NEW p \in group \cup {-1}, Formed(run, p, <<>>)
  PROVE  Start(run, p) \in Grown(group, 0)
<1>1. Start(run, p) = [symbols |-> run, slots |-> <<>>, page |-> p]
  BY DEF Start
<1>2. run \in Seq(Nat) /\ p \in Pages \cup {-1}
  BY DEF Formed
<1>3. Different(<<>>) /\ <<>> \in Seq(group \X Glyphs) /\ <<>> \in Seq(Pages \X Glyphs)
      /\ Len(<<>>) = 0
  BY DEF Different
<1>4. PICK e : e = <<>>
  OBVIOUS
<1>5. [symbols |-> run, slots |-> e, page |-> p] \in Grown(group, 0)
  <2>1. e \in Seq(group \X Glyphs) /\ e \in Seq(Pages \X Glyphs) /\ Len(e) = 0 /\ Different(e)
    BY <1>3, <1>4, Zenon
  <2>2. Formed(run, p, e)
    BY <1>4
  <2>3. [symbols |-> run, slots |-> e, page |-> p] \in Growing
    BY <1>2, <2>1 DEF Growing
  <2> QED BY <2>1, <2>2, <2>3 DEF Grown
<1> QED BY <1>1, <1>4, <1>5

\* The same of the search that tries every run of page tokens first.
LEMMA PrefixFits ==
  ASSUME IsCodec(trees), NEW kind, Several(kind), NEW r \in AfterPrefix(kind)
  PROVE  Fitting(kind, r)
<1> DEFINE starts == {Start(x[1], x[2]) : x \in {y \in Controls(kind.initial, kind.limit) \X kind.pages :
                                                      Selects(y[1], y[2])}}
<1>1. ASSUME NEW run \in Controls(kind.initial, kind.limit), NEW p \in kind.pages, Selects(run, p)
      PROVE  Start(run, p) \in GrownIn(kind, 0)
  <2>1. Turning(run) /\ Follows(kind.initial, run)
    BY ControlsTurn DEF Turns
  <2>2. run # <<>>
    BY <1>1 DEF Selects
  <2>3. p \in Pages
    BY DEF Several
  <2>4. Formed(run, p, <<>>)
    BY <1>1, <2>1, <2>2, <2>3, FormedRun
  <2>5. Start(run, p) \in Grown(kind.pages, 0)
    BY <2>4, StartGrows DEF Several
  <2>6. Start(run, p).symbols = run
    BY DEF Start
  <2> QED BY <2>1, <2>5, <2>6 DEF GrownIn
<1>2. starts \in SUBSET GrownIn(kind, 0)
  BY <1>1
<1>3. AfterPrefix(kind) = SearchVisible(kind, starts)
  BY DEF AfterPrefix
<1> HIDE DEF starts
<1> QED BY <1>2, <1>3, VisibleFits

\* What a search over a group of pages may return: n glyphs on slots of their
\* own, all of them on these pages, and the record holds the row.
Solved(initial, limit, group, n, r) == Laid(group, n, r) /\ Within(initial, r.symbols, limit)

\* Every row the bounded search over several pages returns shows as many glyphs
\* as asked for, on the pages of the group, none of them twice, and ends within
\* the record.
THEOREM BoundedMultiPage ==
  ASSUME IsCodec(trees), NEW initial, NEW limit \in Nat, NEW group \in SUBSET Pages, NEW n \in Nat,
         NEW r \in SolveBoundedLengthRowMultiPage(initial, limit, group, n)
  PROVE  Solved(initial, limit, group, n, r)
<1>1. PICK kind : kind = SeveralPages(initial, group, n, limit, FALSE)
  OBVIOUS
<1>2. /\ kind.pages = group /\ kind.n = n /\ kind.limit = limit /\ kind.initial = initial
      /\ kind.several
  BY <1>1 DEF SeveralPages
<1>3. Several(kind)
  BY <1>2 DEF Several
<1>4. Start(<<>>, -1) \in GrownIn(kind, 0)
  <2>1. Start(<<>>, -1) \in Grown(group, 0)
    BY FormedEmpty, StartGrows
  <2>2. Start(<<>>, -1).symbols = <<>>
    BY DEF Start
  <2> QED BY <1>2, <2>1, <2>2, BitsEmpty DEF GrownIn, Follows
<1>5. r \in SearchVisible(kind, {Start(<<>>, -1)})
  BY <1>1 DEF SolveBoundedLengthRowMultiPage
<1>6. Fitting(kind, r)
  BY <1>3, <1>4, <1>5, VisibleFits
<1> QED BY <1>2, <1>6 DEF Fitting, Solved

\* The same of the exact search.
LEMMA ExactMultiPage ==
  ASSUME IsCodec(trees), NEW initial, NEW limit \in Nat, NEW group \in SUBSET Pages, NEW n \in Nat,
         NEW r \in SolveExactLengthRowMultiPage(initial, limit, group, n)
  PROVE  Solved(initial, limit, group, n, r)
<1>1. PICK kind : kind = SeveralPages(initial, group, n, limit, TRUE)
  OBVIOUS
<1>2. /\ kind.pages = group /\ kind.n = n /\ kind.limit = limit /\ kind.initial = initial
      /\ kind.several
  BY <1>1 DEF SeveralPages
<1>3. Several(kind)
  BY <1>2 DEF Several
<1>4. r \in AfterPrefix(kind)
  BY <1>1 DEF SolveExactLengthRowMultiPage
<1>5. Fitting(kind, r)
  BY <1>3, <1>4, PrefixFits
<1> QED BY <1>2, <1>5 DEF Fitting, Solved

-----------------------------------------------------------------------------
(* Rows of a fixed count                                                    *)

\* One token, repeated, selects its page.
LEMMA RepeatedTurns ==
  ASSUME NEW p \in Pages, NEW k \in Nat
  PROVE  /\ Turning(Repeated(PageToken(p), k)) /\ Len(Repeated(PageToken(p), k)) = 3 * k
         /\ RunPage(Repeated(PageToken(p), k), p) = p
         /\ k = 0 => Repeated(PageToken(p), k) = <<>>
<1> DEFINE rep(m) == Repeated(PageToken(p), m)
           Fine(m) == Turning(rep(m)) /\ Len(rep(m)) = 3 * m /\ RunPage(rep(m), p) = p
           Known == {m \in 0 .. k : Fine(m)}
<1>1. PICK token \in Seq(Nat) : token = PageToken(p) /\ Len(token) = 3
  BY PageDigits
<1>2. rep(0) = <<>>
  <2>1. [j \in 1 .. 0 |-> token] \in [1 .. 0 -> Seq(Nat)]
    OBVIOUS
  <2>2. PICK ss \in [1 .. 0 -> Seq(Nat)] : ss = [j \in 1 .. 0 |-> token]
    BY <2>1
  <2>3. FlattenSeq(ss) = <<>>
    <3>1. \E f \in [0 .. 0 -> Seq(Nat)] : Concats(f, ss, 0) /\ FlattenSeq(ss) = f[0]
      BY SeqIsStrings, FlattenIs
    <3> QED BY <3>1 DEF Concats
  <2> QED BY <1>1, <2>2, <2>3 DEF Repeated
<1>3. ASSUME NEW m \in Nat PROVE rep(m + 1) = rep(m) \o token
  <2>1. PICK ss \in [1 .. m -> Seq(Nat)] : ss = [j \in 1 .. m |-> token]
    OBVIOUS
  <2>2. PICK more \in [1 .. m + 1 -> Seq(Nat)] : more = [j \in 1 .. m + 1 |-> token]
    OBVIOUS
  <2>3. \A j \in 1 .. m : more[j] = ss[j]
    BY <2>1, <2>2
  <2>4. FlattenSeq(more) = FlattenSeq(ss) \o more[m + 1]
    BY <2>3, SeqIsStrings, FlattenMore
  <2>5. more[m + 1] = token
    BY <2>2
  <2>6. rep(m) = FlattenSeq(ss) /\ rep(m + 1) = FlattenSeq(more)
    BY <1>1, <2>1, <2>2, Zenon DEF Repeated
  <2> QED BY <2>4, <2>5, <2>6, Zenon
<1> HIDE DEF rep
<1>4. Fine(0)
  BY <1>2, TurningEmpty DEF RunPage
<1>5. ASSUME NEW m \in Nat, Fine(m) PROVE Fine(m + 1)
  <2>1. PICK r \in Seq(Nat) : r = rep(m)
    BY <1>5 DEF Turning
  <2>2. PICK w : w = r \o PageToken(p)
    OBVIOUS
  <2>3. rep(m + 1) = w
    BY <1>1, <1>3, <2>1, <2>2
  <2>4. w # <<>> /\ Selects(w, p) /\ Len(w) = Len(r) + 3
    BY <2>1, <2>2, SelectsLast
  <2>5. Turning(w)
    BY <1>5, <2>1, <2>2, TurningMore
  <2>6. RunPage(w, p) = p
    BY <2>4, RunPageIs
  <2> QED BY <1>5, <2>1, <2>3, <2>4, <2>5, <2>6
<1> HIDE DEF Fine
<1>6. 0 \in Known /\ \A m \in 1 .. k : m - 1 \in Known => m \in Known
  <2>1. ASSUME NEW m \in 1 .. k, m - 1 \in Known PROVE m \in Known
    <3>1. PICK j \in Nat : j = m - 1 /\ m = j + 1
      OBVIOUS
    <3>2. Fine(j + 1)
      BY <1>5, <2>1, <3>1
    <3> QED BY <3>1, <3>2
  <2> QED BY <1>4, <2>1
<1> HIDE DEF Known
<1>7. 0 .. k \subseteq Known
  BY <1>6, InductionUpTo
<1>8. Fine(k)
  BY <1>7 DEF Known
<1> QED BY <1>2, <1>8 DEF Fine, rep

\* A row of one page being drawn, with at most so many page selections.
Counted(page, tokens, k) ==
    {r \in Grown({page}, k) :
        r.page = page /\ \E t \in 1 .. tokens : Len(r.symbols) = 3 * t + k}

\* A row's tokens are counted from its length.
LEMMA TokensInIs ==
  ASSUME NEW k \in Nat, NEW t \in Nat, NEW row, Len(row.symbols) = 3 * t + k, Len(row.slots) = k
  PROVE  TokensIn(row) = t
<1>1. (3 * t + k - k) \div 3 = t
  OBVIOUS
<1> QED BY <1>1 DEF TokensIn

\* One glyph more, and tokens before it within the count.
LEMMA SpreadCounts ==
  ASSUME NEW initial, NEW limit, NEW page \in Pages, NEW tokens \in Nat, NEW k \in Nat,
         NEW old \in SUBSET Counted(page, tokens, k)
  PROVE  Spread(initial, limit, tokens, old) \subseteq Counted(page, tokens, k + 1)
<1>1. ASSUME NEW r \in Spread(initial, limit, tokens, old) PROVE r \in Counted(page, tokens, k + 1)
  <2>1. PICK row \in old :
          \E m \in 0 .. tokens - TokensIn(row), g \in {h \in Glyphs : <<row.page, h>> \notin ToSet(row.slots)} :
              r = Draw(row, [via |-> Repeated(PageToken(row.page), m), page |-> row.page, glyph |-> g])
    BY DEF Spread
  <2>2. PICK m \in 0 .. tokens - TokensIn(row), g \in {h \in Glyphs : <<row.page, h>> \notin ToSet(row.slots)} :
          r = Draw(row, [via |-> Repeated(PageToken(row.page), m), page |-> row.page, glyph |-> g])
    BY <2>1
  <2>3. row \in Grown({page}, k) /\ row.page = page /\ Len(row.slots) = k
    BY DEF Counted, Grown
  <2>4. PICK t \in 1 .. tokens : Len(row.symbols) = 3 * t + k
    BY DEF Counted
  <2>5. TokensIn(row) = t
    BY <2>3, <2>4, TokensInIs
  <2>6. m \in Nat /\ t + m \in 1 .. tokens
    BY <2>5
  <2>7. PICK via : via = Repeated(PageToken(page), m)
    OBVIOUS
  <2>8. Turning(via) /\ Len(via) = 3 * m /\ RunPage(via, page) = page
    BY <2>6, <2>7, RepeatedTurns
  <2>9. PICK step : step = [via |-> via, page |-> page, glyph |-> g]
    OBVIOUS
  <2>10. step.via = via /\ step.page = page /\ step.glyph = g
    BY <2>9
  <2>11. r = Draw(row, step)
    BY <2>2, <2>3, <2>7, <2>9
  <2>12. StepSlot(step) = <<page, g>>
    BY <2>10 DEF StepSlot
  <2>13. g \in Glyphs /\ StepSlot(step) \notin ToSet(row.slots)
    BY <2>3, <2>12
  <2>14. Draw(row, step) \in Grown({page}, k + 1)
    <3>1. step.page = RunPage(step.via, row.page)
      BY <2>3, <2>8, <2>10
    <3>2. {page} \in SUBSET Pages /\ step.page \in {page} /\ Turning(step.via) /\ step.glyph \in Glyphs
      BY <2>8, <2>10, <2>13
    <3> QED BY <2>3, <2>13, <3>1, <3>2, DrawGrows
  <2>15. Draw(row, step).page = page
    BY <2>10 DEF Draw
  <2>16. Len(Draw(row, step).symbols) = 3 * (t + m) + (k + 1)
    <3>1. PICK x \in Seq(Nat) : x = row.symbols
      BY <2>3 DEF Grown, Formed
    <3>2. PICK y \in Seq(Nat) : y = <<g>> /\ Len(y) = 1
      <4>1. g \in Nat
        BY AlphabetAssumption
      <4>2. <<g>> \in Seq(Nat) /\ Len(<<g>>) = 1
        BY <4>1
      <4> QED BY <4>2
    <3>3. PICK v \in Seq(Nat) : v = via
      BY <2>8 DEF Turning
    <3>4. v \o y \in Seq(Nat) /\ Len(v \o y) = Len(v) + Len(y)
      BY ConcatProperties
    <3>5. Len(x \o (v \o y)) = Len(x) + Len(v \o y)
      BY <3>4, ConcatProperties
    <3>6. Draw(row, step).symbols = x \o (v \o y)
      BY <2>10, <3>1, <3>2, <3>3 DEF Draw, StepSymbols
    <3>7. Len(x) = 3 * t + k /\ Len(v) = 3 * m
      BY <2>4, <2>8, <3>1, <3>3
    <3>9. 3 * t + k + (3 * m + 1) = 3 * (t + m) + (k + 1)
      BY <2>6
    <3>10. Len(v \o y) = 3 * m + 1
      BY <3>2, <3>4, <3>7
    <3>8. Len(x) + Len(v \o y) = 3 * (t + m) + (k + 1)
      BY <3>7, <3>9, <3>10, Zenon
    <3> QED BY <3>5, <3>6, <3>8, Zenon
  <2> QED BY <2>6, <2>11, <2>14, <2>15, <2>16 DEF Counted
<1> QED BY <1>1

\* A run of tokens leads a row that has the tokens it should.
LEMMA LeadStarts ==
  ASSUME NEW page \in Pages, NEW tokens \in Nat \ {0}, NEW run \in Leads(page, tokens - 1)
  PROVE  Start(run, page) \in Counted(page, tokens, 0)
<1>1. ASSUME NEW t \in 1 .. tokens, Turning(run), run # <<>>, Selects(run, page), Len(run) = 3 * t
      PROVE  Start(run, page) \in Counted(page, tokens, 0)
  <2>1. Formed(run, page, <<>>)
    BY <1>1, FormedRun
  <2>2. Start(run, page) \in Grown({page}, 0)
    BY <2>1, StartGrows
  <2>3. Start(run, page).page = page /\ Start(run, page).symbols = run
    BY DEF Start
  <2>4. Len(run) = 3 * t + 0
    BY <1>1
  <2> QED BY <2>2, <2>3, <2>4 DEF Counted
<1>2. CASE run = PageToken(page)
  <2>1. PICK e \in Seq(Nat) : e = <<>> /\ Len(e) = 0
    <3>1. <<>> \in Seq(Nat) /\ Len(<<>>) = 0
      OBVIOUS
    <3> QED BY <3>1, Zenon
  <2>2. <<>> \o PageToken(page) = PageToken(page)
    BY PageDigits, ConcatEmptySeq
  <2>5. run = e \o PageToken(page)
    BY <1>2, <2>1, <2>2, Zenon
  <2>6. run # <<>> /\ Selects(run, page) /\ Len(run) = Len(e) + 3
    BY <2>5, SelectsLast
  <2>3. run # <<>> /\ Selects(run, page) /\ Len(run) = 3 * 1 /\ 1 \in 1 .. tokens
    <3>1. Len(run) = 3
      BY <2>1, <2>6
    <3>2. 3 = 3 * 1 /\ 1 \in 1 .. tokens
      OBVIOUS
    <3> QED BY <2>6, <3>1, <3>2
  <2>4. Turning(run)
    BY <1>2, <2>2, TurningEmpty, TurningMore
  <2> QED BY <1>1, <2>3, <2>4
<1>3. ASSUME NEW q \in Pages, tokens - 1 > 0, run = PageToken(q) \o PageToken(page)
      PROVE  Start(run, page) \in Counted(page, tokens, 0)
  <2>1. PICK token \in Seq(Nat) : token = PageToken(q) /\ Len(token) = 3
    BY PageDigits
  <2>2. <<>> \o PageToken(q) = PageToken(q)
    BY PageDigits, ConcatEmptySeq
  <2>3. Turning(token)
    BY <2>1, <2>2, TurningEmpty, TurningMore
  <2>7. run = token \o PageToken(page)
    BY <1>3, <2>1
  <2>8. run # <<>> /\ Selects(run, page) /\ Len(run) = Len(token) + 3
    BY <2>7, SelectsLast
  <2>4. run # <<>> /\ Selects(run, page) /\ Len(run) = 6
    BY <2>1, <2>8
  <2>5. Turning(run)
    BY <1>3, <2>1, <2>3, TurningMore
  <2>6. 2 \in 1 .. tokens /\ 6 = 3 * 2
    BY <1>3
  <2> QED BY <1>1, <2>4, <2>5, <2>6
<1> QED BY <1>2, <1>3 DEF Leads

\* What the search for a fixed count may return.
Full(count, group, n, r) == Laid(group, n, r) /\ Len(r.symbols) = count

\* The tail brings the row to its count.
LEMMA TailFills ==
  ASSUME NEW page \in Pages, NEW tokens \in Nat \ {0}, NEW n \in Nat,
         NEW row \in Counted(page, tokens, n), NEW tail \in Tails(page, tokens - TokensIn(row))
  PROVE  /\ Full(3 * tokens + n + 1, {page}, n, Finish(row, tail))
         /\ tokens = 1 => /\ Formed(row.symbols, page, row.slots)
                          /\ Finish(row, tail).symbols = row.symbols \o <<End>>
<1>1. row \in Grown({page}, n) /\ row.page = page /\ Len(row.slots) = n
  BY DEF Counted, Grown
<1>2. PICK t \in 1 .. tokens : Len(row.symbols) = 3 * t + n
  BY DEF Counted
<1>3. TokensIn(row) = t
  BY <1>1, <1>2, TokensInIs
<1>4. PICK left \in Nat : left = tokens - t
  BY <1>2
<1>5. \E run : Turning(run) /\ Len(run) = 3 * left /\ tail = run \o <<End>>
  <2>1. CASE left = 1
    <3>1. PICK q \in Pages : tail = PageToken(q) \o <<End>>
      BY <1>3, <1>4, <2>1 DEF Tails
    <3>2. <<>> \o PageToken(q) = PageToken(q)
      BY PageDigits, ConcatEmptySeq
    <3>3. Turning(PageToken(q))
      BY <3>2, TurningEmpty, TurningMore
    <3>4. Len(PageToken(q)) = 3
      BY PageDigits
    <3> QED BY <2>1, <3>1, <3>3, <3>4
  <2>2. CASE left # 1
    <3>1. tail = Repeated(PageToken(page), left) \o <<End>>
      BY <1>3, <1>4, <2>2 DEF Tails
    <3> QED BY <3>1, RepeatedTurns
  <2> QED BY <2>1, <2>2
<1>6. PICK run : Turning(run) /\ Len(run) = 3 * left /\ tail = run \o <<End>>
  BY <1>5
<1>7. Laid({page}, n, Finish(row, tail))
  BY <1>1, <1>6, FinishLays
<1>8. PICK x \in Seq(Nat) : x = row.symbols
  BY <1>1 DEF Grown, Formed
<1>9. PICK e \in Seq(Nat) : e = <<End>> /\ Len(e) = 1
  <2>1. <<End>> \in Seq(Nat) /\ Len(<<End>>) = 1
    BY CodecAssumption
  <2> QED BY <2>1
<1>10. PICK y \in Seq(Nat) : y = run
  BY <1>6 DEF Turning
<1>11. PICK done : done = Finish(row, tail)
  OBVIOUS
<1>12. done.symbols = x \o (y \o e)
  BY <1>6, <1>8, <1>9, <1>10, <1>11 DEF Finish, Row
<1>13. Len(x \o (y \o e)) = 3 * tokens + n + 1
  <2>1. y \o e \in Seq(Nat) /\ Len(y \o e) = Len(y) + Len(e)
    BY ConcatProperties
  <2>2. Len(x \o (y \o e)) = Len(x) + Len(y \o e)
    BY <2>1, ConcatProperties
  <2>3. Len(y) = 3 * left /\ Len(x) = 3 * t + n
    BY <1>2, <1>6, <1>8, <1>10
  <2>4. 3 * t + n + (3 * left + 1) = 3 * tokens + n + 1
    BY <1>2, <1>4
  <2>5. Len(y \o e) = 3 * left + 1
    BY <1>9, <2>1, <2>3
  <2> QED BY <2>2, <2>3, <2>4, <2>5, Zenon
<1>14. Len(done.symbols) = 3 * tokens + n + 1
  BY <1>12, <1>13, Zenon
<1>15. ASSUME tokens = 1 PROVE /\ Formed(row.symbols, page, row.slots)
                               /\ done.symbols = row.symbols \o <<End>>
  <2>1. left = 0
    BY <1>2, <1>4, <1>15
  <2>2. y = <<>>
    BY <1>6, <1>10, <2>1, EmptySeq
  <2>3. y \o e = e
    BY <2>2, ConcatEmptySeq
  <2>4. Formed(row.symbols, row.page, row.slots)
    BY <1>1 DEF Grown
  <2> QED BY <1>1, <1>8, <1>9, <1>12, <2>3, <2>4, Zenon
<1> QED BY <1>7, <1>11, <1>14, <1>15, Zenon DEF Full

\* No page token stands behind the last glyph.
Closed(page, r) == \E s : Formed(s, page, r.slots) /\ r.symbols = s \o <<End>>

\* Every row solved on one page for a fixed count of symbols has that count.
LEMMA FixedCountRow ==
  ASSUME NEW initial, NEW limit, NEW count \in Nat, NEW page \in Pages, NEW glyphs \in Nat,
         NEW r \in SolveFixedCountRow(initial, limit, count, page, glyphs)
  PROVE  /\ Full(count, {page}, glyphs, r) /\ Within(initial, r.symbols, limit)
         /\ (count = glyphs + 4 => Closed(page, r))
<1> DEFINE starts == {Start(run, page) :
                         run \in {l \in Leads(page, (count - glyphs - 1) \div 3 - 1) : LeavesRoom(initial, l, limit)}}
<1>20. PICK tokens : tokens = (count - glyphs - 1) \div 3
  OBVIOUS
<1>21. FixedCountPossible(count, glyphs)
  BY DEF SolveFixedCountRow
<1>22. tokens \in Nat \ {0} /\ 3 * tokens + glyphs + 1 = count
  <2>1. PICK m \in Nat : m = count - glyphs - 1 /\ m >= 3 /\ m % 3 = 0
    BY <1>21 DEF FixedCountPossible
  <2>2. m \div 3 \in Nat /\ 3 * (m \div 3) = m /\ m \div 3 # 0
    BY <2>1
  <2> QED BY <1>20, <2>1, <2>2
<1>23. starts \in SUBSET Counted(page, tokens, 0)
  BY <1>20, <1>22, LeadStarts
<1> HIDE DEF starts
<1> DEFINE n == glyphs
           first == starts
           more(k, R) == Spread(initial, limit, tokens, R)
           Is(f) == f = [k \in 0 .. n |-> IF k = 0 THEN first ELSE more(k, f[k - 1])]
           drawn == CHOOSE f : Is(f)
<1>1. n \in Nat
  OBVIOUS
<1>2. PICK Good : Good = [k \in 0 .. n |-> Counted(page, tokens, k)]
  OBVIOUS
<1>3. PICK step : step = [k \in 1 .. n |-> [R \in SUBSET Counted(page, tokens, k - 1) |-> more(k, R)]]
  OBVIOUS
<1>4. ASSUME NEW k \in 1 .. n, NEW R \in SUBSET Counted(page, tokens, k - 1)
      PROVE  more(k, R) \in SUBSET Counted(page, tokens, k)
  <2>1. PICK j \in Nat : j = k - 1 /\ k = j + 1
    BY <1>1
  <2> QED BY <1>22, <2>1, SpreadCounts
<1>5. first \in SUBSET Counted(page, tokens, 0)
  BY <1>23
<1> USE DEF starts
<1>17. SolveFixedCountRow(initial, limit, count, page, glyphs)
         = {x \in UNION {{Finish(row, t) : t \in Tails(page, tokens - TokensIn(row))} :
                         row \in drawn[n]} : Within(initial, x.symbols, limit)}
  BY <1>20, <1>21 DEF SolveFixedCountRow
<1> HIDE DEF Is, drawn, n, first, more, starts
<1>6. Steps(step, Good, n)
  <2>1. ASSUME NEW k \in 1 .. n PROVE step[k] \in [SUBSET Good[k - 1] -> SUBSET Good[k]]
    <3>1. Good[k - 1] = Counted(page, tokens, k - 1) /\ Good[k] = Counted(page, tokens, k)
      BY <1>1, <1>2
    <3>2. step[k] = [R \in SUBSET Counted(page, tokens, k - 1) |-> more(k, R)]
      BY <1>3
    <3>3. step[k] \in [SUBSET Counted(page, tokens, k - 1) -> SUBSET Counted(page, tokens, k)]
      BY <1>4, <3>2
    <3> QED BY <3>1, <3>3, Zenon
  <2> QED BY <2>1 DEF Steps
<1>7. Good[0] = Counted(page, tokens, 0)
  BY <1>1, <1>2
<1>8. PICK f : Chain(f, first, step, n) /\ \A k \in 0 .. n : f[k] \subseteq Good[k]
  BY <1>1, <1>5, <1>6, <1>7, SearchesExist
<1>9. ASSUME NEW k \in 1 .. n, NEW R \in SUBSET Good[k - 1]
      PROVE  step[k][R] = more(k, R)
  <2>1. Good[k - 1] = Counted(page, tokens, k - 1)
    BY <1>1, <1>2
  <2> QED BY <1>3, <2>1
<1>10. Is(f)
  <2>1. ASSUME NEW k \in 0 .. n
        PROVE  f[k] = IF k = 0 THEN first ELSE more(k, f[k - 1])
    <3>1. f[k] = IF k = 0 THEN first ELSE step[k][f[k - 1]]
      BY <1>8 DEF Chain
    <3>2. k # 0 => k \in 1 .. n /\ k - 1 \in 0 .. n
      BY <1>1
    <3>3. k # 0 => f[k - 1] \in SUBSET Good[k - 1]
      BY <1>8, <3>2
    <3>4. k # 0 => step[k][f[k - 1]] = more(k, f[k - 1])
      BY <1>9, <3>2, <3>3
    <3> QED BY <3>1, <3>4
  <2>2. f = [k \in 0 .. n |-> f[k]]
    BY <1>8 DEF Chain
  <2> QED BY <2>1, <2>2 DEF Is
<1>11. Is(drawn)
  BY <1>10, Zenon DEF drawn
<1>12. Guided(drawn, first, step, Good, n)
  <2>1. drawn[0] = first
    BY <1>1, <1>11 DEF Is
  <2>2. ASSUME NEW k \in 1 .. n, drawn[k - 1] \subseteq Good[k - 1]
        PROVE  drawn[k] = step[k][drawn[k - 1]]
    <3>1. k \in 0 .. n /\ k # 0
      BY <1>1
    <3>2. drawn[k] = more(k, drawn[k - 1])
      BY <1>11, <3>1 DEF Is
    <3> QED BY <1>9, <2>2, <3>2
  <2> QED BY <2>1, <2>2 DEF Guided
<1>13. \A k \in 0 .. n : drawn[k] \subseteq Good[k]
  BY <1>1, <1>5, <1>6, <1>7, <1>12, SearchesStay
<1>14. drawn[n] \subseteq Counted(page, tokens, n)
  BY <1>1, <1>2, <1>13
<1>15. PICK row \in drawn[n] : \E t \in Tails(page, tokens - TokensIn(row)) : r = Finish(row, t)
  BY <1>17
<1>16. PICK t \in Tails(page, tokens - TokensIn(row)) : r = Finish(row, t)
  BY <1>15
<1>18. row \in Counted(page, tokens, n)
  BY <1>14
<1>19. /\ Full(3 * tokens + n + 1, {page}, n, r)
       /\ tokens = 1 => /\ Formed(row.symbols, page, row.slots)
                        /\ r.symbols = row.symbols \o <<End>>
  BY <1>1, <1>16, <1>18, <1>22, TailFills
<1>24. Within(initial, r.symbols, limit)
  BY <1>17
<1>25. n = glyphs
  BY DEF n
<1>26. Full(count, {page}, glyphs, r)
  BY <1>19, <1>22, <1>25
<1>27. ASSUME count = glyphs + 4 PROVE Closed(page, r)
  <2>1. tokens = 1
    BY <1>22, <1>27
  <2>2. r.slots = row.slots
    BY <1>16 DEF Finish, Row
  <2> QED BY <1>19, <2>1, <2>2, Zenon DEF Closed
<1> QED BY <1>24, <1>26, <1>27

\* A sequence is its front and its last element.
LEMMA FrontLast ==
  ASSUME NEW S, NEW s \in Seq(S), NEW e \in S, NEW w, w = Append(s, e)
  PROVE  w \in Seq(S) /\ Len(w) = Len(s) + 1 /\ Front(w) = s /\ Last(w) = e
<1>1. /\ w \in Seq(S) /\ Len(w) = Len(s) + 1 /\ w[Len(s) + 1] = e
      /\ \A i \in 1 .. Len(s) : w[i] = s[i]
  BY AppendProperties
<1>2. PICK f : f = SubSeq(w, 1, Len(s))
  OBVIOUS
<1>3. f \in Seq(S) /\ Len(f) = Len(s) /\ \A i \in 1 .. Len(s) : f[i] = w[i]
  <2>1. \A i \in 1 .. Len(s) : w[i] \in S
    BY <1>1
  <2>2. /\ f \in Seq(S) /\ Len(f) = (IF 1 <= Len(s) THEN Len(s) - 1 + 1 ELSE 0)
        /\ \A i \in 1 .. Len(s) - 1 + 1 : f[i] = w[1 + i - 1]
    BY <1>1, <1>2, <2>1, SubSeqProperties
  <2> QED BY <2>2
<1>4. f = s
  BY <1>1, <1>3, SeqEqual
<1>5. Len(w) - 1 = Len(s)
  BY <1>1
<1>6. Front(w) = s
  BY <1>2, <1>4, <1>5 DEF Front
<1>7. Last(w) = e
  BY <1>1 DEF Last
<1> QED BY <1>1, <1>6, <1>7

-----------------------------------------------------------------------------
(* Segments: one page after the other.                                      *)

\* An order of pages, none of them twice.
Order(order, group, m) ==
    /\ order \in Seq(group) /\ Len(order) = m /\ m \in Nat \ {0}
    /\ \A i, j \in 1 .. m : order[i] = order[j] => i = j

\* A row on the i-th page of the order has selected i pages.
Ordered(order, group, k) ==
    {r \in Grown(group, k) :
        \E i \in 1 .. Len(order) : r.page = order[i] /\ Len(r.symbols) = 3 * i + k}

\* One glyph more, on the page of the row or one that comes later in the order.
LEMMA SegmentsOrdered ==
  ASSUME NEW initial, NEW limit, NEW group \in SUBSET Pages, NEW order, NEW m, Order(order, group, m),
         NEW k \in Nat, NEW old \in SUBSET Ordered(order, group, k)
  PROVE  Segments(initial, limit, order, old) \subseteq Ordered(order, group, k + 1)
<1>1. ASSUME NEW r \in Segments(initial, limit, order, old) PROVE r \in Ordered(order, group, k + 1)
  <2>1. PICK row \in old :
          \E p \in PagesAhead(order, row), g \in Glyphs :
              r = Draw(row, [via |-> IF p = row.page THEN <<>> ELSE PageToken(p), page |-> p, glyph |-> g])
    BY DEF Segments
  <2>2. PICK p \in PagesAhead(order, row), g \in Glyphs :
          r = Draw(row, [via |-> IF p = row.page THEN <<>> ELSE PageToken(p), page |-> p, glyph |-> g])
    BY <2>1
  <2>3. Last(r.slots) \notin ToSet(Front(r.slots))
    BY DEF Segments
  <2>4. row \in Grown(group, k) /\ row.slots \in Seq(group \X Glyphs) /\ Formed(row.symbols, row.page, row.slots)
    BY DEF Ordered, Grown
  <2>5. PICK i \in 1 .. m : row.page = order[i] /\ Len(row.symbols) = 3 * i + k
    BY DEF Ordered, Order
  <2>6. PICK j \in 1 .. m : p = order[j] /\ (j = i \/ j = i + 1)
    <3>1. CASE p = row.page
      BY <2>5, <3>1
    <3>2. CASE p # row.page
      <4>1. PICK h \in 1 .. Len(order) - 1 : order[h] = row.page /\ p = order[h + 1]
        BY <3>2 DEF PagesAhead
      <4>2. h = i /\ h + 1 \in 1 .. m
        BY <2>5, <4>1 DEF Order
      <4> QED BY <4>1, <4>2
    <3> QED BY <3>1, <3>2
  <2>7. p \in group /\ p \in Pages
    BY <2>6 DEF Order
  <2>8. PICK via : via = IF p = row.page THEN <<>> ELSE PageToken(p)
    OBVIOUS
  <2>9. Turning(via) /\ RunPage(via, row.page) = p /\ Len(via) = 3 * (j - i)
    <3>1. CASE p = row.page
      <4>1. via = <<>> /\ Turning(<<>>)
        BY <2>8, <3>1, TurningEmpty
      <4>2. i = j
        BY <2>5, <2>6, <3>1 DEF Order
      <4>3. Len(<<>>) = 0 /\ 3 * (j - i) = 0
        BY <4>2
      <4> QED BY <3>1, <4>1, <4>3 DEF RunPage
    <3>2. CASE p # row.page
      <4>1. j = i + 1 /\ 3 * (j - i) = 3
        BY <2>5, <2>6, <3>2
      <4>2. PICK e \in Seq(Nat) : e = <<>> /\ Len(e) = 0
        <5>1. <<>> \in Seq(Nat) /\ Len(<<>>) = 0
          OBVIOUS
        <5> QED BY <5>1, Zenon
      <4>3. via = e \o PageToken(p)
        BY <2>7, <2>8, <3>2, <4>2, PageDigits, ConcatEmptySeq
      <4>4. Turning(via)
        BY <2>7, <4>2, <4>3, TurningEmpty, TurningMore
      <4>5. via # <<>> /\ Selects(via, p) /\ Len(via) = Len(e) + 3
        BY <2>7, <4>3, SelectsLast
      <4>6. RunPage(via, row.page) = p
        BY <2>7, <4>5, RunPageIs
      <4> QED BY <4>1, <4>2, <4>4, <4>5, <4>6
    <3> QED BY <3>1, <3>2
  <2>10. PICK step : step = [via |-> via, page |-> p, glyph |-> g]
    OBVIOUS
  <2>11. step.via = via /\ step.page = p /\ step.glyph = g
    BY <2>10
  <2>12. r = Draw(row, step)
    BY <2>2, <2>8, <2>10
  <2>13. PICK slot \in group \X Glyphs : slot = StepSlot(step)
    BY <2>7, <2>11 DEF StepSlot
  <2>14. r.slots = Append(row.slots, slot)
    BY <2>12, <2>13 DEF Draw
  <2>15. slot \notin ToSet(row.slots)
    <3>1. PICK w : w = Append(row.slots, slot)
      OBVIOUS
    <3>2. Front(w) = row.slots /\ Last(w) = slot
      <4>4. PICK T : T = group \X Glyphs
        OBVIOUS
      <4>1. PICK s \in Seq(T) : s = row.slots
        BY <2>4, <4>4
      <4>5. slot \in T
        BY <4>4
      <4>2. w = Append(s, slot)
        BY <3>1, <4>1
      <4>3. Front(w) = s /\ Last(w) = slot
        BY <4>2, <4>5, FrontLast
      <4> QED BY <4>1, <4>3
    <3>3. r.slots = w
      BY <2>14, <3>1
    <3> QED BY <2>3, <3>2, <3>3, Zenon
  <2>16. r \in Grown(group, k + 1)
    BY <2>4, <2>7, <2>9, <2>11, <2>12, <2>13, <2>15, DrawGrows
  <2>17. r.page = order[j]
    BY <2>6, <2>11, <2>12 DEF Draw
  <2>18. Len(r.symbols) = 3 * j + (k + 1)
    <3>1. PICK x \in Seq(Nat) : x = row.symbols
      BY <2>4 DEF Formed
    <3>2. PICK y \in Seq(Nat) : y = <<g>> /\ Len(y) = 1
      <4>1. g \in Nat
        BY AlphabetAssumption
      <4>2. <<g>> \in Seq(Nat) /\ Len(<<g>>) = 1
        BY <4>1
      <4> QED BY <4>2
    <3>3. PICK v \in Seq(Nat) : v = via
      BY <2>9 DEF Turning
    <3>4. v \o y \in Seq(Nat) /\ Len(v \o y) = Len(v) + Len(y)
      BY ConcatProperties
    <3>5. Len(x \o (v \o y)) = Len(x) + Len(v \o y)
      BY <3>4, ConcatProperties
    <3>6. r.symbols = x \o (v \o y)
      BY <2>11, <2>12, <3>1, <3>2, <3>3 DEF Draw, StepSymbols
    <3>7. Len(x) = 3 * i + k /\ Len(v) = 3 * (j - i)
      BY <2>5, <2>9, <3>1, <3>3
    <3>8. Len(v \o y) = 3 * (j - i) + 1
      BY <3>2, <3>4, <3>7
    <3>9. 3 * i + k + (3 * (j - i) + 1) = 3 * j + (k + 1)
      BY <2>5, <2>6
    <3> QED BY <3>5, <3>6, <3>7, <3>8, <3>9, Zenon
  <2>19. j \in 1 .. Len(order)
    BY <2>6 DEF Order
  <2> QED BY <2>16, <2>17, <2>18, <2>19 DEF Ordered
<1> QED BY <1>1

\* A segmented row selects every page of the order once and has its count.
LEMMA SegmentedRowIs ==
  ASSUME NEW initial, NEW limit, NEW group \in SUBSET Pages, NEW order, NEW m, Order(order, group, m),
         NEW glyphs \in Nat, NEW r \in SegmentedRow(initial, limit, order, glyphs)
  PROVE  Full(3 * m + glyphs + 1, group, glyphs, r) /\ Within(initial, r.symbols, limit)
<1> DEFINE starts == {Start(run, Head(order)) :
                         run \in {t \in {PageToken(Head(order))} : LeavesRoom(initial, t, limit)}}
<1>20. Head(order) = order[1] /\ order[1] \in group /\ Last(order) = order[m] /\ order # <<>>
  BY DEF Order, Last
<1>21. starts \in SUBSET Ordered(order, group, 0)
  <2>1. PICK page \in Pages : page = Head(order) /\ page \in group
    BY <1>20
  <2>2. Start(PageToken(page), page) \in Grown(group, 0)
    <3>1. <<>> \o PageToken(page) = PageToken(page)
      BY PageDigits, ConcatEmptySeq
    <3>2. Formed(PageToken(page), page, <<>>)
      BY <3>1, FormedEmpty, FormedToken
    <3> QED BY <2>1, <3>2, StartGrows
  <2>3. PICK start : start = Start(PageToken(page), page)
    OBVIOUS
  <2>4. start.page = page /\ Len(start.symbols) = 3
    BY <2>3, PageDigits DEF Start
  <2>5. 1 \in 1 .. Len(order) /\ 3 * 1 + 0 = 3
    BY DEF Order
  <2>6. start \in Ordered(order, group, 0)
    BY <1>20, <2>1, <2>2, <2>3, <2>4, <2>5 DEF Ordered
  <2> QED BY <2>1, <2>3, <2>6
<1> HIDE DEF starts
<1> DEFINE n == glyphs
           first == starts
           more(k, R) == Segments(initial, limit, order, R)
           Is(f) == f = [k \in 0 .. n |-> IF k = 0 THEN first ELSE more(k, f[k - 1])]
           drawn == CHOOSE f : Is(f)
<1>1. n \in Nat
  OBVIOUS
<1>2. PICK Good : Good = [k \in 0 .. n |-> Ordered(order, group, k)]
  OBVIOUS
<1>3. PICK step : step = [k \in 1 .. n |-> [R \in SUBSET Ordered(order, group, k - 1) |-> more(k, R)]]
  OBVIOUS
<1>4. ASSUME NEW k \in 1 .. n, NEW R \in SUBSET Ordered(order, group, k - 1)
      PROVE  more(k, R) \in SUBSET Ordered(order, group, k)
  <2>1. PICK j \in Nat : j = k - 1 /\ k = j + 1
    BY <1>1
  <2> QED BY <2>1, SegmentsOrdered
<1>5. first \in SUBSET Ordered(order, group, 0)
  BY <1>21
<1> USE DEF starts
<1>17. SegmentedRow(initial, limit, order, glyphs)
         = {x \in {Finish(row, <<End>>) : row \in {y \in drawn[n] : y.page = Last(order)}} :
               Within(initial, x.symbols, limit)}
  BY DEF SegmentedRow
<1> HIDE DEF Is, drawn, n, first, more, starts
<1>6. Steps(step, Good, n)
  <2>1. ASSUME NEW k \in 1 .. n PROVE step[k] \in [SUBSET Good[k - 1] -> SUBSET Good[k]]
    <3>1. Good[k - 1] = Ordered(order, group, k - 1) /\ Good[k] = Ordered(order, group, k)
      BY <1>1, <1>2
    <3>2. step[k] = [R \in SUBSET Ordered(order, group, k - 1) |-> more(k, R)]
      BY <1>3
    <3>3. step[k] \in [SUBSET Ordered(order, group, k - 1) -> SUBSET Ordered(order, group, k)]
      BY <1>4, <3>2
    <3> QED BY <3>1, <3>3, Zenon
  <2> QED BY <2>1 DEF Steps
<1>7. Good[0] = Ordered(order, group, 0)
  BY <1>1, <1>2
<1>8. PICK f : Chain(f, first, step, n) /\ \A k \in 0 .. n : f[k] \subseteq Good[k]
  BY <1>1, <1>5, <1>6, <1>7, SearchesExist
<1>9. ASSUME NEW k \in 1 .. n, NEW R \in SUBSET Good[k - 1]
      PROVE  step[k][R] = more(k, R)
  <2>1. Good[k - 1] = Ordered(order, group, k - 1)
    BY <1>1, <1>2
  <2> QED BY <1>3, <2>1
<1>10. Is(f)
  <2>1. ASSUME NEW k \in 0 .. n
        PROVE  f[k] = IF k = 0 THEN first ELSE more(k, f[k - 1])
    <3>1. f[k] = IF k = 0 THEN first ELSE step[k][f[k - 1]]
      BY <1>8 DEF Chain
    <3>2. k # 0 => k \in 1 .. n /\ k - 1 \in 0 .. n
      BY <1>1
    <3>3. k # 0 => f[k - 1] \in SUBSET Good[k - 1]
      BY <1>8, <3>2
    <3>4. k # 0 => step[k][f[k - 1]] = more(k, f[k - 1])
      BY <1>9, <3>2, <3>3
    <3> QED BY <3>1, <3>4
  <2>2. f = [k \in 0 .. n |-> f[k]]
    BY <1>8 DEF Chain
  <2> QED BY <2>1, <2>2 DEF Is
<1>11. Is(drawn)
  BY <1>10, Zenon DEF drawn
<1>12. Guided(drawn, first, step, Good, n)
  <2>1. drawn[0] = first
    BY <1>1, <1>11 DEF Is
  <2>2. ASSUME NEW k \in 1 .. n, drawn[k - 1] \subseteq Good[k - 1]
        PROVE  drawn[k] = step[k][drawn[k - 1]]
    <3>1. k \in 0 .. n /\ k # 0
      BY <1>1
    <3>2. drawn[k] = more(k, drawn[k - 1])
      BY <1>11, <3>1 DEF Is
    <3> QED BY <1>9, <2>2, <3>2
  <2> QED BY <2>1, <2>2 DEF Guided
<1>13. \A k \in 0 .. n : drawn[k] \subseteq Good[k]
  BY <1>1, <1>5, <1>6, <1>7, <1>12, SearchesStay
<1>14. drawn[n] \subseteq Ordered(order, group, n)
  BY <1>1, <1>2, <1>13
<1>15. PICK row \in drawn[n] : row.page = Last(order) /\ r = Finish(row, <<End>>)
  BY <1>17
<1>16. row \in Ordered(order, group, n) /\ row \in Grown(group, n) /\ Formed(row.symbols, row.page, row.slots)
  BY <1>14 DEF Ordered, Grown
<1>18. Len(row.symbols) = 3 * m + n
  <2>1. PICK i \in 1 .. m : row.page = order[i] /\ Len(row.symbols) = 3 * i + n
    BY <1>16 DEF Ordered, Order
  <2>2. i = m
    BY <1>15, <1>20, <2>1 DEF Order
  <2> QED BY <2>1, <2>2
<1>19. Within(initial, r.symbols, limit)
  BY <1>17
<1>22. PICK e \in Seq(Nat) : e = <<End>> /\ Len(e) = 1
  <2>1. <<End>> \in Seq(Nat) /\ Len(<<End>>) = 1
    BY CodecAssumption
  <2> QED BY <2>1
<1>23. Laid(group, n, r)
  <2>1. e = <<>> \o <<End>>
    BY <1>22, ConcatEmptySeq
  <2> QED BY <1>15, <1>16, <1>22, <2>1, TurningEmpty, FinishLays
<1>24. Len(r.symbols) = 3 * m + n + 1
  <2>1. PICK x \in Seq(Nat) : x = row.symbols
    BY <1>16 DEF Formed
  <2>2. r.symbols = x \o e
    BY <1>15, <1>22, <2>1 DEF Finish, Row
  <2>3. Len(x \o e) = Len(x) + Len(e)
    BY ConcatProperties
  <2> QED BY <1>18, <1>22, <2>1, <2>2, <2>3, Zenon
<1>25. n = glyphs
  BY DEF n
<1> QED BY <1>19, <1>23, <1>24, <1>25 DEF Full

\* So do the rows of all orders of a group.
LEMMA SegmentedRowsAre ==
  ASSUME NEW initial, NEW limit, NEW group \in SUBSET Pages, NEW m \in Nat \ {0}, Cardinality(group) = m,
         NEW glyphs \in Nat, NEW r \in SegmentedRows(initial, limit, group, glyphs)
  PROVE  Full(3 * m + glyphs + 1, group, glyphs, r) /\ Within(initial, r.symbols, limit)
<1>1. PICK order \in SetToSeqs(group) : r \in SegmentedRow(initial, limit, order, glyphs)
  BY DEF SegmentedRows
<1>2. order \in [1 .. m -> group] /\ \A i, j \in 1 .. m : i # j => order[i] # order[j]
  BY DEF SetToSeqs
<1>3. order \in Seq(group) /\ Len(order) = m
  BY <1>2
<1>4. Order(order, group, m)
  BY <1>2, <1>3 DEF Order
<1> QED BY <1>1, <1>4, SegmentedRowIs

-----------------------------------------------------------------------------
(* Atoms: a row cut into page selections and single symbols.                *)

\* Part of a sequence.
LEMMA PartOf ==
  ASSUME NEW S, NEW s \in Seq(S), NEW i \in 1 .. Len(s), NEW j \in i .. Len(s),
         NEW part, part = SubSeq(s, i, j)
  PROVE  part \in Seq(S) /\ Len(part) = j - i + 1 /\ \A k \in 1 .. j - i + 1 : part[k] = s[i + k - 1]
<1>1. \A k \in i .. j : s[k] \in S
  BY ElementOfSeq
<1> QED BY <1>1, SubSeqProperties

\* What is before a part, and the part.
LEMMA PartsJoin ==
  ASSUME NEW S, NEW s \in Seq(S), NEW i \in 1 .. Len(s), NEW j \in i .. Len(s)
  PROVE  SubSeq(s, 1, i - 1) \o SubSeq(s, i, j) = SubSeq(s, 1, j)
<1>1. PICK b : b = SubSeq(s, i, j)
  OBVIOUS
<1>2. b \in Seq(S) /\ Len(b) = j - i + 1 /\ \A k \in 1 .. j - i + 1 : b[k] = s[i + k - 1]
  BY <1>1, PartOf
<1>3. PICK c : c = SubSeq(s, 1, j)
  OBVIOUS
<1>4. c \in Seq(S) /\ Len(c) = j /\ \A k \in 1 .. j : c[k] = s[k]
  <2>1. 1 \in 1 .. Len(s) /\ j \in 1 .. Len(s)
    OBVIOUS
  <2>2. c \in Seq(S) /\ Len(c) = j - 1 + 1 /\ \A k \in 1 .. j - 1 + 1 : c[k] = s[1 + k - 1]
    BY <1>3, <2>1, PartOf
  <2> QED BY <2>2
<1>5. PICK a : a = SubSeq(s, 1, i - 1)
  OBVIOUS
<1>6. a \in Seq(S) /\ Len(a) = i - 1 /\ \A k \in 1 .. i - 1 : a[k] = s[k]
  <2>1. CASE i = 1
    <3>1. a = <<>>
      BY <1>5, <2>1
    <3> QED BY <2>1, <3>1
  <2>2. CASE i # 1
    <3>1. 1 \in 1 .. Len(s) /\ i - 1 \in 1 .. Len(s)
      BY <2>2
    <3>2. a \in Seq(S) /\ Len(a) = i - 1 - 1 + 1 /\ \A k \in 1 .. i - 1 - 1 + 1 : a[k] = s[1 + k - 1]
      BY <1>5, <3>1, PartOf
    <3> QED BY <3>2
  <2> QED BY <2>1, <2>2
<1>7. Len(c) = Len(a) + Len(b)
  BY <1>2, <1>4, <1>6
<1>8. \A k \in 1 .. Len(a) : c[k] = a[k]
  BY <1>4, <1>6
<1>9. ASSUME NEW k \in 1 .. Len(b) PROVE c[Len(a) + k] = b[k]
  <2>1. PICK m \in 1 .. j : m = Len(a) + k /\ m = i + k - 1
    BY <1>2, <1>6
  <2> QED BY <1>2, <1>4, <2>1
<1>10. c = a \o b
  BY <1>2, <1>4, <1>6, <1>7, <1>8, <1>9, ConcatIs
<1> QED BY <1>1, <1>3, <1>5, <1>10

\* An atom: a page selection, or a symbol that begins none.
Atom(atom) == (\E p \in Pages : atom = PageToken(p)) \/ \E symbol \in Nat : symbol # Select /\ atom = <<symbol>>

\* A row cut up to one place.
Splits(symbols) ==
    {x \in [atoms : Seq(Seq(Nat)), next : 1 .. Len(symbols) + 1] :
        /\ FlattenSeq(x.atoms) = SubSeq(symbols, 1, x.next - 1)
        /\ \A i \in 1 .. Len(x.atoms) : Atom(x.atoms[i])
        /\ Len(x.atoms) < x.next
        /\ x.next # 1 => x.atoms # <<>> /\ x.atoms[1][1] = symbols[1]}

\* The next atom ends where the one after it begins.
LEMMA NextAtomSplits ==
  ASSUME NEW symbols \in Seq(Nat), Tokened(symbols), NEW split \in Splits(symbols),
         NEW more, more = NextAtom(symbols, split)
  PROVE  /\ more \in Splits(symbols)
         /\ more.next = Len(symbols) + 1 \/ more.next > split.next
<1>1. PICK at \in 1 .. Len(symbols) + 1 : at = split.next
  BY DEF Splits
<1>2. PICK atoms \in Seq(Seq(Nat)) : atoms = split.atoms
  BY DEF Splits
<1>3. /\ FlattenSeq(atoms) = SubSeq(symbols, 1, at - 1)
      /\ \A i \in 1 .. Len(atoms) : Atom(atoms[i])
      /\ Len(atoms) < at
      /\ at # 1 => atoms # <<>> /\ atoms[1][1] = symbols[1]
  BY <1>1, <1>2 DEF Splits
<1>4. CASE at > Len(symbols)
  BY <1>1, <1>4 DEF NextAtom
<1>5. CASE at <= Len(symbols)
  <2>1. PICK size : size = IF at + 2 <= Len(symbols) /\ \E p \in Pages : SubSeq(symbols, at, at + 2) = PageToken(p)
                           THEN 3 ELSE 1
    OBVIOUS
  <2>2. PICK atom : atom = SubSeq(symbols, at, at + size - 1)
    OBVIOUS
  <2>3. more = [atoms |-> Append(atoms, atom), next |-> at + size]
    BY <1>1, <1>2, <1>5, <2>1, <2>2 DEF NextAtom
  <2>4. size \in {1, 3} /\ at \in 1 .. Len(symbols) /\ at + size - 1 \in at .. Len(symbols)
    BY <1>5, <2>1
  <2>19. PICK last \in at .. Len(symbols) : last = at + size - 1
    BY <2>4
  <2>5. atom \in Seq(Nat) /\ Len(atom) = last - at + 1 /\ \A k \in 1 .. last - at + 1 : atom[k] = symbols[at + k - 1]
    <3>1. atom = SubSeq(symbols, at, last)
      BY <2>2, <2>19
    <3> QED BY <2>4, <2>19, <3>1, PartOf
  <2>6. Len(atom) = size /\ \A k \in 1 .. size : atom[k] = symbols[at + k - 1]
    <3>1. last - at + 1 = size
      BY <2>4, <2>19
    <3> QED BY <2>5, <3>1
  <2>7. Atom(atom)
    <3>1. CASE size = 3
      <4>1. \E p \in Pages : SubSeq(symbols, at, at + 2) = PageToken(p)
        BY <2>1, <3>1
      <4>2. at + size - 1 = at + 2
        BY <3>1
      <4> QED BY <2>2, <4>1, <4>2 DEF Atom
    <3>2. CASE size = 1
      <4>1. atom[1] = symbols[at] /\ symbols[at] \in Nat
        BY <2>4, <2>6, <3>2
      <4>2. atom = <<symbols[at]>>
        BY <2>5, <2>6, <3>2, <4>1
      <4>3. symbols[at] # Select
        <5>1. SUFFICES ASSUME symbols[at] = Select PROVE FALSE
          OBVIOUS
        <5>2. PICK p \in Pages : PageAt(symbols, at, p)
          BY <2>4, <5>1 DEF Tokened
        <5>3. at + 2 <= Len(symbols) /\ at + 2 \in at .. Len(symbols)
          BY <2>4, <5>2 DEF PageAt
        <5>4. PICK part : part = SubSeq(symbols, at, at + 2)
          OBVIOUS
        <5>5. /\ part \in Seq(Nat) /\ Len(part) = at + 2 - at + 1
              /\ \A k \in 1 .. at + 2 - at + 1 : part[k] = symbols[at + k - 1]
          BY <2>4, <5>3, <5>4, PartOf
        <5>6. Len(part) = 3 /\ part[1] = symbols[at] /\ part[2] = symbols[at + 1] /\ part[3] = symbols[at + 2]
          <6>1. at + 2 - at + 1 = 3 /\ at + 1 - 1 = at /\ at + 2 - 1 = at + 1 /\ at + 3 - 1 = at + 2
            BY <2>4
          <6>2. Len(part) = 3 /\ \A k \in 1 .. 3 : part[k] = symbols[at + k - 1]
            BY <5>5, <6>1
          <6>3. part[1] = symbols[at + 1 - 1] /\ part[2] = symbols[at + 2 - 1] /\ part[3] = symbols[at + 3 - 1]
            BY <6>2
          <6> QED BY <6>1, <6>2, <6>3
        <5>7. PICK token \in Seq(Nat) : token = PageToken(p) /\ Len(token) = 3
          BY PageDigits
        <5>8. token[1] = Select /\ token[2] = (p \div 16) + 2 /\ token[3] = (p % 16) + 2
          BY <5>7, PageDigits
        <5>9. part[1] = token[1] /\ part[2] = token[2] /\ part[3] = token[3]
          BY <5>2, <5>6, <5>8 DEF PageAt
        <5>10. part = token
          <6>1. \A i \in 1 .. 3 : part[i] = token[i]
            BY <5>9
          <6> QED BY <5>5, <5>6, <5>7, <6>1, SeqEqual
        <5>11. size = 3
          BY <2>1, <5>3, <5>4, <5>7, <5>10
        <5> QED BY <3>2, <5>11
      <4> QED BY <4>1, <4>2, <4>3 DEF Atom
    <3> QED BY <2>4, <3>1, <3>2
  <2>8. PICK longer : longer = Append(atoms, atom)
    OBVIOUS
  <2>9. /\ longer \in Seq(Seq(Nat)) /\ Len(longer) = Len(atoms) + 1 /\ longer[Len(atoms) + 1] = atom
        /\ \A i \in 1 .. Len(atoms) : longer[i] = atoms[i]
    <3>1. PICK T : T = Seq(Nat)
      OBVIOUS
    <3>2. atoms \in Seq(T) /\ atom \in T
      BY <2>5, <3>1
    <3>3. /\ longer \in Seq(T) /\ Len(longer) = Len(atoms) + 1 /\ longer[Len(atoms) + 1] = atom
          /\ \A i \in 1 .. Len(atoms) : longer[i] = atoms[i]
      BY <2>8, <3>2, AppendProperties
    <3> QED BY <3>1, <3>3
  <2>10. FlattenSeq(longer) = SubSeq(symbols, 1, at + size - 1)
    <3>1. FlattenSeq(longer) = FlattenSeq(atoms) \o atom
      BY <2>5, <2>8, FlattenMoreOf
    <3>2. SubSeq(symbols, 1, at - 1) \o SubSeq(symbols, at, at + size - 1) = SubSeq(symbols, 1, at + size - 1)
      BY <2>4, PartsJoin
    <3> QED BY <1>3, <2>2, <3>1, <3>2
  <2>11. \A i \in 1 .. Len(longer) : Atom(longer[i])
    <3>1. ASSUME NEW i \in 1 .. Len(longer) PROVE Atom(longer[i])
      <4>1. i = Len(atoms) + 1 \/ i \in 1 .. Len(atoms)
        BY <2>9
      <4> QED BY <1>3, <2>7, <2>9, <4>1
    <3> QED BY <3>1
  <2>12. longer # <<>> /\ longer[1][1] = symbols[1]
    <3>1. CASE at = 1
      <4>1. Len(atoms) = 0
        BY <1>2, <1>3, <3>1
      <4>2. longer[1] = atom
        BY <2>9, <4>1
      <4>3. atom[1] = symbols[1]
        BY <2>4, <2>6, <3>1
      <4>4. Len(longer) = 1
        BY <2>9, <4>1
      <4>5. longer # <<>>
        BY <2>9, <4>4, EmptySeq
      <4> QED BY <4>2, <4>3, <4>5, Zenon
    <3>2. CASE at # 1
      <4>1. 1 \in 1 .. Len(atoms)
        BY <1>3, <3>2, EmptySeq
      <4> QED BY <1>3, <2>9, <3>2, <4>1
    <3> QED BY <3>1, <3>2
  <2>13. PICK next \in 1 .. Len(symbols) + 1 : next = at + size
    BY <2>4
  <2>14. Len(longer) < next /\ next - 1 = at + size - 1 /\ next > at
    BY <1>3, <2>4, <2>9, <2>13
  <2>15. more = [atoms |-> longer, next |-> next]
    BY <2>3, <2>8, <2>13
  <2>16. more.atoms = longer /\ more.next = next
    BY <2>15
  <2>17. more \in [atoms : Seq(Seq(Nat)), next : 1 .. Len(symbols) + 1]
    BY <2>9, <2>15
  <2>18. more \in Splits(symbols)
    BY <2>10, <2>11, <2>12, <2>14, <2>16, <2>17 DEF Splits
  <2> QED BY <1>1, <2>14, <2>16, <2>18
<1> QED BY <1>4, <1>5

\* The atoms of a row, one behind the other, are the row.
LEMMA AtomsAre ==
  ASSUME NEW symbols \in Seq(Nat), Tokened(symbols), symbols # <<>>, NEW atoms, atoms = Atoms(symbols)
  PROVE  /\ atoms \in Seq(Seq(Nat)) /\ FlattenSeq(atoms) = symbols
         /\ \A i \in 1 .. Len(atoms) : Atom(atoms[i])
         /\ Len(atoms) <= Len(symbols) /\ atoms # <<>> /\ atoms[1][1] = symbols[1]
<1> DEFINE n == Len(symbols)
           first == [atoms |-> <<>>, next |-> 1]
           T == Splits(symbols)
           Is(g) == g = [k \in 0 .. n |-> IF k = 0 THEN first ELSE NextAtom(symbols, g[k - 1])]
           split == CHOOSE g : Is(g)
<1>1. n \in Nat
  OBVIOUS
<1>2. first \in T
  <2>1. SubSeq(symbols, 1, 1 - 1) = <<>>
    OBVIOUS
  <2>2. <<>> \in Seq(Seq(Nat)) /\ Len(<<>>) = 0
    OBVIOUS
  <2>3. 1 \in 1 .. Len(symbols) + 1
    OBVIOUS
  <2>4. first \in [atoms : Seq(Seq(Nat)), next : 1 .. Len(symbols) + 1] /\ first.atoms = <<>> /\ first.next = 1
    BY <2>2, <2>3
  <2>5. PICK x : x = first
    OBVIOUS
  <2>6. PICK e : e = <<>>
    OBVIOUS
  <2>7. x.atoms = e /\ x.next = 1 /\ Len(e) = 0 /\ FlattenSeq(e) = e /\ SubSeq(symbols, 1, 1 - 1) = e
    BY <2>1, <2>2, <2>4, <2>5, <2>6, FlattenEmpty
  <2>8. x \in [atoms : Seq(Seq(Nat)), next : 1 .. Len(symbols) + 1]
    BY <2>4, <2>5
  <2> HIDE DEF first
  <2>9. x \in Splits(symbols)
    BY <2>7, <2>8 DEF Splits
  <2> QED BY <2>5, <2>9
<1>17. atoms = split[n].atoms
  BY DEF Atoms
<1> HIDE DEF first, T, split
<1>3. PICK step : step = [k \in 1 .. n |-> [x \in T |-> NextAtom(symbols, x)]]
  OBVIOUS
<1>4. step \in [1 .. n -> [T -> T]]
  <2>1. \A x \in T : NextAtom(symbols, x) \in T
    BY NextAtomSplits DEF T
  <2> QED BY <1>3, <2>1
<1>5. PICK f \in [0 .. n -> T] : Iterates(f, first, step, n)
  BY <1>1, <1>2, <1>4, Iteration
<1>6. ASSUME NEW k \in 1 .. n PROVE f[k] = NextAtom(symbols, f[k - 1])
  <2>1. f[k - 1] \in T
    BY <1>1
  <2>2. step[k] = [x \in T |-> NextAtom(symbols, x)] /\ f[k] = step[k][f[k - 1]]
    BY <1>3, <1>5 DEF Iterates
  <2> QED BY <2>1, <2>2
<1>7. f[0] = first
  BY <1>5 DEF Iterates
<1>8. Is(f)
  BY <1>5, <1>6, <1>7
<1>9. Is(split)
  <2> HIDE DEF Is
  <2> QED BY <1>8, Zenon DEF split
<1>10. ASSUME NEW k \in 1 .. n PROVE split[k] = NextAtom(symbols, split[k - 1])
  <2>1. k \in 0 .. n /\ k # 0
    OBVIOUS
  <2>2. split[k] = IF k = 0 THEN first ELSE NextAtom(symbols, split[k - 1])
    BY <1>9, <2>1
  <2> QED BY <2>1, <2>2
<1>11. InStep(split, f, n)
  <2>1. split[0] = first
    BY <1>1, <1>9
  <2>2. ASSUME NEW k \in 1 .. n, split[k - 1] = f[k - 1] PROVE split[k] = f[k]
    BY <1>6, <1>10, <2>2
  <2> QED BY <1>7, <2>1, <2>2 DEF InStep
<1> HIDE DEF Is, n
<1>12. \A k \in 0 .. n : split[k] = f[k]
  BY <1>1, <1>11, Unrolled
<1> DEFINE Known == {k \in 0 .. n : f[k].next = Len(symbols) + 1 \/ f[k].next > k}
<1>13. 0 \in Known /\ \A k \in 1 .. n : k - 1 \in Known => k \in Known
  <2>1. 0 \in Known
    BY <1>1, <1>7 DEF first
  <2>2. ASSUME NEW k \in 1 .. n, k - 1 \in Known PROVE k \in Known
    <3>1. PICK x \in T : x = f[k - 1]
      BY <1>1, <1>5
    <3>2. PICK y \in T : y = f[k]
      BY <1>1, <1>5
    <3>3. y = NextAtom(symbols, x)
      BY <1>6, <3>1, <3>2
    <3>4. y.next = Len(symbols) + 1 \/ y.next > x.next
      BY <3>1, <3>3, NextAtomSplits DEF T
    <3>5. x.next = Len(symbols) + 1 \/ x.next > k - 1
      BY <2>2, <3>1
    <3>6. x.next \in Nat /\ y.next \in Nat /\ y.next <= Len(symbols) + 1
      <4>1. x \in Splits(symbols) /\ y \in Splits(symbols)
        BY <3>1, <3>2 DEF T
      <4>2. PICK a \in 1 .. Len(symbols) + 1 : a = x.next
        BY <4>1 DEF Splits
      <4>3. PICK b \in 1 .. Len(symbols) + 1 : b = y.next
        BY <4>1 DEF Splits
      <4> QED BY <4>2, <4>3
    <3>7. y.next = Len(symbols) + 1 \/ y.next > k
      BY <1>1, <3>4, <3>5, <3>6
    <3>8. k \in 0 .. n
      BY <1>1
    <3> QED BY <3>2, <3>7, <3>8
  <2> QED BY <2>1, <2>2
<1> HIDE DEF Known
<1>14. 0 .. n \subseteq Known
  BY <1>1, <1>13, InductionUpTo
<1>15. f[n].next = Len(symbols) + 1
  <2>1. n \in Known
    BY <1>1, <1>14
  <2>2. f[n].next = Len(symbols) + 1 \/ f[n].next > n
    BY <2>1 DEF Known
  <2>3. f[n] \in T
    BY <1>1, <1>5
  <2>4. f[n].next \in Nat /\ f[n].next <= Len(symbols) + 1
    <3>1. PICK x \in Splits(symbols) : x = f[n]
      BY <2>3 DEF T
    <3>2. PICK a \in 1 .. Len(symbols) + 1 : a = x.next
      BY <3>1 DEF Splits
    <3> QED BY <3>1, <3>2
  <2> QED BY <2>2, <2>4 DEF n
<1>16. PICK x \in Splits(symbols) : x = f[n]
  BY <1>1, <1>5 DEF T
<1>18. atoms = x.atoms /\ x.next = Len(symbols) + 1
  BY <1>1, <1>12, <1>15, <1>16, <1>17
<1>19. SubSeq(symbols, 1, Len(symbols) + 1 - 1) = symbols
  <2>1. PICK part : part = SubSeq(symbols, 1, Len(symbols))
    OBVIOUS
  <2>2. 1 \in 1 .. Len(symbols) /\ Len(symbols) \in 1 .. Len(symbols)
    BY EmptySeq
  <2>3. /\ part \in Seq(Nat) /\ Len(part) = Len(symbols) - 1 + 1
        /\ \A k \in 1 .. Len(symbols) - 1 + 1 : part[k] = symbols[1 + k - 1]
    BY <2>1, <2>2, PartOf
  <2>4. Len(part) = Len(symbols) /\ \A k \in 1 .. Len(symbols) : part[k] = symbols[k]
    BY <2>2, <2>3
  <2>5. part = symbols
    BY <2>3, <2>4, SeqEqual
  <2>6. Len(symbols) + 1 - 1 = Len(symbols)
    OBVIOUS
  <2> QED BY <2>1, <2>5, <2>6
<1>20. Len(symbols) + 1 # 1
  BY EmptySeq
<1>21. /\ FlattenSeq(x.atoms) = SubSeq(symbols, 1, x.next - 1) /\ x.atoms \in Seq(Seq(Nat))
       /\ \A i \in 1 .. Len(x.atoms) : Atom(x.atoms[i])
       /\ Len(x.atoms) < x.next
       /\ x.next # 1 => x.atoms # <<>> /\ x.atoms[1][1] = symbols[1]
  BY <1>16 DEF Splits
<1>22. Len(atoms) < Len(symbols) + 1
  BY <1>18, <1>21
<1>23. Len(atoms) <= Len(symbols)
  BY <1>18, <1>21, <1>22
<1>24. FlattenSeq(atoms) = symbols
  BY <1>18, <1>19, <1>21
<1> QED BY <1>18, <1>20, <1>21, <1>23, <1>24

\* Before this atom any page may be selected.
Free(atoms, t) ==
    /\ t < Len(atoms)
    /\ \/ \E p \in Pages : atoms[t + 1] = PageToken(p)
       \/ t + 1 = Len(atoms) /\ atoms[t + 1] = <<End>>

\* Before its first atom any page may be selected.
LEMMA AtomsStart ==
  ASSUME NEW symbols, NEW slots, Whole(symbols, slots), NEW atoms, atoms = Atoms(symbols)
  PROVE  Free(atoms, 0)
<1>1. /\ symbols \in Seq(Nat) /\ Tokened(symbols) /\ symbols # <<>>
      /\ symbols[1] = Select \/ symbols = <<End>>
  BY DEF Whole
<1>2. /\ atoms \in Seq(Seq(Nat)) /\ FlattenSeq(atoms) = symbols
      /\ \A i \in 1 .. Len(atoms) : Atom(atoms[i])
      /\ Len(atoms) <= Len(symbols) /\ atoms # <<>> /\ atoms[1][1] = symbols[1]
  BY <1>1, AtomsAre
<1>3. Len(atoms) \in Nat \ {0} /\ 1 \in 1 .. Len(atoms)
  BY <1>2, EmptySeq
<1>4. Atom(atoms[1])
  BY <1>2, <1>3
<1>5. CASE symbols[1] = Select
  <2>1. PICK atom : atom = atoms[1]
    OBVIOUS
  <2>2. ASSUME NEW symbol \in Nat, symbol # Select, atom = <<symbol>> PROVE FALSE
    BY <1>2, <1>5, <2>1, <2>2
  <2>3. \E p \in Pages : atom = PageToken(p)
    BY <1>4, <2>1, <2>2 DEF Atom
  <2>4. \E p \in Pages : atoms[0 + 1] = PageToken(p)
    <3>1. 0 + 1 = 1
      OBVIOUS
    <3> QED BY <2>1, <2>3, <3>1, Zenon
  <2> QED BY <1>3, <2>4 DEF Free
<1>6. CASE symbols = <<End>>
  <2>1. Len(symbols) = 1
    BY <1>6
  <2>2. Len(atoms) = 1
    BY <1>2, <1>3, <1>6, <2>1
  <2>3. PICK atom \in Seq(Nat) : atom = atoms[1]
    BY <1>2, <1>3
  <2>4. atoms = <<atom>>
    BY <1>2, <2>2, <2>3
  <2>5. FlattenSeq(<<atom>>) = atom
    BY FlattenOne
  <2>6. atom = <<End>>
    BY <1>2, <1>6, <2>4, <2>5
  <2>7. 0 + 1 = Len(atoms) /\ atoms[0 + 1] = <<End>> /\ 0 < Len(atoms)
    <3>1. 0 + 1 = 1 /\ 0 < 1
      OBVIOUS
    <3> QED BY <2>2, <2>3, <2>6, <3>1, Zenon
  <2> QED BY <2>7, Zenon DEF Free
<1> QED BY <1>1, <1>5, <1>6

-----------------------------------------------------------------------------
(* Padding                                                                  *)

\* Pages have tokens of their own.
LEMMA TokensDiffer == ASSUME NEW p \in Pages, NEW q \in Pages, PageToken(p) = PageToken(q) PROVE p = q
<1>1. PICK e \in Seq(Nat) : e = <<>>
  <2>1. <<>> \in Seq(Nat)
    OBVIOUS
  <2> QED BY <2>1, Zenon
<1>2. PICK w : w = e \o PageToken(p)
  OBVIOUS
<1>3. w = e \o PageToken(q)
  BY <1>2
<1>4. Selects(w, p) /\ Selects(w, q)
  BY <1>2, <1>3, SelectsLast
<1> QED BY <1>4, SelectsOne

\* A token sets its page.
LEMMA AfterToken == ASSUME NEW p \in Pages, NEW q PROVE PageAfter(PageToken(p), q) = p
<1>1. PICK t : t = PageToken(p)
  OBVIOUS
<1>2. PageTokenOf(t) = {p}
  BY <1>1, TokensDiffer DEF PageTokenOf
<1>3. PageAfter(t, q) = p
  BY <1>2 DEF PageAfter
<1> QED BY <1>1, <1>3

\* A single symbol sets none.
LEMMA AfterOne == ASSUME NEW symbol, NEW q PROVE PageAfter(<<symbol>>, q) = q /\ PageTokenOf(<<symbol>>) = {}
<1>1. ASSUME NEW p \in Pages, <<symbol>> = PageToken(p) PROVE FALSE
  <2>1. Len(<<symbol>>) = 1
    OBVIOUS
  <2>2. Len(PageToken(p)) = 3
    BY PageDigits
  <2> QED BY <1>1, <2>1, <2>2
<1>2. PageTokenOf(<<symbol>>) = {}
  BY <1>1, Zenon DEF PageTokenOf
<1> QED BY <1>2, Zenon DEF PageAfter

\* Two rows that show the same go on showing the same: an atom is drawn from
\* the page they stand on, which is the same one unless the atom does not care.
LEMMA AtomStands ==
  ASSUME NEW s \in Seq(Nat), NEW t \in Seq(Nat), NEW p, NEW q, NEW d, Stands(s, p, d), Stands(t, q, d),
         NEW atom, Atom(atom), p = q \/ atom = <<End>> \/ \E r \in Pages : atom = PageToken(r)
  PROVE  /\ atom \in Seq(Nat)
         /\ \E e : Stands(s \o atom, PageAfter(atom, p), e) /\ Stands(t \o atom, PageAfter(atom, q), e)
         /\ p = q => PageAfter(atom, p) = PageAfter(atom, q)
         /\ (\E r \in Pages : atom = PageToken(r)) => /\ PageAfter(atom, p) = PageAfter(atom, q)
                                                      /\ PageAfter(atom, p) \in Pages
         /\ PageAfter(atom, p) \in Pages \/ PageAfter(atom, p) = p
<1>1. ASSUME NEW r \in Pages, atom = PageToken(r)
      PROVE  /\ atom \in Seq(Nat)
             /\ \E e : Stands(s \o atom, PageAfter(atom, p), e) /\ Stands(t \o atom, PageAfter(atom, q), e)
             /\ PageAfter(atom, p) = r /\ PageAfter(atom, q) = r
  <2>1. PageAfter(atom, p) = r /\ PageAfter(atom, q) = r
    BY <1>1, AfterToken
  <2>2. Stands(s \o atom, r, d) /\ Stands(t \o atom, r, d)
    BY <1>1, StandsToken
  <2>3. atom \in Seq(Nat)
    BY <1>1, PageDigits
  <2> QED BY <2>1, <2>2, <2>3
<1>2. ASSUME NEW symbol \in Nat, symbol # Select, atom = <<symbol>>
      PROVE  /\ atom \in Seq(Nat)
             /\ \E e : Stands(s \o atom, PageAfter(atom, p), e) /\ Stands(t \o atom, PageAfter(atom, q), e)
             /\ PageAfter(atom, p) = p /\ PageAfter(atom, q) = q
             /\ PageTokenOf(atom) = {}
  <2>1. PageAfter(atom, p) = p /\ PageAfter(atom, q) = q /\ PageTokenOf(atom) = {}
    BY <1>2, AfterOne
  <2>2. atom \in Seq(Nat)
    BY <1>2
  <2>3. CASE symbol = End
    <3>1. Stands(s \o atom, p, d) /\ Stands(t \o atom, q, d)
      BY <1>2, <2>3, StandsEnd
    <3> QED BY <2>1, <2>2, <3>1
  <2>4. CASE symbol # End
    <3>1. p = q
      <4>1. atom # <<End>>
        BY <1>2, <2>4
      <4>2. ~\E r \in Pages : atom = PageToken(r)
        BY <2>1 DEF PageTokenOf
      <4> QED BY <4>1, <4>2
    <3>2. Stands(s \o atom, p, Append(d, <<p, symbol>>))
      BY <1>2, <2>4, StandsGlyph
    <3>3. Stands(t \o atom, q, Append(d, <<q, symbol>>))
      BY <1>2, <2>4, StandsGlyph
    <3>4. PICK e : e = Append(d, <<p, symbol>>)
      OBVIOUS
    <3>5. Stands(s \o atom, p, e) /\ Stands(t \o atom, q, e)
      BY <3>1, <3>2, <3>3, <3>4
    <3> QED BY <2>1, <2>2, <3>5
  <2> QED BY <2>3, <2>4
<1>3. CASE \E r \in Pages : atom = PageToken(r)
  <2>1. PICK r \in Pages : atom = PageToken(r)
    BY <1>3
  <2> QED BY <1>1, <2>1
<1>4. CASE ~\E r \in Pages : atom = PageToken(r)
  <2>1. PICK symbol \in Nat : symbol # Select /\ atom = <<symbol>>
    BY <1>4 DEF Atom
  <2> QED BY <1>2, <1>4, <2>1
<1> QED BY <1>3, <1>4

\* The symbols of the atoms a padded row has taken.
Taken(atoms, t) == FlattenSeq(SubSeq(atoms, 1, t))

\* One atom more.
LEMMA TakenMore ==
  ASSUME NEW atoms \in Seq(Seq(Nat)), NEW t \in Nat, t < Len(atoms)
  PROVE  /\ Taken(atoms, t) \in Seq(Nat) /\ Taken(atoms, t + 1) \in Seq(Nat)
         /\ Taken(atoms, t + 1) = Taken(atoms, t) \o atoms[t + 1] /\ atoms[t + 1] \in Seq(Nat)
<1>1. PICK T : T = Seq(Nat)
  OBVIOUS
<1>2. PICK all \in Seq(T) : all = atoms
  BY <1>1
<1>3. PICK j \in 1 .. Len(all) : j = t + 1
  BY <1>2
<1>4. SubSeq(all, 1, j - 1) \o SubSeq(all, j, j) = SubSeq(all, 1, j)
  BY PartsJoin
<1>5. PICK one : one = SubSeq(all, j, j)
  OBVIOUS
<1>6. one \in Seq(T) /\ Len(one) = j - j + 1 /\ \A k \in 1 .. j - j + 1 : one[k] = all[j + k - 1]
  BY <1>5, PartOf
<1>7. Len(one) = 1 /\ one[1] = all[j]
  BY <1>3, <1>6
<1>8. one = <<all[j]>> /\ all[j] \in T
  BY <1>6, <1>7
<1>9. PICK before : before = SubSeq(all, 1, j - 1)
  OBVIOUS
<1>10. before \in Seq(T)
  <2>1. CASE j = 1
    BY <1>9, <2>1
  <2>2. CASE j # 1
    <3>1. 1 \in 1 .. Len(all) /\ j - 1 \in 1 .. Len(all)
      BY <1>3, <2>2
    <3> QED BY <1>9, <3>1, PartOf
  <2> QED BY <2>1, <2>2
<1>11. before \o one = Append(before, all[j])
  BY <1>8, <1>10, AppendIsConcat
<1>12. SubSeq(all, 1, j) = Append(before, all[j])
  BY <1>4, <1>5, <1>9, <1>11
<1>13. FlattenSeq(Append(before, all[j])) = FlattenSeq(before) \o all[j]
  BY <1>1, <1>8, <1>10, FlattenMoreOf
<1>14. FlattenSeq(before) \in Seq(Nat)
  BY <1>1, <1>10, FlattenType
<1>15. FlattenSeq(before) \o all[j] \in Seq(Nat)
  BY <1>1, <1>8, <1>14, ConcatProperties
<1>16. j - 1 = t
  BY <1>3
<1> QED BY <1>1, <1>2, <1>3, <1>8, <1>9, <1>12, <1>13, <1>14, <1>15, <1>16, Zenon DEF Taken

Padding(atoms) == [symbols : Seq(Nat), page : Pages \cup {-1}, taken : 0 .. Len(atoms), room : Nat]

\* A padded row shows what the atoms it has taken show, from the page they are
\* on unless the next atom does not care.
InStepWith(atoms, r) ==
    \E d, q : /\ Stands(r.symbols, r.page, d) /\ Stands(Taken(atoms, r.taken), q, d)
              /\ r.taken = Len(atoms) \/ r.page = q \/ Free(atoms, r.taken)

Pads(initial, limit, atoms, room) ==
    {r \in Padding(atoms) :
        /\ InStepWith(atoms, r)
        /\ r.page = -1 => r.taken = 0 \/ r.taken = Len(atoms)
        /\ Len(r.symbols) + r.room = Len(Taken(atoms, r.taken)) + room
        /\ Within(initial, r.symbols, limit)}

\* The atoms of a row that is done: before the first of them no page is needed.
AtomsOf(atoms) ==
    /\ atoms \in Seq(Seq(Nat)) /\ (\A i \in 1 .. Len(atoms) : Atom(atoms[i])) /\ Free(atoms, 0)

\* Placing the next atom keeps a padded row in step with the row it pads.
LEMMA PlacedPads ==
  ASSUME NEW initial, NEW limit, NEW atoms, AtomsOf(atoms), NEW room \in Nat,
         NEW row \in Pads(initial, limit, atoms, room), row.taken < Len(atoms),
         NEW r, r = Placed(row, atoms[row.taken + 1]), Within(initial, r.symbols, limit)
  PROVE  r \in Pads(initial, limit, atoms, room)
<1>1. /\ row \in Padding(atoms) /\ InStepWith(atoms, row)
      /\ row.page = -1 => row.taken = 0 \/ row.taken = Len(atoms)
      /\ Len(row.symbols) + row.room = Len(Taken(atoms, row.taken)) + room
  BY DEF Pads
<1>2. PICK s \in Seq(Nat) : s = row.symbols
  BY <1>1 DEF Padding
<1>3. PICK p \in Pages \cup {-1} : p = row.page
  BY <1>1 DEF Padding
<1>4. PICK t \in 0 .. Len(atoms) : t = row.taken
  BY <1>1 DEF Padding
<1>5. PICK space \in Nat : space = row.room
  BY <1>1 DEF Padding
<1>6. t \in Nat /\ t < Len(atoms) /\ t + 1 \in 1 .. Len(atoms)
  BY <1>4 DEF AtomsOf
<1>7. PICK atom : atom = atoms[t + 1]
  OBVIOUS
<1>8. PICK old \in Seq(Nat) : old = Taken(atoms, t)
  BY <1>6, TakenMore DEF AtomsOf
<1>9. /\ atom \in Seq(Nat) /\ Taken(atoms, t + 1) = old \o atom
  BY <1>6, <1>7, <1>8, TakenMore DEF AtomsOf
<1>10. Atom(atom)
  BY <1>6, <1>7 DEF AtomsOf
<1>11. PICK d, q : Stands(s, p, d) /\ Stands(old, q, d) /\ (t = Len(atoms) \/ p = q \/ Free(atoms, t))
  BY <1>1, <1>2, <1>3, <1>4, <1>8 DEF InStepWith
<1>12. p = q \/ (atom = <<End>> /\ t + 1 = Len(atoms)) \/ \E g \in Pages : atom = PageToken(g)
  BY <1>6, <1>7, <1>11 DEF Free
<1>13. PICK e : Stands(s \o atom, PageAfter(atom, p), e) /\ Stands(old \o atom, PageAfter(atom, q), e)
  BY <1>10, <1>11, <1>12, AtomStands
<1>14. /\ p = q => PageAfter(atom, p) = PageAfter(atom, q)
       /\ (\E g \in Pages : atom = PageToken(g)) => /\ PageAfter(atom, p) = PageAfter(atom, q)
                                                    /\ PageAfter(atom, p) \in Pages
       /\ PageAfter(atom, p) \in Pages \/ PageAfter(atom, p) = p
  BY <1>10, <1>11, <1>12, AtomStands
<1>15. PICK w : w = s \o atom
  OBVIOUS
<1>16. PICK page \in Pages \cup {-1} : page = PageAfter(atom, p)
  BY <1>3, <1>14
<1>17. r = [symbols |-> w, page |-> page, taken |-> t + 1, room |-> space]
  BY <1>2, <1>3, <1>4, <1>5, <1>7, <1>15, <1>16 DEF Placed
<1>18. r.symbols = w /\ r.page = page /\ r.taken = t + 1 /\ r.room = space
  BY <1>17
<1>19. w \in Seq(Nat) /\ Len(w) = Len(s) + Len(atom)
  BY <1>9, <1>15, ConcatProperties
<1>20. Len(old \o atom) = Len(old) + Len(atom)
  BY <1>9, ConcatProperties
<1>21. r \in Padding(atoms)
  <2>1. t + 1 \in 0 .. Len(atoms)
    BY <1>6
  <2> QED BY <1>17, <1>19, <2>1 DEF Padding
<1>22. InStepWith(atoms, r)
  <2>1. PICK after : after = PageAfter(atom, q)
    OBVIOUS
  <2>2. page = after \/ t + 1 = Len(atoms)
    BY <1>12, <1>14, <1>16, <2>1
  <2>3. Stands(w, page, e) /\ Stands(Taken(atoms, t + 1), after, e)
    BY <1>9, <1>13, <1>15, <1>16, <2>1
  <2> QED BY <1>18, <2>2, <2>3, Zenon DEF InStepWith
<1>23. r.page = -1 => r.taken = 0 \/ r.taken = Len(atoms)
  <2>1. SUFFICES ASSUME page = -1 PROVE t + 1 = Len(atoms)
    BY <1>18
  <2>2. page \notin Pages
    BY <2>1, AlphabetAssumption
  <2>3. p = -1 /\ ~\E g \in Pages : atom = PageToken(g)
    BY <1>14, <1>16, <2>1, <2>2
  <2>4. t = 0
    BY <1>1, <1>3, <1>4, <1>6, <2>3
  <2>5. Free(atoms, t)
    BY <2>4 DEF AtomsOf
  <2> QED BY <1>7, <2>3, <2>5, Zenon DEF Free
<1>24. Len(r.symbols) + r.room = Len(Taken(atoms, r.taken)) + room
  <2>1. Len(s) + space = Len(old) + room
    BY <1>1, <1>2, <1>4, <1>5, <1>8
  <2>2. PICK a \in Nat : a = Len(atom)
    BY <1>9
  <2>3. PICK b \in Nat : b = Len(s)
    BY <1>2
  <2>4. PICK c \in Nat : c = Len(old)
    BY <1>8
  <2>5. c + room = b + space
    BY <2>1, <2>3, <2>4, Zenon
  <2>6. (b + a) + space = (c + a) + room
    BY <2>5
  <2>7. Len(w) = b + a
    BY <1>19, <2>2, <2>3
  <2>8. Len(Taken(atoms, t + 1)) = c + a
    BY <1>9, <1>20, <2>2, <2>4
  <2> QED BY <1>18, <2>6, <2>7, <2>8, Zenon
<1> QED BY <1>21, <1>22, <1>23, <1>24 DEF Pads

\* So does putting a filler before it.
LEMMA FilledPads ==
  ASSUME NEW initial, NEW limit, NEW atoms, AtomsOf(atoms), NEW room \in Nat,
         NEW row \in Pads(initial, limit, atoms, room), row.taken < Len(atoms),
         NEW f \in Fillers(atoms, row), Len(f) <= row.room,
         NEW r, r = Filled(row, f), Within(initial, r.symbols, limit)
  PROVE  r \in Pads(initial, limit, atoms, room)
<1>1. /\ row \in Padding(atoms) /\ InStepWith(atoms, row)
      /\ row.page = -1 => row.taken = 0 \/ row.taken = Len(atoms)
      /\ Len(row.symbols) + row.room = Len(Taken(atoms, row.taken)) + room
  BY DEF Pads
<1>2. PICK s \in Seq(Nat) : s = row.symbols
  BY <1>1 DEF Padding
<1>3. PICK p \in Pages \cup {-1} : p = row.page
  BY <1>1 DEF Padding
<1>4. PICK t \in 0 .. Len(atoms) : t = row.taken
  BY <1>1 DEF Padding
<1>5. PICK space \in Nat : space = row.room
  BY <1>1 DEF Padding
<1>6. t \in Nat /\ t < Len(atoms) /\ t + 1 \in 1 .. Len(atoms)
  BY <1>4 DEF AtomsOf
<1>7. PICK atom : atom = atoms[t + 1]
  OBVIOUS
<1>8. PICK old \in Seq(Nat) : old = Taken(atoms, t)
  BY <1>6, TakenMore DEF AtomsOf
<1>11. PICK d, q : Stands(s, p, d) /\ Stands(old, q, d) /\ (t = Len(atoms) \/ p = q \/ Free(atoms, t))
  BY <1>1, <1>2, <1>3, <1>4, <1>8 DEF InStepWith
<1>9. PICK last : last = (t + 1 = Len(atoms) /\ atom = <<End>>)
  OBVIOUS
<1>10. PICK free : free = (PageTokenOf(atom) # {} \/ last \/ p = -1)
  OBVIOUS
<1>12. Fillers(atoms, row) = {PageToken(g) : g \in IF free THEN Pages ELSE {p}} \cup (IF last THEN {<<End>>} ELSE {})
  BY <1>3, <1>4, <1>7, <1>9, <1>10 DEF Fillers
<1>13. free => Free(atoms, t)
  <2>1. CASE PageTokenOf(atom) # {}
    <3>1. \E g \in Pages : atoms[t + 1] = PageToken(g)
      BY <1>7, <2>1 DEF PageTokenOf
    <3> QED BY <1>6, <3>1 DEF Free
  <2>2. CASE last
    <3>1. t + 1 = Len(atoms) /\ atoms[t + 1] = <<End>>
      BY <1>7, <1>9, <2>2
    <3> QED BY <1>6, <3>1, Zenon DEF Free
  <2>3. CASE p = -1
    <3>1. t = 0
      BY <1>1, <1>3, <1>4, <1>6, <2>3
    <3> QED BY <3>1 DEF AtomsOf
  <2> QED BY <1>10, <2>1, <2>2, <2>3
<1>14. last => free
  BY <1>10
<1>15. PICK page \in Pages \cup {-1} : page = PageAfter(f, p)
  <2>1. ASSUME NEW g \in Pages, f = PageToken(g) PROVE PageAfter(f, p) = g
    BY <2>1, AfterToken
  <2>2. ASSUME f = <<End>> PROVE PageAfter(f, p) = p
    BY <2>2, AfterOne
  <2>3. p # -1 => p \in Pages
    BY <1>3
  <2>4. f = <<End>> \/ \E g \in Pages : f = PageToken(g)
    BY <1>10, <1>12, <2>3
  <2> QED BY <1>3, <2>1, <2>2, <2>4
<1>16. /\ f \in Seq(Nat) /\ Stands(s \o f, page, d)
       /\ page = q \/ Free(atoms, t)
       /\ page = -1 => p = -1
  <2>1. ASSUME NEW g \in Pages, f = PageToken(g)
        PROVE  f \in Seq(Nat) /\ page = g /\ Stands(s \o f, g, d) /\ page # -1
    <3>1. f \in Seq(Nat)
      BY <2>1, PageDigits
    <3>2. page = g
      BY <1>15, <2>1, AfterToken
    <3>3. Stands(s \o f, g, d)
      BY <1>11, <2>1, StandsToken
    <3>4. g # -1
      BY AlphabetAssumption
    <3> QED BY <3>1, <3>2, <3>3, <3>4
  <2>2. CASE free
    <3>1. f = <<End>> \/ \E g \in Pages : f = PageToken(g)
      BY <1>12, <2>2
    <3>2. CASE f = <<End>>
      <4>1. page = p
        BY <1>15, <3>2, AfterOne
      <4>2. f \in Seq(Nat)
        BY <3>2, CodecAssumption
      <4>3. Stands(s \o f, p, d)
        BY <1>11, <3>2, StandsEnd
      <4> QED BY <1>13, <2>2, <4>1, <4>2, <4>3
    <3> QED BY <1>13, <2>1, <2>2, <3>1, <3>2
  <2>3. CASE ~free
    <3>1. p \in Pages /\ f = PageToken(p)
      BY <1>3, <1>10, <1>12, <1>14, <2>3
    <3>2. f \in Seq(Nat) /\ page = p /\ Stands(s \o f, p, d) /\ page # -1
      BY <2>1, <3>1
    <3>3. p = q \/ Free(atoms, t)
      BY <1>6, <1>11
    <3> QED BY <3>2, <3>3
  <2> QED BY <2>2, <2>3
<1>17. PICK w : w = s \o f
  OBVIOUS
<1>18. PICK a \in Nat : a = Len(f) /\ a <= space
  BY <1>5, <1>16
<1>19. r = [symbols |-> w, page |-> page, taken |-> t, room |-> space - a]
  BY <1>2, <1>3, <1>4, <1>5, <1>15, <1>17, <1>18 DEF Filled
<1>20. r.symbols = w /\ r.page = page /\ r.taken = t /\ r.room = space - a
  BY <1>19
<1>21. w \in Seq(Nat) /\ Len(w) = Len(s) + a
  BY <1>16, <1>17, <1>18, ConcatProperties
<1>22. r \in Padding(atoms)
  <2>1. space - a \in Nat
    BY <1>5, <1>18
  <2> QED BY <1>4, <1>15, <1>19, <1>21, <2>1 DEF Padding
<1>23. InStepWith(atoms, r)
  <2>1. Stands(w, page, d) /\ Stands(Taken(atoms, t), q, d)
    BY <1>8, <1>11, <1>16, <1>17
  <2> QED BY <1>16, <1>20, <2>1, Zenon DEF InStepWith
<1>24. r.page = -1 => r.taken = 0 \/ r.taken = Len(atoms)
  BY <1>1, <1>3, <1>4, <1>16, <1>20
<1>25. Len(r.symbols) + r.room = Len(Taken(atoms, r.taken)) + room
  <2>1. PICK b \in Nat : b = Len(s)
    BY <1>2
  <2>2. b + space = Len(old) + room
    BY <1>1, <1>2, <1>4, <1>5, <1>8, <2>1, Zenon
  <2>3. (b + a) + (space - a) = b + space
    <3>1. \A x, y, z \in Nat : (x + y) + (z - y) = x + z
      OBVIOUS
    <3>2. a \in Nat /\ b \in Nat /\ space \in Nat
      BY <1>5, <1>18, <2>1
    <3> QED BY <3>1, <3>2, Zenon
  <2>4. Len(w) = b + a
    BY <1>21, <2>1
  <2> QED BY <1>8, <1>20, <2>2, <2>3, <2>4, Zenon
<1> QED BY <1>20, <1>22, <1>23, <1>24, <1>25 DEF Pads

\* Every way of padding that ends with no room has taken all atoms.
LEMMA PadFromIs ==
  ASSUME IsCodec(trees), NEW initial, NEW limit \in Nat, NEW atoms, AtomsOf(atoms), NEW room \in Nat,
         NEW s \in PadFrom(initial, limit, atoms, room)
  PROVE  \E r \in Pads(initial, limit, atoms, room) : r.symbols = s /\ r.taken = Len(atoms) /\ r.room = 0
<1> DEFINE start == {[symbols |-> <<>>, page |-> -1, taken |-> 0, room |-> room]}
<1>20. start \in SUBSET Pads(initial, limit, atoms, room)
  <2>1. PICK e : e = <<>>
    OBVIOUS
  <2>2. e \in Seq(Nat) /\ Len(e) = 0
    <3>1. <<>> \in Seq(Nat) /\ Len(<<>>) = 0
      OBVIOUS
    <3> QED BY <2>1, <3>1, Zenon
  <2>3. PICK r : r = [symbols |-> e, page |-> -1, taken |-> 0, room |-> room]
    OBVIOUS
  <2>4. r.symbols = e /\ r.page = -1 /\ r.taken = 0 /\ r.room = room
    BY <2>3
  <2>5. r \in Padding(atoms)
    <3>1. 0 \in 0 .. Len(atoms)
      BY DEF AtomsOf
    <3> QED BY <2>2, <2>3, <3>1 DEF Padding
  <2>6. Taken(atoms, 0) = e
    <3>1. SubSeq(atoms, 1, 0) = <<>>
      OBVIOUS
    <3> QED BY <2>1, <3>1, FlattenEmpty DEF Taken
  <2>7. Stands(e, -1, e)
    BY <2>1, FormedEmpty DEF Formed
  <2>8. InStepWith(atoms, r)
    BY <2>4, <2>6, <2>7 DEF InStepWith
  <2>9. Within(initial, e, limit)
    <3>1. Follows(initial, e) /\ Cost(initial, e) = 0
      BY <2>1, <2>2, BitsEmpty DEF Follows, Cost, Length
    <3> QED BY <3>1 DEF Within
  <2>10. r \in Pads(initial, limit, atoms, room)
    BY <2>2, <2>4, <2>5, <2>6, <2>8, <2>9 DEF Pads
  <2> QED BY <2>1, <2>3, <2>10
<1> HIDE DEF start
<1> DEFINE n == Len(atoms) + room
           first == start
           more(k, R) == PadStep(initial, limit, atoms, R)
           Is(f) == f = [k \in 0 .. n |-> IF k = 0 THEN first ELSE more(k, f[k - 1])]
           drawn == CHOOSE f : Is(f)
<1>1. n \in Nat
  BY DEF AtomsOf
<1>2. PICK Good : Good = [k \in 0 .. n |-> Pads(initial, limit, atoms, room)]
  OBVIOUS
<1>3. PICK step : step = [k \in 1 .. n |-> [R \in SUBSET Pads(initial, limit, atoms, room) |-> more(k, R)]]
  OBVIOUS
<1>4. ASSUME NEW k \in 1 .. n, NEW R \in SUBSET Pads(initial, limit, atoms, room)
      PROVE  more(k, R) \in SUBSET Pads(initial, limit, atoms, room)
  <2>1. ASSUME NEW r \in PadStep(initial, limit, atoms, R) PROVE r \in Pads(initial, limit, atoms, room)
    <3>1. CASE \E row \in R : /\ row.taken < Len(atoms) /\ r = Placed(row, atoms[row.taken + 1])
                              /\ Within(initial, r.symbols, limit)
      <4>1. PICK row \in R : /\ row.taken < Len(atoms) /\ r = Placed(row, atoms[row.taken + 1])
                             /\ Within(initial, r.symbols, limit)
        BY <3>1
      <4> QED BY <4>1, PlacedPads
    <3>2. CASE \E row \in R : \E f \in Fillers(atoms, row) :
                  /\ row.taken < Len(atoms) /\ Len(f) <= row.room /\ r = Filled(row, f)
                  /\ LeavesRoom(initial, r.symbols, limit)
      <4>9. PICK row \in R : \E f \in Fillers(atoms, row) :
                  /\ row.taken < Len(atoms) /\ Len(f) <= row.room /\ r = Filled(row, f)
                  /\ LeavesRoom(initial, r.symbols, limit)
        BY <3>2
      <4>1. PICK f \in Fillers(atoms, row) :
                  /\ row.taken < Len(atoms) /\ Len(f) <= row.room /\ r = Filled(row, f)
                  /\ LeavesRoom(initial, r.symbols, limit)
        BY <4>9
      <4>2. row \in Pads(initial, limit, atoms, room)
        OBVIOUS
      <4>3. Within(initial, r.symbols, limit)
        <5>1. PICK x \in Seq(Nat) : x = row.symbols
          BY <4>2 DEF Pads, Padding
        <5>2. f \in Seq(Nat)
          <6>1. row.page \in Pages \cup {-1}
            BY <4>2 DEF Pads, Padding
          <6>2. f = <<End>> \/ (\E g \in Pages : f = PageToken(g))
            BY <6>1 DEF Fillers
          <6>3. <<End>> \in Seq(Nat)
            BY CodecAssumption
          <6> QED BY <6>2, <6>3, PageDigits
        <5>3. PICK w : w = x \o f
          OBVIOUS
        <5>4. w \in Seq(Nat)
          BY <5>2, <5>3, ConcatProperties
        <5>5. r.symbols = w
          BY <4>1, <5>1, <5>3 DEF Filled
        <5>6. Encodable(trees, initial, w) /\ Length(trees, initial, w) < limit
          BY <4>1, <5>5 DEF LeavesRoom, Follows, Cost
        <5>7. Length(trees, initial, w) \in Nat
          BY <5>4, <5>6, BitsType
        <5>8. Length(trees, initial, w) <= limit
          BY <5>6, <5>7
        <5> QED BY <5>5, <5>6, <5>8 DEF Within, Follows, Cost
      <4> QED BY <4>1, <4>2, <4>3, FilledPads
    <3>3. \/ \E row \in R : /\ row.taken < Len(atoms) /\ r = Placed(row, atoms[row.taken + 1])
                            /\ Within(initial, r.symbols, limit)
          \/ \E row \in R : \E f \in Fillers(atoms, row) :
                  /\ row.taken < Len(atoms) /\ Len(f) <= row.room /\ r = Filled(row, f)
                  /\ LeavesRoom(initial, r.symbols, limit)
      BY DEF PadStep
    <3> QED BY <3>1, <3>2, <3>3
  <2> QED BY <2>1
<1>5. first \in SUBSET Pads(initial, limit, atoms, room)
  BY <1>20
<1>17. PadFrom(initial, limit, atoms, room)
         = {x.symbols : x \in {y \in UNION {drawn[k] : k \in 0 .. n} :
                                  y.taken = Len(atoms) /\ y.room = 0}}
  BY DEF PadFrom, start
<1> HIDE DEF Is, drawn, n, first, more
<1>6. Steps(step, Good, n)
  <2>1. ASSUME NEW k \in 1 .. n PROVE step[k] \in [SUBSET Good[k - 1] -> SUBSET Good[k]]
    <3>1. Good[k - 1] = Pads(initial, limit, atoms, room) /\ Good[k] = Pads(initial, limit, atoms, room)
      BY <1>1, <1>2
    <3>2. step[k] = [R \in SUBSET Pads(initial, limit, atoms, room) |-> more(k, R)]
      BY <1>3
    <3>3. step[k] \in [SUBSET Pads(initial, limit, atoms, room) -> SUBSET Pads(initial, limit, atoms, room)]
      BY <1>4, <3>2
    <3> QED BY <3>1, <3>3, Zenon
  <2> QED BY <2>1 DEF Steps
<1>7. Good[0] = Pads(initial, limit, atoms, room)
  BY <1>1, <1>2
<1>8. PICK f : Chain(f, first, step, n) /\ \A k \in 0 .. n : f[k] \subseteq Good[k]
  BY <1>1, <1>5, <1>6, <1>7, SearchesExist
<1>9. ASSUME NEW k \in 1 .. n, NEW R \in SUBSET Good[k - 1]
      PROVE  step[k][R] = more(k, R)
  <2>1. Good[k - 1] = Pads(initial, limit, atoms, room)
    BY <1>1, <1>2
  <2> QED BY <1>3, <2>1
<1>10. Is(f)
  <2>1. ASSUME NEW k \in 0 .. n
        PROVE  f[k] = IF k = 0 THEN first ELSE more(k, f[k - 1])
    <3>1. f[k] = IF k = 0 THEN first ELSE step[k][f[k - 1]]
      BY <1>8 DEF Chain
    <3>2. k # 0 => k \in 1 .. n /\ k - 1 \in 0 .. n
      BY <1>1
    <3>3. k # 0 => f[k - 1] \in SUBSET Good[k - 1]
      BY <1>8, <3>2
    <3>4. k # 0 => step[k][f[k - 1]] = more(k, f[k - 1])
      BY <1>9, <3>2, <3>3
    <3> QED BY <3>1, <3>4
  <2>2. f = [k \in 0 .. n |-> f[k]]
    BY <1>8 DEF Chain
  <2> QED BY <2>1, <2>2 DEF Is
<1>11. Is(drawn)
  BY <1>10, Zenon DEF drawn
<1>12. Guided(drawn, first, step, Good, n)
  <2>1. drawn[0] = first
    BY <1>1, <1>11 DEF Is
  <2>2. ASSUME NEW k \in 1 .. n, drawn[k - 1] \subseteq Good[k - 1]
        PROVE  drawn[k] = step[k][drawn[k - 1]]
    <3>1. k \in 0 .. n /\ k # 0
      BY <1>1
    <3>2. drawn[k] = more(k, drawn[k - 1])
      BY <1>11, <3>1 DEF Is
    <3> QED BY <1>9, <2>2, <3>2
  <2> QED BY <2>1, <2>2 DEF Guided
<1>13. \A k \in 0 .. n : drawn[k] \subseteq Good[k]
  BY <1>1, <1>5, <1>6, <1>7, <1>12, SearchesStay
<1>14. \A k \in 0 .. n : drawn[k] \subseteq Pads(initial, limit, atoms, room)
  BY <1>1, <1>2, <1>13
<1>15. PICK k \in 0 .. n : \E x \in drawn[k] : s = x.symbols /\ x.taken = Len(atoms) /\ x.room = 0
  BY <1>17
<1> QED BY <1>14, <1>15

\* A padded row draws what the row drew, has its count and still fits.
LEMMA PadRowIs ==
  ASSUME IsCodec(trees), NEW initial, NEW limit \in Nat, NEW count \in Nat, NEW symbols, NEW slots,
         Whole(symbols, slots), Within(initial, symbols, limit),
         NEW s \in PadRow(initial, limit, count, symbols)
  PROVE  s \in Seq(Nat) /\ Drawn(s) = slots /\ Len(s) = count /\ Within(initial, s, limit)
<1>1. /\ symbols \in Seq(Nat) /\ Tokened(symbols) /\ symbols # <<>>
      /\ Drawn(symbols) = slots
  BY DEF Whole, Drawn
<1>2. CASE Len(symbols) > count
  BY <1>2 DEF PadRow
<1>3. CASE Len(symbols) = count
  <2>1. s = symbols
    BY <1>1, <1>3 DEF PadRow
  <2> QED BY <1>1, <1>3, <2>1
<1>4. CASE Len(symbols) < count
  <2>1. PICK room \in Nat : room = count - Len(symbols)
    BY <1>1, <1>4
  <2>2. PICK atoms : atoms = Atoms(symbols)
    OBVIOUS
  <2>3. s \in PadFrom(initial, limit, atoms, room)
    BY <1>1, <1>4, <2>1, <2>2 DEF PadRow
  <2>4. /\ atoms \in Seq(Seq(Nat)) /\ FlattenSeq(atoms) = symbols
        /\ \A i \in 1 .. Len(atoms) : Atom(atoms[i])
    BY <1>1, <2>2, AtomsAre
  <2>5. AtomsOf(atoms)
    BY <2>2, <2>4, AtomsStart DEF AtomsOf
  <2>6. PICK r \in Pads(initial, limit, atoms, room) :
           r.symbols = s /\ r.taken = Len(atoms) /\ r.room = 0
    BY <2>3, <2>5, PadFromIs
  <2>7. /\ r \in Padding(atoms) /\ InStepWith(atoms, r)
        /\ Len(r.symbols) + r.room = Len(Taken(atoms, r.taken)) + room
        /\ Within(initial, r.symbols, limit)
    BY DEF Pads
  <2>8. s \in Seq(Nat)
    BY <2>6, <2>7 DEF Padding
  <2>9. Taken(atoms, Len(atoms)) = symbols
    <3>1. PICK T : T = Seq(Nat)
      OBVIOUS
    <3>2. PICK all \in Seq(T) : all = atoms
      BY <2>4, <3>1
    <3>3. SubSeq(all, 1, Len(all)) = all
      <4>1. PICK part : part = SubSeq(all, 1, Len(all))
        OBVIOUS
      <4>2. CASE all = <<>>
        BY <4>2
      <4>3. CASE all # <<>>
        <5>1. 1 \in 1 .. Len(all) /\ Len(all) \in 1 .. Len(all)
          BY <4>3, EmptySeq
        <5>2. /\ part \in Seq(T) /\ Len(part) = Len(all) - 1 + 1
              /\ \A k \in 1 .. Len(all) - 1 + 1 : part[k] = all[1 + k - 1]
          BY <4>1, <5>1, PartOf
        <5>3. Len(part) = Len(all) /\ \A k \in 1 .. Len(all) : part[k] = all[k]
          BY <5>1, <5>2
        <5> QED BY <4>1, <5>2, <5>3, SeqEqual
      <4> QED BY <4>2, <4>3
    <3> QED BY <2>4, <3>2, <3>3 DEF Taken
  <2>10. PICK d, q : Stands(s, r.page, d) /\ Stands(symbols, q, d)
    BY <2>6, <2>7, <2>9 DEF InStepWith
  <2>11. Drawn(s) = Drawn(symbols)
    BY <2>10 DEF Stands, Drawn
  <2>12. Len(s) + 0 = Len(symbols) + room
    BY <2>6, <2>7, <2>9
  <2>13. Len(s) = count
    BY <1>1, <2>1, <2>8, <2>12
  <2> QED BY <1>1, <2>6, <2>7, <2>8, <2>11, <2>13
<1> QED BY <1>1, <1>2, <1>3, <1>4

\* What the searches promise of a row of n glyphs: the screen shows the slots
\* the tool believes in, on the pages it asked for and no slot twice.
Shown(group, n, r) ==
    /\ r.symbols \in Seq(Nat) /\ Drawn(r.symbols) = r.slots
    /\ r.slots \in Seq(group \X Glyphs) /\ Len(r.slots) = n /\ Different(r.slots)

\* A finished row shows its slots.
LEMMA LaidShows == ASSUME NEW group, NEW n, NEW r, Laid(group, n, r) PROVE Shown(group, n, r)
BY DEF Laid, Shown, Whole, Drawn

\* And of a row that fills a record of count symbols.
Fills(initial, limit, count, group, n, r) ==
    Shown(group, n, r) /\ Len(r.symbols) = count /\ Within(initial, r.symbols, limit)

\* Every row the fixed-count search over several pages returns (in segments, bounded
\* and padded, or exact) is drawn by the renderer on the slots it claims, none of
\* them twice, has exactly the count of the record and fits it.
THEOREM FixedCountRowMultiPage ==
  ASSUME IsCodec(trees), NEW initial, NEW limit \in Nat, NEW count \in Nat, NEW group \in SUBSET Pages,
         NEW n \in Nat, NEW r \in SolveFixedCountRowMultiPage(initial, limit, count, group, n)
  PROVE  Fills(initial, limit, count, group, n, r)
<1>1. PICK controls : controls = count - n - 1
  OBVIOUS
<1>2. PICK tokens : tokens = IF controls >= 0 /\ controls % 3 = 0 THEN controls \div 3 ELSE -1
  OBVIOUS
<1>3. PICK bounded : bounded = SolveBoundedLengthRowMultiPage(initial, limit, group, n)
  OBVIOUS
<1>4. PICK padded : padded = UNION {{Row(s, row.slots) : s \in PadRow(initial, limit, count, row.symbols)} :
                                    row \in bounded}
  OBVIOUS
<1>5. PICK exact : exact = UNION {{row \in SolveExactLengthRowMultiPage(initial, bits, group, n) :
                                     Len(row.symbols) = count} : bits \in 1 .. limit}
  OBVIOUS
<1>6. r \in IF tokens \in {2, 3} /\ Cardinality(group) = tokens
            THEN SegmentedRows(initial, limit, group, n)
            ELSE IF tokens >= 3 \/ bounded = {} THEN {} ELSE FirstOf(padded, exact)
  BY <1>1, <1>2, <1>3, <1>4, <1>5 DEF SolveFixedCountRowMultiPage
<1>7. CASE tokens \in {2, 3} /\ Cardinality(group) = tokens
  <2>1. tokens \in Nat \ {0} /\ 3 * tokens + n + 1 = count
    <3>1. PICK m \in Int : m = controls
      BY <1>1
    <3>2. m >= 0 /\ m % 3 = 0 /\ tokens = m \div 3
      BY <1>2, <1>7, <3>1
    <3>3. 3 * (m \div 3) = m
      BY <3>1, <3>2
    <3>4. m = count - n - 1
      BY <1>1, <3>1
    <3>5. 3 * tokens + n + 1 = count
      BY <3>2, <3>3, <3>4
    <3> QED BY <1>7, <3>5
  <2>2. r \in SegmentedRows(initial, limit, group, n)
    BY <1>6, <1>7
  <2>3. Full(3 * tokens + n + 1, group, n, r) /\ Within(initial, r.symbols, limit)
    BY <1>7, <2>1, <2>2, SegmentedRowsAre
  <2> QED BY <2>1, <2>3, LaidShows DEF Full, Fills
<1>8. CASE ~(tokens \in {2, 3} /\ Cardinality(group) = tokens)
  <2>1. r \in padded \/ r \in exact
    BY <1>6, <1>8 DEF FirstOf
  <2>2. CASE r \in padded
    <3>1. PICK row \in bounded : \E s \in PadRow(initial, limit, count, row.symbols) : r = Row(s, row.slots)
      BY <1>4, <2>2
    <3>2. PICK s \in PadRow(initial, limit, count, row.symbols) : r = Row(s, row.slots)
      BY <3>1
    <3>3. Solved(initial, limit, group, n, row)
      BY <1>3, BoundedMultiPage
    <3>4. /\ Whole(row.symbols, row.slots) /\ Within(initial, row.symbols, limit)
          /\ row.slots \in Seq(group \X Glyphs) /\ Len(row.slots) = n /\ Different(row.slots)
      BY <3>3 DEF Solved, Laid
    <3>5. s \in Seq(Nat) /\ Drawn(s) = row.slots /\ Len(s) = count /\ Within(initial, s, limit)
      BY <3>4, PadRowIs
    <3>6. r.symbols = s /\ r.slots = row.slots
      BY <3>2 DEF Row
    <3> QED BY <3>4, <3>5, <3>6 DEF Fills, Shown
  <2>3. CASE r \in exact
    <3>1. PICK bits \in 1 .. limit : /\ r \in SolveExactLengthRowMultiPage(initial, bits, group, n)
                                     /\ Len(r.symbols) = count
      BY <1>5, <2>3
    <3>2. bits \in Nat /\ bits <= limit
      OBVIOUS
    <3>3. Solved(initial, bits, group, n, r)
      BY <3>1, <3>2, ExactMultiPage
    <3>4. Shown(group, n, r)
      BY <3>3, LaidShows DEF Solved
    <3>5. Within(initial, r.symbols, bits)
      BY <3>3 DEF Solved
    <3>6. Cost(initial, r.symbols) \in Nat
      BY <3>4, <3>5, BitsType DEF Shown, Within, Follows, Cost
    <3>7. Within(initial, r.symbols, limit)
      <4>1. PICK c \in Nat : c = Cost(initial, r.symbols)
        BY <3>6
      <4>2. c <= bits
        BY <3>5, <4>1 DEF Within
      <4>3. c <= limit
        BY <3>2, <4>2
      <4> QED BY <3>5, <4>1, <4>3 DEF Within
    <3> QED BY <3>1, <3>4, <3>7 DEF Fills
  <2> QED BY <2>1, <2>2, <2>3
<1> QED BY <1>7, <1>8

\* The same of the search on one page.
LEMMA FixedCountFills ==
  ASSUME NEW initial, NEW limit, NEW count \in Nat, NEW page \in Pages, NEW n \in Nat,
         NEW r \in SolveFixedCountRow(initial, limit, count, page, n)
  PROVE  Fills(initial, limit, count, {page}, n, r)
<1>1. Full(count, {page}, n, r) /\ Within(initial, r.symbols, limit)
  BY FixedCountRow
<1> QED BY <1>1, LaidShows DEF Full, Fills

-----------------------------------------------------------------------------
(* The first row, padded with blanks                                        *)

\* The first n slots serve nothing else.
Apart(n, slots) ==
    n <= Len(slots) /\ \A i \in 1 .. n, j \in 1 .. Len(slots) : slots[i] = slots[j] => i = j

Blanks(page, n, seen) ==
    {x \in Growing : /\ x.page = page /\ Formed(x.symbols, page, x.slots)
                     /\ x.slots \in Seq({page} \X Glyphs) /\ Apart(n, x.slots)
                     /\ \A i \in 1 .. n : x.slots[i] = seen[i]}

NewTo(n, slots, slot) == \A i \in 1 .. n : slots[i] # slot
Begins(n, slots, w) == \A i \in 1 .. n : w[i] = slots[i]

\* A slot unlike the first n may be added behind them.
LEMMA ApartMore ==
  ASSUME NEW S, NEW n \in Nat, NEW slots \in Seq(S), Apart(n, slots), NEW slot \in S,
         NewTo(n, slots, slot), NEW w, w = Append(slots, slot)
  PROVE  Apart(n, w) /\ w \in Seq(S) /\ Begins(n, slots, w)
<1>1. /\ w \in Seq(S) /\ Len(w) = Len(slots) + 1 /\ w[Len(slots) + 1] = slot
      /\ \A i \in 1 .. Len(slots) : w[i] = slots[i]
  BY AppendProperties
<1>2. n <= Len(slots)
  BY DEF Apart
<1>3. ASSUME NEW i \in 1 .. n PROVE w[i] = slots[i]
  <2>1. i \in 1 .. Len(slots)
    BY <1>2
  <2> QED BY <1>1, <2>1
<1>4. ASSUME NEW i \in 1 .. n, NEW j \in 1 .. Len(w), w[i] = w[j] PROVE i = j
  <2>1. w[i] = slots[i]
    BY <1>3
  <2>2. CASE j \in 1 .. Len(slots)
    <3>1. slots[i] = slots[j]
      BY <1>1, <1>4, <2>1, <2>2
    <3> QED BY <2>2, <3>1 DEF Apart
  <2>3. CASE j = Len(slots) + 1
    BY <1>1, <1>4, <2>1, <2>3 DEF NewTo
  <2> QED BY <1>1, <2>2, <2>3
<1>5. n <= Len(w)
  BY <1>1, <1>2
<1> QED BY <1>1, <1>3, <1>4, <1>5 DEF Apart, Begins

\* One blank more, on a glyph that none of the first slots uses.
LEMMA BlankMore ==
  ASSUME NEW initial, NEW bits, NEW page \in Pages, NEW n \in Nat, NEW seen,
         NEW free \in SUBSET Glyphs, \A i \in 1 .. n : seen[i][2] \notin free,
         NEW old \in SUBSET Blanks(page, n, seen)
  PROVE  OneBlankMore(initial, bits, free, old) \subseteq Blanks(page, n, seen)
<1>1. ASSUME NEW r \in OneBlankMore(initial, bits, free, old) PROVE r \in Blanks(page, n, seen)
  <2>20. PICK row \in old : \E g \in free : r = Draw(row, [via |-> <<>>, page |-> row.page, glyph |-> g])
    BY DEF OneBlankMore
  <2>1. PICK g \in free : r = Draw(row, [via |-> <<>>, page |-> row.page, glyph |-> g])
    BY <2>20
  <2>2. /\ row.page = page /\ Formed(row.symbols, page, row.slots)
        /\ row.slots \in Seq({page} \X Glyphs) /\ Apart(n, row.slots)
        /\ \A i \in 1 .. n : row.slots[i] = seen[i]
    BY DEF Blanks
  <2>3. g \in Glyphs /\ page # -1
    BY AlphabetAssumption
  <2>4. PICK T : T = {page} \X Glyphs
    OBVIOUS
  <2>5. PICK slots \in Seq(T) : slots = row.slots
    BY <2>2, <2>4
  <2>6. PICK slot \in T : slot = <<page, g>>
    BY <2>3, <2>4
  <2>7. PICK s \in Seq(Nat) : s = row.symbols
    BY <2>2 DEF Formed
  <2>8. PICK more : more = Append(slots, slot)
    OBVIOUS
  <2>9. Formed(s \o <<g>>, page, more) /\ <<g>> \in Seq(Nat)
    BY <2>2, <2>3, <2>5, <2>6, <2>7, <2>8, FormedGlyph
  <2>10. PICK one \in Seq(Nat) : one = <<g>>
    BY <2>9
  <2>11. PICK w : w = s \o one
    OBVIOUS
  <2>12. <<>> \o one = one
    BY ConcatEmptySeq
  <2>13. r = [symbols |-> w, slots |-> more, page |-> page]
    <3>1. PICK step : step = [via |-> <<>>, page |-> page, glyph |-> g]
      OBVIOUS
    <3>2. step.via = <<>> /\ step.page = page /\ step.glyph = g
      BY <3>1
    <3>3. StepSymbols(step) = one
      BY <2>10, <2>12, <3>2 DEF StepSymbols
    <3>4. StepSlot(step) = slot
      BY <2>6, <3>2 DEF StepSlot
    <3>5. r = Draw(row, step)
      BY <2>1, <2>2, <3>1
    <3> QED BY <2>5, <2>7, <2>8, <2>11, <3>2, <3>3, <3>4, <3>5 DEF Draw
  <2>14. \A i \in 1 .. n : slots[i] # slot
    <3>1. ASSUME NEW i \in 1 .. n, slots[i] = slot PROVE FALSE
      <4>1. seen[i] = slot
        BY <2>2, <2>5, <3>1
      <4>2. slot[2] = g
        BY <2>6
      <4> QED BY <4>1, <4>2
    <3> QED BY <3>1
  <2>15. Apart(n, more) /\ more \in Seq(T) /\ \A i \in 1 .. n : more[i] = slots[i]
      <3>1. Apart(n, slots)
      BY <2>2, <2>5
    <3>2. slots \in Seq(T) /\ slot \in T
      BY <2>5, <2>6
    <3>4. NewTo(n, slots, slot)
      BY <2>14 DEF NewTo
    <3>3. Apart(n, more) /\ more \in Seq(T) /\ Begins(n, slots, more)
      BY <3>1, <3>2, <3>4, <2>8, ApartMore, Zenon
    <3> QED BY <3>3 DEF Begins
  <2>16. Formed(w, page, more)
    BY <2>9, <2>10, <2>11
  <2>17. r.symbols = w /\ r.slots = more /\ r.page = page
    BY <2>13
  <2>18. r \in Growing
    BY <2>13, <2>16 DEF Formed, Growing
  <2>19. \A i \in 1 .. n : more[i] = seen[i]
    BY <2>2, <2>5, <2>15
  <2> QED BY <2>4, <2>15, <2>16, <2>17, <2>18, <2>19 DEF Blanks
<1> QED BY <1>1

\* What the first row promises: its first n slots serve nothing but its text.
Behold(page, n, r) ==
    /\ r.symbols \in Seq(Nat) /\ Drawn(r.symbols) = r.slots
    /\ r.slots \in Seq({page} \X Glyphs) /\ Apart(n, r.slots)

\* So padding keeps the first slots apart.
LEMMA BlankPaddedIs ==
  ASSUME NEW initial, NEW bits \in Nat, NEW page \in Pages, NEW n \in Nat, NEW seen,
         NEW free \in SUBSET Glyphs, \A i \in 1 .. n : seen[i][2] \notin free,
         NEW row \in Blanks(page, n, seen), NEW r \in BlankPadded(initial, bits, free, row)
  PROVE  Behold(page, n, r)
<1> DEFINE top == bits
           first == {row}
           more(k, R) == OneBlankMore(initial, bits, free, R)
           Is(f) == f = [k \in 0 .. top |-> IF k = 0 THEN first ELSE more(k, f[k - 1])]
           drawn == CHOOSE f : Is(f)
<1>1. top \in Nat
  OBVIOUS
<1>2. PICK Good : Good = [k \in 0 .. top |-> Blanks(page, n, seen)]
  OBVIOUS
<1>3. PICK step : step = [k \in 1 .. top |-> [R \in SUBSET Blanks(page, n, seen) |-> more(k, R)]]
  OBVIOUS
<1>4. ASSUME NEW k \in 1 .. top, NEW R \in SUBSET Blanks(page, n, seen)
      PROVE  more(k, R) \in SUBSET Blanks(page, n, seen)
  BY BlankMore
<1>5. first \in SUBSET Blanks(page, n, seen)
  OBVIOUS
<1>17. BlankPadded(initial, bits, free, row)
         = {y \in {Finish(x, <<End>>) : x \in UNION {drawn[k] : k \in 0 .. bits}} :
               Follows(initial, y.symbols) /\ Cost(initial, y.symbols) = bits}
  BY DEF BlankPadded
<1> HIDE DEF Is, drawn, top, first, more
<1>6. Steps(step, Good, top)
  <2>1. ASSUME NEW k \in 1 .. top PROVE step[k] \in [SUBSET Good[k - 1] -> SUBSET Good[k]]
    <3>1. Good[k - 1] = Blanks(page, n, seen) /\ Good[k] = Blanks(page, n, seen)
      BY <1>1, <1>2
    <3>2. step[k] = [R \in SUBSET Blanks(page, n, seen) |-> more(k, R)]
      BY <1>3
    <3>3. step[k] \in [SUBSET Blanks(page, n, seen) -> SUBSET Blanks(page, n, seen)]
      BY <1>4, <3>2
    <3> QED BY <3>1, <3>3, Zenon
  <2> QED BY <2>1 DEF Steps
<1>7. Good[0] = Blanks(page, n, seen)
  BY <1>1, <1>2
<1>8. PICK f : Chain(f, first, step, top) /\ \A k \in 0 .. top : f[k] \subseteq Good[k]
  BY <1>1, <1>5, <1>6, <1>7, SearchesExist
<1>9. ASSUME NEW k \in 1 .. top, NEW R \in SUBSET Good[k - 1]
      PROVE  step[k][R] = more(k, R)
  <2>1. Good[k - 1] = Blanks(page, n, seen)
    BY <1>1, <1>2
  <2> QED BY <1>3, <2>1
<1>10. Is(f)
  <2>1. ASSUME NEW k \in 0 .. top
        PROVE  f[k] = IF k = 0 THEN first ELSE more(k, f[k - 1])
    <3>1. f[k] = IF k = 0 THEN first ELSE step[k][f[k - 1]]
      BY <1>8 DEF Chain
    <3>2. k # 0 => k \in 1 .. top /\ k - 1 \in 0 .. top
      BY <1>1
    <3>3. k # 0 => f[k - 1] \in SUBSET Good[k - 1]
      BY <1>8, <3>2
    <3>4. k # 0 => step[k][f[k - 1]] = more(k, f[k - 1])
      BY <1>9, <3>2, <3>3
    <3> QED BY <3>1, <3>4
  <2>2. f = [k \in 0 .. top |-> f[k]]
    BY <1>8 DEF Chain
  <2> QED BY <2>1, <2>2 DEF Is
<1>11. Is(drawn)
  BY <1>10, Zenon DEF drawn
<1>12. Guided(drawn, first, step, Good, top)
  <2>1. drawn[0] = first
    BY <1>1, <1>11 DEF Is
  <2>2. ASSUME NEW k \in 1 .. top, drawn[k - 1] \subseteq Good[k - 1]
        PROVE  drawn[k] = step[k][drawn[k - 1]]
    <3>1. k \in 0 .. top /\ k # 0
      BY <1>1
    <3>2. drawn[k] = more(k, drawn[k - 1])
      BY <1>11, <3>1 DEF Is
    <3> QED BY <1>9, <2>2, <3>2
  <2> QED BY <2>1, <2>2 DEF Guided
<1>13. \A k \in 0 .. top : drawn[k] \subseteq Good[k]
  BY <1>1, <1>5, <1>6, <1>7, <1>12, SearchesStay
<1>14. \A k \in 0 .. bits : drawn[k] \subseteq Blanks(page, n, seen)
  BY <1>1, <1>2, <1>13 DEF top
<1>15. PICK k \in 0 .. bits : \E x \in drawn[k] : r = Finish(x, <<End>>)
  BY <1>17
<1>16. PICK x \in Blanks(page, n, seen) : r = Finish(x, <<End>>)
  BY <1>14, <1>15
<1>18. /\ Formed(x.symbols, page, x.slots)
       /\ x.slots \in Seq({page} \X Glyphs) /\ Apart(n, x.slots)
  BY DEF Blanks
<1>19. Whole(x.symbols \o <<End>>, x.slots)
  BY <1>18, FormedEnd
<1>20. r.symbols = x.symbols \o <<End>> /\ r.slots = x.slots
  BY <1>16 DEF Finish, Row
<1>21. r.symbols \in Seq(Nat) /\ Drawn(r.symbols) = r.slots
  BY <1>19, <1>20 DEF Whole, Drawn
<1> QED BY <1>18, <1>20, <1>21 DEF Behold

\* The same of the search for the row itself.
LEMMA BlankPaddedRowIs ==
  ASSUME NEW initial, NEW bits \in Nat, NEW limit, NEW count \in Nat, NEW page \in Pages, NEW n \in Nat,
         NEW r \in SolveBlankPaddedRow(initial, bits, limit, count, page, n)
  PROVE  Behold(page, n, r)
<1>1. PICK glyphs : glyphs = count - 4
  OBVIOUS
<1>2. glyphs >= n
  BY <1>1 DEF SolveBlankPaddedRow
<1>3. glyphs \in Nat /\ count = glyphs + 4
  BY <1>1, <1>2
<1>4. PICK row \in SolveFixedCountRow(initial, limit, count, page, glyphs) :
         r \in BlankPadded(initial, bits, Glyphs \ {row.slots[k][2] : k \in 1 .. n},
                           [symbols |-> Front(row.symbols), slots |-> row.slots, page |-> page])
  BY <1>1, <1>2 DEF SolveBlankPaddedRow
<1>5. /\ Full(count, {page}, glyphs, row)
      /\ \E s : Formed(s, page, row.slots) /\ row.symbols = s \o <<End>>
  <2>1. row \in SolveFixedCountRow(initial, limit, count, page, glyphs)
    BY <1>4
  <2>4. glyphs \in Nat
    BY <1>3
  <2>2. /\ Full(count, {page}, glyphs, row) /\ Within(initial, row.symbols, limit)
        /\ (count = glyphs + 4 => Closed(page, row))
    BY <2>1, <2>4, FixedCountRow, Zenon
  <2> QED BY <1>3, <2>2 DEF Closed
<1>6. PICK s : Formed(s, page, row.slots) /\ row.symbols = s \o <<End>>
  BY <1>5
<1>7. s \in Seq(Nat)
  BY <1>6 DEF Formed
<1>8. Front(row.symbols) = s
  <2>1. PICK w : w = Append(s, End)
    OBVIOUS
  <2>2. End \in Nat
    BY CodecAssumption
  <2>3. row.symbols = w
    BY <1>6, <1>7, <2>1, <2>2, AppendIsConcat
  <2>4. Front(w) = s
    BY <1>7, <2>1, <2>2, FrontLast
  <2> QED BY <2>3, <2>4
<1>9. /\ row.slots \in Seq({page} \X Glyphs) /\ Len(row.slots) = glyphs /\ Different(row.slots)
  BY <1>5 DEF Full, Laid
<1>10. PICK seen : seen = row.slots
  OBVIOUS
<1>11. PICK x : x = [symbols |-> s, slots |-> seen, page |-> page]
  OBVIOUS
<1>12. x.symbols = s /\ x.slots = seen /\ x.page = page
  BY <1>11
<1>13. Apart(n, seen)
  <2>1. \A i \in 1 .. n : i \in 1 .. Len(seen)
    BY <1>2, <1>3, <1>9, <1>10
  <2>2. n <= Len(seen)
    BY <1>2, <1>3, <1>9, <1>10
  <2> QED BY <1>9, <1>10, <2>1, <2>2 DEF Apart, Different
<1>14. x \in Growing
  BY <1>6, <1>7, <1>10, <1>11 DEF Formed, Growing
<1>15. x \in Blanks(page, n, seen)
  BY <1>6, <1>9, <1>10, <1>12, <1>13, <1>14 DEF Blanks
<1>16. PICK free : free = Glyphs \ {seen[k][2] : k \in 1 .. n}
  OBVIOUS
<1>17. free \in SUBSET Glyphs /\ \A i \in 1 .. n : seen[i][2] \notin free
  BY <1>16
<1>18. r \in BlankPadded(initial, bits, free, x)
  BY <1>4, <1>8, <1>10, <1>11, <1>16
<1> QED BY <1>15, <1>17, <1>18, BlankPaddedIs

\* A set of numbers has its least element.
LEMMA MinIsIn == ASSUME NEW S \in SUBSET Nat, S # {} PROVE Min(S) \in S
<1>1. \E k \in S : \A j \in S : ~(<<j, k>> \in OpToRel(<, Nat))
  BY NatLessThanWellFounded, WFMin, Zenon
<1>2. PICK k \in S : \A j \in S : ~(j < k)
  BY <1>1 DEF OpToRel
<1>3. \A j \in S : k <= j
  BY <1>2
<1> QED BY <1>2, <1>3 DEF Min

\* The first row of the proven way shows its line on slots nothing else in it uses.
LEMMA ByteAlignedRow ==
  ASSUME NEW initial, NEW limit, NEW count \in Nat, NEW page \in Pages, NEW n \in Nat,
         NEW r \in SolveByteAlignedRow(initial, limit, count, page, n)
  PROVE  Behold(page, n, r)
<1> DEFINE found(b) == SolveBlankPaddedRow(initial, b * ByteBits, limit, count, page, n)
           sizes == {b \in 1 .. (limit \div ByteBits) : found(b) # {}}
<1>1. sizes # {} /\ r \in found(Min(sizes))
  BY DEF SolveByteAlignedRow
<1>2. Min(sizes) \in sizes
  <2>1. sizes \in SUBSET Nat
    OBVIOUS
  <2> HIDE DEF sizes
  <2> QED BY <1>1, <2>1, MinIsIn
<1>3. Min(sizes) \in Nat
  BY <1>2
<1>4. PICK b \in Nat : b = Min(sizes)
  BY <1>3
<1>5. b * ByteBits \in Nat
  BY <1>4, CodecAssumption
<1>6. r \in SolveBlankPaddedRow(initial, b * ByteBits, limit, count, page, n)
  BY <1>1, <1>4
<1> QED BY <1>5, <1>6, BlankPaddedRowIs

-----------------------------------------------------------------------------
(* The direct row                                                           *)

Places == Glyphs \cup {Select}

\* The slots lie where map says, and two glyphs on one slot look the same.
Mapped(page, map, symbols, slots) ==
    \A j \in 1 .. Len(slots) : slots[j] = <<page, Physical(map, symbols[j])>>

Agreeing(visuals, slots) ==
    \A i, j \in 1 .. Len(slots) : slots[i] = slots[j] => visuals[i] = visuals[j]

Placing(map) == \A g \in Places : Physical(map, g) \in Places

Dealing == [symbols : Seq(Nat), slots : Seq(Pages \X Nat), page : Pages]

Dealt(visuals, page, map, k) ==
    {x \in Dealing : /\ x.page = page /\ Len(x.symbols) = k /\ Len(x.slots) = k
                     /\ x.slots \in Seq({page} \X Places)
                     /\ Mapped(page, map, x.symbols, x.slots) /\ Agreeing(visuals, x.slots)}

\* One symbol dealt more keeps one visual to each slot.
LEMMA DealMore ==
  ASSUME NEW page \in Pages, NEW map, Placing(map), NEW visuals, NEW k \in Nat, NEW g \in Places,
         NEW x \in Dealt(visuals, page, map, k), Shows(x, Physical(map, g), visuals),
         NEW r, r = [symbols |-> Append(x.symbols, g),
                     slots |-> Append(x.slots, <<x.page, Physical(map, g)>>), page |-> x.page]
  PROVE  r \in Dealt(visuals, page, map, k + 1)
<1>1. /\ x \in Dealing /\ x.page = page /\ Len(x.symbols) = k /\ Len(x.slots) = k
      /\ x.slots \in Seq({page} \X Places)
      /\ Mapped(page, map, x.symbols, x.slots) /\ Agreeing(visuals, x.slots)
  BY DEF Dealt
<1>2. PICK T : T = {page} \X Places
  OBVIOUS
<1>3. PICK slots \in Seq(T) : slots = x.slots
  BY <1>1, <1>2
<1>4. PICK symbols \in Seq(Nat) : symbols = x.symbols
  BY <1>1 DEF Dealing
<1>5. PICK place \in Places : place = Physical(map, g)
  BY DEF Placing
<1>6. PICK slot \in T : slot = <<page, place>>
  BY <1>2, <1>5
<1>7. PICK more : more = Append(slots, slot)
  OBVIOUS
<1>8. PICK w : w = Append(symbols, g)
  OBVIOUS
<1>9. g \in Nat /\ T \subseteq Pages \X Nat
  <2>1. Places \subseteq Nat
    BY AlphabetAssumption DEF Places
  <2> QED BY <1>2, <2>1
<1>10. /\ more \in Seq(T) /\ Len(more) = k + 1 /\ more[k + 1] = slot
       /\ \A i \in 1 .. k : more[i] = slots[i]
  BY <1>1, <1>3, <1>6, <1>7, AppendProperties
<1>11. /\ w \in Seq(Nat) /\ Len(w) = k + 1 /\ w[k + 1] = g
       /\ \A i \in 1 .. k : w[i] = symbols[i]
  BY <1>1, <1>4, <1>8, <1>9, AppendProperties
<1>12. r = [symbols |-> w, slots |-> more, page |-> page]
  BY <1>1, <1>3, <1>4, <1>5, <1>6, <1>7, <1>8
<1>13. Mapped(page, map, w, more)
  <2>1. ASSUME NEW j \in 1 .. k + 1 PROVE more[j] = <<page, Physical(map, w[j])>>
    <3>1. CASE j \in 1 .. k
      <4>1. slots[j] = <<page, Physical(map, symbols[j])>>
        BY <1>1, <1>3, <1>4, <3>1 DEF Mapped
      <4> QED BY <1>10, <1>11, <3>1, <4>1
    <3>2. CASE j = k + 1
      BY <1>5, <1>6, <1>10, <1>11, <3>2
    <3> QED BY <3>1, <3>2
  <2> QED BY <1>10, <2>1 DEF Mapped
<1>14. ASSUME NEW i \in 1 .. k, slots[i] = slot PROVE visuals[i] = visuals[k + 1]
  <2>1. slots[i][2] = place
    BY <1>6, <1>14
  <2>2. i \in DOMAIN slots /\ Len(slots) = k
    BY <1>1, <1>3
  <2> QED BY <1>3, <1>5, <2>1, <2>2 DEF Shows
<1>15. Agreeing(visuals, more)
  <2>1. ASSUME NEW i \in 1 .. k + 1, NEW j \in 1 .. k + 1, more[i] = more[j]
        PROVE  visuals[i] = visuals[j]
    <3>1. CASE i \in 1 .. k /\ j \in 1 .. k
      <4>1. slots[i] = slots[j]
        BY <1>10, <2>1, <3>1
      <4> QED BY <1>1, <1>3, <3>1, <4>1 DEF Agreeing
    <3>2. CASE i \in 1 .. k /\ j = k + 1
      BY <1>10, <1>14, <2>1, <3>2
    <3>3. CASE i = k + 1 /\ j \in 1 .. k
      BY <1>10, <1>14, <2>1, <3>3
    <3>4. CASE i = k + 1 /\ j = k + 1
      BY <3>4
    <3> QED BY <3>1, <3>2, <3>3, <3>4
  <2> QED BY <1>10, <2>1 DEF Agreeing
<1>16. r.symbols = w /\ r.slots = more /\ r.page = page
  BY <1>12
<1>17. more \in Seq(Pages \X Nat)
  <2>1. \A i \in 1 .. Len(more) : more[i] \in Pages \X Nat
    BY <1>9, <1>10
  <2> QED BY <1>10, <2>1
<1>18. r \in Dealing
  <2>1. PICK Q : Q = Seq(Pages \X Nat)
    OBVIOUS
  <2>2. more \in Q
    BY <1>17, <2>1
  <2>4. w \in Seq(Nat) /\ page \in Pages
    BY <1>11
  <2>5. [symbols |-> w, slots |-> more, page |-> page] \in [symbols : Seq(Nat), slots : Q, page : Pages]
    BY <2>2, <2>4
  <2>3. r \in [symbols : Seq(Nat), slots : Q, page : Pages]
    BY <1>12, <2>5, Zenon
  <2> QED BY <2>1, <2>3 DEF Dealing
<1> QED BY <1>2, <1>10, <1>11, <1>13, <1>15, <1>16, <1>18 DEF Dealt

\* What the direct search promises.
Direct(limit, initial, visuals, page, map, r) ==
    /\ r.symbols \in Seq(Nat) /\ Len(r.symbols) = Len(visuals) + 1
    /\ r.slots \in Seq({page} \X Places) /\ Len(r.slots) = Len(visuals)
    /\ Mapped(page, map, r.symbols, r.slots) /\ Agreeing(visuals, r.slots)
    /\ Within(initial, r.symbols, limit)

\* Every row of the direct way has one symbol for each visual and the terminator,
\* lies where the map says, never shows two visuals in one slot, and fits.
THEOREM DirectRow ==
  ASSUME NEW page \in Pages, NEW map, Placing(map), NEW initial, NEW limit, NEW visuals,
         Len(visuals) \in Nat, NEW r \in SolveDirectRow(initial, limit, visuals, page, map)
  PROVE  Direct(limit, initial, visuals, page, map, r)
<1> DEFINE n == Len(visuals)
           first == {Start(<<>>, page)}
           more(k, R) == DirectMore(initial, limit, visuals, map, R)
           Is(f) == f = [k \in 0 .. n |-> IF k = 0 THEN first ELSE more(k, f[k - 1])]
           drawn == CHOOSE f : Is(f)
<1>1. n \in Nat
  OBVIOUS
<1>2. PICK Good : Good = [k \in 0 .. n |-> Dealt(visuals, page, map, k)]
  OBVIOUS
<1>3. PICK step : step = [k \in 1 .. n |-> [R \in SUBSET Dealt(visuals, page, map, k - 1) |-> more(k, R)]]
  OBVIOUS
<1>4. ASSUME NEW k \in 1 .. n, NEW R \in SUBSET Dealt(visuals, page, map, k - 1)
      PROVE  more(k, R) \in SUBSET Dealt(visuals, page, map, k)
  <2>1. ASSUME NEW x \in DirectMore(initial, limit, visuals, map, R)
        PROVE  x \in Dealt(visuals, page, map, k)
    <3>1. PICK row \in R : \E g \in {h \in Glyphs \cup {Select} : Shows(row, Physical(map, h), visuals)} :
             x = [symbols |-> Append(row.symbols, g),
                  slots |-> Append(row.slots, <<row.page, Physical(map, g)>>), page |-> row.page]
      BY DEF DirectMore
    <3>2. PICK g \in {h \in Glyphs \cup {Select} : Shows(row, Physical(map, h), visuals)} :
             x = [symbols |-> Append(row.symbols, g),
                  slots |-> Append(row.slots, <<row.page, Physical(map, g)>>), page |-> row.page]
      BY <3>1
    <3>3. g \in Places /\ Shows(row, Physical(map, g), visuals)
      BY DEF Places
    <3>4. PICK j \in Nat : j = k - 1 /\ j + 1 = k
      BY <1>1
    <3>5. row \in Dealt(visuals, page, map, j)
      BY <3>4
    <3>6. x \in Dealt(visuals, page, map, j + 1)
      BY <3>2, <3>3, <3>5, DealMore
    <3> QED BY <3>4, <3>6
  <2> QED BY <2>1
<1>5. first \in SUBSET Dealt(visuals, page, map, 0)
  <2>1. PICK x : x = Start(<<>>, page)
    OBVIOUS
  <2>2. PICK e : e = <<>>
    OBVIOUS
  <2>3. x = [symbols |-> e, slots |-> e, page |-> page]
    BY <2>1, <2>2 DEF Start
  <2>4. /\ e \in Seq(Nat) /\ e \in Seq(Pages \X Nat) /\ e \in Seq({page} \X Places) /\ Len(e) = 0
    BY <2>2
  <2>5. x.symbols = e /\ x.slots = e /\ x.page = page
    BY <2>3
  <2>6. page \in Int
    BY AlphabetAssumption
  <2>7. x \in Dealing
    <3>1. PICK Q : Q = Seq(Pages \X Nat)
      OBVIOUS
    <3>2. e \in Q
      BY <2>4, <3>1
    <3>3. x \in [symbols : Seq(Nat), slots : Q, page : Pages]
      BY <2>3, <2>4, <3>2
    <3> QED BY <3>1, <3>3 DEF Dealing
  <2>8. x \in Dealt(visuals, page, map, 0)
    <3>1. Mapped(page, map, e, e) /\ Agreeing(visuals, e)
      BY <2>4 DEF Mapped, Agreeing
    <3>2. PICK Q : Q = Seq({page} \X Places)
      OBVIOUS
    <3>3. e \in Q
      BY <2>4, <3>2
    <3> QED BY <2>4, <2>5, <2>7, <3>1, <3>2, <3>3 DEF Dealt
  <2> QED BY <2>1, <2>8
<1>17. r \in {x \in {Finish(row, <<End>>) : row \in drawn[n]} :
               Within(initial, x.symbols, limit)}
  BY DEF SolveDirectRow
<1> HIDE DEF Is, drawn, n, first, more
<1>6. Steps(step, Good, n)
  <2>1. ASSUME NEW k \in 1 .. n PROVE step[k] \in [SUBSET Good[k - 1] -> SUBSET Good[k]]
    <3>1. Good[k - 1] = Dealt(visuals, page, map, k - 1) /\ Good[k] = Dealt(visuals, page, map, k)
      BY <1>1, <1>2
    <3>2. step[k] = [R \in SUBSET Dealt(visuals, page, map, k - 1) |-> more(k, R)]
      BY <1>3
    <3>3. step[k] \in [SUBSET Dealt(visuals, page, map, k - 1) -> SUBSET Dealt(visuals, page, map, k)]
      BY <1>4, <3>2
    <3> QED BY <3>1, <3>3, Zenon
  <2> QED BY <2>1 DEF Steps
<1>7. Good[0] = Dealt(visuals, page, map, 0)
  BY <1>1, <1>2
<1>8. PICK f : Chain(f, first, step, n) /\ \A k \in 0 .. n : f[k] \subseteq Good[k]
  BY <1>1, <1>5, <1>6, <1>7, SearchesExist
<1>9. ASSUME NEW k \in 1 .. n, NEW R \in SUBSET Good[k - 1]
      PROVE  step[k][R] = more(k, R)
  <2>1. Good[k - 1] = Dealt(visuals, page, map, k - 1)
    BY <1>1, <1>2
  <2> QED BY <1>3, <2>1
<1>10. Is(f)
  <2>1. ASSUME NEW k \in 0 .. n
        PROVE  f[k] = IF k = 0 THEN first ELSE more(k, f[k - 1])
    <3>1. f[k] = IF k = 0 THEN first ELSE step[k][f[k - 1]]
      BY <1>8 DEF Chain
    <3>2. k # 0 => k \in 1 .. n /\ k - 1 \in 0 .. n
      BY <1>1
    <3>3. k # 0 => f[k - 1] \in SUBSET Good[k - 1]
      BY <1>8, <3>2
    <3>4. k # 0 => step[k][f[k - 1]] = more(k, f[k - 1])
      BY <1>9, <3>2, <3>3
    <3> QED BY <3>1, <3>4
  <2>2. f = [k \in 0 .. n |-> f[k]]
    BY <1>8 DEF Chain
  <2> QED BY <2>1, <2>2 DEF Is
<1>11. Is(drawn)
  BY <1>10, Zenon DEF drawn
<1>12. Guided(drawn, first, step, Good, n)
  <2>1. drawn[0] = first
    BY <1>1, <1>11 DEF Is
  <2>2. ASSUME NEW k \in 1 .. n, drawn[k - 1] \subseteq Good[k - 1]
        PROVE  drawn[k] = step[k][drawn[k - 1]]
    <3>1. k \in 0 .. n /\ k # 0
      BY <1>1
    <3>2. drawn[k] = more(k, drawn[k - 1])
      BY <1>11, <3>1 DEF Is
    <3> QED BY <1>9, <2>2, <3>2
  <2> QED BY <2>1, <2>2 DEF Guided
<1>13. \A k \in 0 .. n : drawn[k] \subseteq Good[k]
  BY <1>1, <1>5, <1>6, <1>7, <1>12, SearchesStay
<1>14. drawn[n] \subseteq Dealt(visuals, page, map, n)
  BY <1>1, <1>2, <1>13
<1>15. PICK x \in Dealt(visuals, page, map, n) : r = Finish(x, <<End>>)
  BY <1>14, <1>17
<1>16. /\ x \in Dealing /\ Len(x.symbols) = n /\ Len(x.slots) = n
       /\ x.slots \in Seq({page} \X Places)
       /\ Mapped(page, map, x.symbols, x.slots) /\ Agreeing(visuals, x.slots)
  BY DEF Dealt
<1>18. PICK s \in Seq(Nat) : s = x.symbols
  BY <1>16 DEF Dealing
<1>19. PICK w : w = s \o <<End>>
  OBVIOUS
<1>20. r.symbols = w /\ r.slots = x.slots
  BY <1>15, <1>18, <1>19 DEF Finish, Row
<1>21. End \in Nat
  BY CodecAssumption
<1>22. w = Append(s, End)
  BY <1>18, <1>19, <1>21, AppendIsConcat
<1>23. /\ w \in Seq(Nat) /\ Len(w) = n + 1 /\ \A j \in 1 .. n : w[j] = s[j]
  BY <1>16, <1>18, <1>21, <1>22, AppendProperties
<1>24. Mapped(page, map, w, x.slots)
  <2>1. ASSUME NEW j \in 1 .. Len(x.slots)
        PROVE  x.slots[j] = <<page, Physical(map, w[j])>>
    <3>1. w[j] = s[j]
      BY <1>16, <1>23
    <3> QED BY <1>16, <1>18, <3>1 DEF Mapped
  <2> QED BY <2>1 DEF Mapped
<1>25. Within(initial, r.symbols, limit)
  BY <1>17
<1>26. n = Len(visuals)
  BY DEF n
<1> QED BY <1>16, <1>20, <1>23, <1>24, <1>25, <1>26, Zenon DEF Direct

-----------------------------------------------------------------------------
(* The map of the direct way                                                *)

Pairs(s) == {<<t[1], s.tile - t[2]>> : t \in s.slots}

\* A screen gives finitely many candidates.
LEMMA PairsFinite == ASSUME NEW s, IsFiniteSet(s.slots) PROVE IsFiniteSet(Pairs(s))
<1>1. PICK f : f = [t \in s.slots |-> <<t[1], s.tile - t[2]>>]
  OBVIOUS
<1>2. f \in Surjection(s.slots, Pairs(s))
  BY <1>1 DEF Surjection, Pairs
<1> QED BY <1>2, FS_Surjection

\* What the direct way knows of the screens: glyphs lie where the map says.
TrueMap(c, m) ==
    /\ m.page = c.page /\ DOMAIN m.map \subseteq DOMAIN c.map
    /\ \A d \in DOMAIN m.map : m.map[d] = c.map[d] /\ m.map[d] \in Places

\* The map the direct way infers is the one the glyphs lie by: the screens agree
\* on one candidate, and the true one is in all of them.
THEOREM InferredMap ==
  ASSUME NEW c \in Captures, NEW m, m = InferPhysicalMap(c.samples), m # NoMap
  PROVE  TrueMap(c, m)
<1> DEFINE samples == c.samples
           common == {x \in UNION {Pairs(samples[k]) : k \in DOMAIN samples} :
                         \A k \in DOMAIN samples : x \in Pairs(samples[k])}
           pair == CHOOSE x \in common : TRUE
           at(s) == s.tile - pair[2]
           decoded == {samples[k].decoded : k \in DOMAIN samples}
           map == [d \in decoded |-> at(samples[CHOOSE k \in DOMAIN samples :
                                                   samples[k].decoded = d])]
<1>1. /\ samples # <<>> /\ Cardinality(common) = 1
      /\ m = [page |-> pair[1], map |-> map]
  BY DEF InferPhysicalMap, Pairs
<1>2. /\ c.page \in Pages /\ c.distance \in Int
      /\ Len(samples) \in Nat /\ DOMAIN samples = 1 .. Len(samples)
      /\ \A k \in DOMAIN samples : SeenIn(c, samples[k])
  BY CapturesAssumption
<1>3. PICK k0 \in DOMAIN samples : TRUE
  <2>1. CASE DOMAIN samples = {}
    <3>1. common = {}
      BY <2>1
    <3> HIDE DEF common
    <3> QED BY <1>1, <3>1, FS_EmptySet
  <2> QED BY <2>1
<1>4. ASSUME NEW k \in DOMAIN samples
      PROVE  /\ samples[k].decoded \in DOMAIN c.map
             /\ samples[k].tile = c.map[samples[k].decoded] + c.distance
             /\ <<c.page, c.map[samples[k].decoded]>> \in samples[k].slots
             /\ c.map[samples[k].decoded] \in Places /\ c.map[samples[k].decoded] \in Int
             /\ IsFiniteSet(samples[k].slots)
  <2>1. SeenIn(c, samples[k])
    BY <1>2
  <2>2. PICK place : place = c.map[samples[k].decoded]
    OBVIOUS
  <2>3. <<c.page, place>> \in Slots
    BY <2>1, <2>2 DEF SeenIn
  <2>4. place \in Places
    BY <2>3 DEF Slots, Places
  <2>5. place \in Int
    BY <2>4, AlphabetAssumption DEF Places
  <2> QED BY <2>1, <2>2, <2>4, <2>5 DEF SeenIn
<1>5. ASSUME NEW k \in DOMAIN samples PROVE <<c.page, c.distance>> \in Pairs(samples[k])
  <2>1. PICK place \in Int : place = c.map[samples[k].decoded]
    BY <1>4
  <2>6. PICK distance \in Int : distance = c.distance
    BY <1>2
  <2>7. samples[k].tile = place + distance
    BY <1>4, <2>1, <2>6, Zenon
  <2>2. samples[k].tile - place = c.distance
    BY <2>1, <2>6, <2>7
  <2>3. PICK t \in samples[k].slots : t = <<c.page, place>>
    BY <1>4, <2>1
  <2>4. t[1] = c.page /\ t[2] = place
    BY <2>3
  <2>5. <<t[1], samples[k].tile - t[2]>> = <<c.page, c.distance>>
    BY <2>2, <2>4
  <2> QED BY <2>3, <2>5 DEF Pairs
<1>6. <<c.page, c.distance>> \in common
  BY <1>3, <1>5
<1>7. IsFiniteSet(common)
  <2>1. IsFiniteSet(Pairs(samples[k0]))
    BY <1>4, PairsFinite
  <2>2. common \in SUBSET Pairs(samples[k0])
    OBVIOUS
  <2> HIDE DEF common
  <2> QED BY <2>1, <2>2, FS_Subset
<1> HIDE DEF common
<1>8. PICK x : common = {x}
  BY <1>1, <1>7, FS_Singleton
<1>9. pair = <<c.page, c.distance>>
  BY <1>6, <1>8
<1> HIDE DEF pair
<1>10. pair[1] = c.page /\ pair[2] = c.distance
  BY <1>9
<1>11. ASSUME NEW d \in decoded
       PROVE  /\ d \in DOMAIN c.map /\ map[d] = c.map[d] /\ map[d] \in Places
  <2>1. PICK k : k = CHOOSE j \in DOMAIN samples : samples[j].decoded = d
    OBVIOUS
  <2>2. k \in DOMAIN samples /\ samples[k].decoded = d
    BY <2>1
  <2>3. map[d] = samples[k].tile - c.distance
    BY <1>10, <2>1 DEF map
  <2>4. PICK place \in Int : place = c.map[d]
    BY <1>4, <2>2
  <2>5. samples[k].tile = place + c.distance
    BY <1>4, <2>2, <2>4
  <2>6. map[d] = place
    BY <1>2, <2>3, <2>5
  <2> QED BY <1>4, <2>2, <2>4, <2>6
<1>12. m.page = c.page /\ m.map = map /\ DOMAIN map = decoded
  BY <1>1, <1>10
<1> HIDE DEF map
<1> QED BY <1>11, <1>12 DEF TrueMap

\* Every glyph has a place then.
LEMMA KnownPlaces == ASSUME NEW c, NEW m, TrueMap(c, m) PROVE Placing(m.map)
BY DEF TrueMap, Placing, Physical

-----------------------------------------------------------------------------
(* Entries written one behind the other                                     *)

\* Whatever encode_symbol_entries writes without an error, in whole bytes,
\* decode_symbol_entries reads back.
THEOREM EntriesComeBack ==
  ASSUME NEW codes, IsCodec(codes), NEW initial, NEW n \in Nat, NEW entries \in Seq(Seq(Nat)),
         Len(entries) = n, \A k \in 1 .. n : Terminated(entries[k]) /\ Len(entries[k]) <= MaxSymbols,
         NEW maxBits, NEW bits, bits = EncodeEntries(codes, entries, initial, maxBits),
         bits # Error
  PROVE  DecodeEntries(codes, Pad(bits), initial, n) = entries
<1>1. PICK ss : ss = [e \in 1 .. n |-> Bits(codes, initial, entries[e])]
  OBVIOUS
<1>2. DOMAIN entries = 1 .. n
  OBVIOUS
<1>3. /\ \A e \in 1 .. n : EncodeSymbols(codes, entries[e], initial, maxBits) # Error
      /\ bits = FlattenSeq(ss)
  BY <1>1, <1>2 DEF EncodeEntries
<1>4. ASSUME NEW e \in 1 .. n PROVE Entry(codes, initial, entries[e])
  <2>1. entries[e] \in Seq(Nat)
    BY <1>2
  <2> QED BY <1>3, <2>1 DEF EncodeSymbols, Entry
<1>5. ss \in Seq(Seq(Bit))
  <2>1. \A e \in 1 .. n : Bits(codes, initial, entries[e]) \in Seq(Bit)
    BY <1>4, BitsType DEF Entry
  <2> QED BY <1>1, <2>1
<1>6. bits \in Seq(Bit)
  BY <1>3, <1>5, FlattenType
<1>7. PICK w \in Seq(Bit) : w = Pad(bits)
  BY <1>6, PadHolds
<1>8. Holds(w, 1, FlattenSeq(ss))
  BY <1>3, <1>6, <1>7, PadHolds
<1>9. DecodeFrom(codes, w, initial, n, 1) = entries
  BY <1>1, <1>4, <1>7, <1>8, EntriesRead
<1> QED BY <1>7, <1>9 DEF DecodeEntries

\* The entries the runs write: at most two glyphs and the terminator.
LEMMA ShortEntries ==
  ASSUME NEW e \in {Append(text, End) : text \in SeqOf(Glyphs, 2)}
  PROVE  e \in Seq(Nat) /\ Terminated(e) /\ Len(e) <= MaxSymbols
<1>1. End \in Nat /\ End \notin Glyphs /\ Glyphs \subseteq Nat /\ MaxSymbols \in Nat /\ MaxSymbols >= 3
  BY CodecAssumption, AlphabetAssumption
<1>2. PICK n \in 0 .. 2 : \E text \in [1 .. n -> Glyphs] : e = Append(text, End)
  BY DEF SeqOf
<1>3. PICK text \in [1 .. n -> Glyphs] : e = Append(text, End)
  BY <1>2
<1>4. PICK t \in Seq(Glyphs) : t = text /\ Len(t) = n
  OBVIOUS
<1>5. \A k \in 1 .. n : t[k] \in Glyphs
  BY <1>4
<1>6. t \in Seq(Nat)
  <2>1. \A k \in 1 .. Len(t) : t[k] \in Nat
    BY <1>1, <1>4, <1>5
  <2> QED BY <1>4, <2>1
<1>7. PICK w : w = Append(t, End)
  OBVIOUS
<1>8. /\ w \in Seq(Nat) /\ Len(w) = n + 1 /\ w[n + 1] = End
      /\ \A k \in 1 .. n : w[k] = t[k]
  BY <1>1, <1>4, <1>6, <1>7, AppendProperties
<1>9. ASSUME NEW k \in 1 .. Len(w) PROVE w[k] = End <=> k = Len(w)
  BY <1>1, <1>5, <1>8
<1>10. w # <<>>
  BY <1>8
<1> QED BY <1>1, <1>3, <1>4, <1>7, <1>8, <1>9, <1>10 DEF Terminated

\* So the property holds of every codec.
LEMMA CodecEntriesReadBack == ASSUME IsCodec(trees) PROVE EntriesReadBack
<1> DEFINE E == {Append(text, End) : text \in SeqOf(Glyphs, 2)}
           max == MaxSymbols * ByteBits
<1>1. EntriesReadBack = (way = "none" =>
        \A entries \in [1 .. 2 -> E] :
            EncodeEntries(trees, entries, End, max) # Error
              => DecodeEntries(trees, Pad(EncodeEntries(trees, entries, End, max)), End, 2) = entries)
  BY Zenon DEF EntriesReadBack
<1>2. \A e \in E : e \in Seq(Nat) /\ Terminated(e) /\ Len(e) <= MaxSymbols
  BY ShortEntries
<1> HIDE DEF E, max
<1>3. ASSUME NEW entries \in [1 .. 2 -> E], EncodeEntries(trees, entries, End, max) # Error
      PROVE  DecodeEntries(trees, Pad(EncodeEntries(trees, entries, End, max)), End, 2) = entries
  <2>1. PICK n \in Nat : n = 2
    OBVIOUS
  <2>2. \A k \in 1 .. n : /\ entries[k] \in Seq(Nat)
                          /\ Terminated(entries[k]) /\ Len(entries[k]) <= MaxSymbols
    <3>1. \A k \in 1 .. n : entries[k] \in E
      BY <2>1
    <3> QED BY <1>2, <3>1, Zenon
  <2>3. entries \in Seq(Seq(Nat)) /\ Len(entries) = n
    <3>1. DOMAIN entries = 1 .. n /\ entries = [k \in 1 .. n |-> entries[k]]
      BY <2>1
    <3> QED BY <2>2, <3>1
  <2>4. PICK bits : bits = EncodeEntries(trees, entries, End, max)
    OBVIOUS
  <2>5. DecodeEntries(trees, Pad(bits), End, n) = entries
    BY <1>3, <2>2, <2>3, <2>4, EntriesComeBack
  <2> QED BY <2>1, <2>4, <2>5
<1> QED BY <1>1, <1>3, Zenon

-----------------------------------------------------------------------------
(* What the records hold                                                    *)

\* Where a decoder may stand, whatever the bits.
Reads == [last : Nat, next : Nat, symbols : Seq(Int)]

\* An error looks like a sequence of integers.
LEMMA ErrorType == Error \in Seq(Int)
BY DEF Error

\* A pass of the loop leads from such a place to such a place.
LEMMA FurtherType ==
  ASSUME NEW codes, IsCodec(codes), NEW bits, NEW read \in Reads
  PROVE  Further(codes, bits, read) \in Reads
<1>1. /\ read.last \in Nat /\ read.next \in Nat /\ read.symbols \in Seq(Int)
      /\ read = [last |-> read.last, next |-> read.next, symbols |-> read.symbols]
  BY DEF Reads
<1>2. CASE read.last \notin DOMAIN codes \/ Spelled(codes, read.last, bits, read.next) = {}
  <2>1. Further(codes, bits, read) = [read EXCEPT !.symbols = Error]
    BY <1>2 DEF Further
  <2>2. PICK e \in Seq(Int) : e = Error
    BY ErrorType, Zenon
  <2>3. [read EXCEPT !.symbols = e] \in Reads
    BY <1>1 DEF Reads
  <2> QED BY <2>1, <2>2, <2>3
<1>3. CASE ~(read.last \notin DOMAIN codes \/ Spelled(codes, read.last, bits, read.next) = {})
  <2>1. PICK s : s = CHOOSE t \in Spelled(codes, read.last, bits, read.next) : TRUE
    OBVIOUS
  <2>2. s \in Spelled(codes, read.last, bits, read.next)
    BY <1>3, <2>1
  <2>3. s \in DOMAIN codes[read.last] /\ read.last \in DOMAIN codes
    BY <1>3, <2>2 DEF Spelled
  <2>4. s \in Nat /\ codes[read.last][s] \in Seq({0, 1})
    BY <2>3 DEF IsCodec
  <2>5. PICK n \in Nat : n = Len(codes[read.last][s])
    BY <2>4
  <2>6. PICK at \in Nat : at = read.next + n
    BY <1>1, <2>5
  <2>7. PICK more \in Seq(Int) : more = Append(read.symbols, s)
    <3>1. Append(read.symbols, s) \in Seq(Int)
      BY <1>1, <2>4, AppendProperties
    <3> QED BY <3>1
  <2>8. Further(codes, bits, read) = [last |-> s, next |-> at, symbols |-> more]
    BY <1>3, <2>1, <2>5, <2>6, <2>7 DEF Further
  <2> QED BY <2>4, <2>6, <2>7, <2>8 DEF Reads
<1> QED BY <1>2, <1>3

\* Whatever the bits, a decoder returns a sequence of integers.
LEMMA DecodeType ==
  ASSUME NEW codes, IsCodec(codes), NEW previous \in Nat, NEW bits, NEW start \in Nat,
         NEW count \in Nat \cup {-1}
  PROVE  Decode(codes, previous, bits, start, count).symbols \in Seq(Int)
<1>1. PICK limit \in Nat : limit = IF count = -1 THEN MaxSymbols ELSE count
  BY CodecAssumption
<1> DEFINE first == [last |-> previous, next |-> start, symbols |-> <<>>]
           move(read) == IF read.symbols = Error \/ (count = -1 /\ Ended(read))
                         THEN read ELSE Further(codes, bits, read)
           Is(f) == f = [k \in 0 .. limit |-> IF k = 0 THEN first ELSE move(f[k - 1])]
           after == CHOOSE f : Is(f)
<1>2. first \in Reads
  <2>1. PICK e \in Seq(Int) : e = <<>>
    <3>1. <<>> \in Seq(Int)
      OBVIOUS
    <3> QED BY <3>1, Zenon
  <2>2. [last |-> previous, next |-> start, symbols |-> e] \in Reads
    BY DEF Reads
  <2> QED BY <2>1, <2>2
<1>3. \A read \in Reads : move(read) \in Reads
  BY FurtherType
<1>12. PICK read : read = after[limit]
  OBVIOUS
<1>13. Decode(codes, previous, bits, start, count)
         = [symbols |-> IF count = -1 /\ ~Ended(read) THEN Error ELSE read.symbols,
            next |-> read.next]
  BY <1>1, <1>12 DEF Decode, after, first
<1> HIDE DEF first, move
<1>4. PICK step : step = [k \in 1 .. limit |-> [x \in Reads |-> move(x)]]
  OBVIOUS
<1>5. step \in [1 .. limit -> [Reads -> Reads]]
  <2>1. [x \in Reads |-> move(x)] \in [Reads -> Reads]
    BY <1>3
  <2> QED BY <1>4, <2>1
<1>6. PICK g \in [0 .. limit -> Reads] : Iterates(g, first, step, limit)
  BY <1>2, <1>5, Iteration
<1>7. Is(g)
  <2>1. ASSUME NEW k \in 0 .. limit PROVE g[k] = IF k = 0 THEN first ELSE move(g[k - 1])
    <3>1. CASE k = 0
      BY <1>6, <3>1 DEF Iterates
    <3>2. CASE k # 0
      <4>1. k \in 1 .. limit /\ k - 1 \in 0 .. limit
        BY <3>2
      <4>2. g[k - 1] \in Reads
        BY <4>1
      <4>3. g[k] = step[k][g[k - 1]]
        BY <1>6, <4>1 DEF Iterates
      <4>4. step[k] = [x \in Reads |-> move(x)]
        BY <1>4, <4>1
      <4>5. g[k] = move(g[k - 1])
        BY <4>2, <4>3, <4>4
      <4> QED BY <3>2, <4>5
    <3> QED BY <3>1, <3>2
  <2> QED BY <2>1
<1>8. Is(after)
  <2> HIDE DEF Is
  <2> QED BY <1>7, Zenon
<1> HIDE DEF after
<1>9. InStep(after, g, limit)
  <2>1. after[0] = g[0]
    BY <1>7, <1>8
  <2>2. ASSUME NEW k \in 1 .. limit, after[k - 1] = g[k - 1] PROVE after[k] = g[k]
    <3>1. k \in 0 .. limit /\ k # 0
      OBVIOUS
    <3>2. after[k] = move(after[k - 1]) /\ g[k] = move(g[k - 1])
      BY <1>7, <1>8, <3>1
    <3> QED BY <2>2, <3>2
  <2> QED BY <2>1, <2>2 DEF InStep
<1>10. after[limit] = g[limit]
  BY <1>9, Unrolled
<1>11. read \in Reads
  BY <1>6, <1>10, <1>12
<1>14. PICK e \in Seq(Int) : e = Error
  BY ErrorType, Zenon
<1> QED BY <1>11, <1>13, <1>14 DEF Reads

\* What is known of a record: whole bytes, and where its context was captured
\* the text it begins with.
HasText(d) ==
    \E e : Entry(trees, d.observed, e) /\ Holds(d.payload, 1, Bits(trees, d.observed, e))

Recorded(d) ==
    /\ d.text \in Seq(Nat) /\ d.observed \in Nat /\ d.payload \in Seq(Bit)
    /\ \E size \in Nat : Len(d.payload) = size * ByteBits
    /\ d.observed # End => HasText(d)

\* A record of the scene is whole bytes and holds its text.
LEMMA PayloadIs ==
  ASSUME IsCodec(trees), NEW o \in [entry : Seq(Nat), initial : Nat, spare : Nat],
         Encodable(trees, o.initial, o.entry)
  PROVE  /\ Payload(o) \in Seq(Bit) /\ Holds(Payload(o), 1, Bits(trees, o.initial, o.entry))
         /\ \E size \in Nat : Len(Payload(o)) = size * ByteBits
<1>1. PICK bits \in Seq(Bit) : bits = Bits(trees, o.initial, o.entry)
  <2>1. Bits(trees, o.initial, o.entry) \in Seq(Bit)
    BY BitsType
  <2> QED BY <2>1
<1>2. PICK size \in Nat : size = Bytes(bits) + o.spare
  BY BytesHold
<1>3. PICK total \in Nat : total = size * ByteBits
  BY CodecAssumption, Multiples
<1>4. Len(bits) <= total
  <2>1. PICK bytes \in Nat : bytes = Bytes(bits)
    BY BytesHold
  <2>2. bytes <= size
    BY <1>2, <2>1
  <2>3. bytes * ByteBits <= size * ByteBits
    BY <2>2, Multiples, CodecAssumption
  <2>4. Len(bits) <= bytes * ByteBits /\ bytes * ByteBits \in Nat
    BY <2>1, BytesHold
  <2> QED BY <1>3, <2>3, <2>4
<1>5. Payload(o) = [k \in 1 .. total |-> IF k <= Len(bits) THEN bits[k] ELSE 1]
  BY <1>1, <1>2, <1>3 DEF Payload
<1>6. PICK p : p = [k \in 1 .. total |-> IF k <= Len(bits) THEN bits[k] ELSE 1]
  OBVIOUS
<1>7. \A k \in 1 .. total : p[k] \in Bit /\ (k <= Len(bits) => p[k] = bits[k])
  <2>1. \A k \in 1 .. Len(bits) : bits[k] \in Bit
    OBVIOUS
  <2> QED BY <1>6, <2>1 DEF Bit
<1>8. p \in Seq(Bit) /\ Len(p) = total
  BY <1>6, <1>7
<1>9. Holds(p, 1, bits)
  <2>1. \A i \in 1 .. Len(bits) : p[1 + i - 1] = bits[i]
    BY <1>4, <1>7
  <2> QED BY <1>4, <1>8, <2>1 DEF Holds
<1> QED BY <1>1, <1>3, <1>5, <1>6, <1>8, <1>9

\* A text that ends once ends there only.
LEMMA OneEnd ==
  ASSUME NEW e \in Seq(Nat), Terminated(e)
  PROVE  Cardinality({k \in DOMAIN e : e[k] = End}) = 1 /\ Last(e) = End /\ e # <<>>
<1>1. DOMAIN e = 1 .. Len(e) /\ e # <<>>
  BY DEF Terminated
<1>2. Len(e) \in 1 .. Len(e)
  BY <1>1, EmptySeq
<1>3. {k \in DOMAIN e : e[k] = End} = {Len(e)}
  BY <1>1, <1>2 DEF Terminated
<1>4. Last(e) = End
  BY <1>2 DEF Last, Terminated
<1> QED BY <1>1, <1>3, <1>4, FS_Singleton

Readable(d) == {c \in DOMAIN ContextCandidates(d) : ReadsBack(d, ContextCandidates(d)[c])}

\* The captured context reads the record back.
LEMMA ObservedReads ==
  ASSUME IsCodec(trees), NEW d, Recorded(d), d.observed # End
  PROVE  ReadsBack(d, d.observed)
<1>1. PICK e : Entry(trees, d.observed, e) /\ Holds(d.payload, 1, Bits(trees, d.observed, e))
  BY DEF Recorded, HasText
<1>2. /\ e \in Seq(Nat) /\ Encodable(trees, d.observed, e) /\ Terminated(e) /\ Len(e) <= MaxSymbols
      /\ d.payload \in Seq(Bit)
  BY <1>1 DEF Entry, Recorded
<1>3. PICK bits \in Seq(Bit) : bits = Bits(trees, d.observed, e)
  <2>1. Bits(trees, d.observed, e) \in Seq(Bit)
    BY <1>2, BitsType
  <2> QED BY <2>1
<1>4. PICK n \in Nat : n = Length(trees, d.observed, e) /\ n = Len(bits)
  BY <1>3 DEF Length
<1>5. DecodeSymbols(trees, d.payload, d.observed) = [symbols |-> e, next |-> 1 + n]
  <2>1. PICK start \in Nat \ {0} : start = 1
    OBVIOUS
  <2>2. Decode(trees, d.observed, d.payload, start, -1)
          = [symbols |-> e, next |-> start + Length(trees, d.observed, e)]
    BY <1>1, <1>2, <2>1, EntryReads
  <2> QED BY <1>4, <2>1, <2>2 DEF DecodeSymbols
<1>6. PICK decoded : decoded = DecodeSymbols(trees, d.payload, d.observed)
  OBVIOUS
<1>7. decoded.symbols = e /\ decoded.next = 1 + n
  BY <1>5, <1>6
<1>8. n <= Len(d.payload) /\ \A i \in 1 .. n : d.payload[i] = bits[i]
  BY <1>1, <1>2, <1>3, <1>4 DEF Holds
<1>9. SubSeq(d.payload, 1, decoded.next - 1) = bits
  <2>1. PICK payload \in Seq(Bit) : payload = d.payload
    BY <1>2
  <2>2. decoded.next - 1 = n
    BY <1>7
  <2>3. SubSeq(payload, 1, n) \in Seq(Bit) /\ Len(SubSeq(payload, 1, n)) = n
        /\ \A i \in 1 .. n : SubSeq(payload, 1, n)[i] = payload[i]
    BY <1>8, <2>1
  <2> QED BY <1>3, <1>4, <1>8, <2>1, <2>2, <2>3, SeqEqual
<1>10. EncodeSymbols(trees, e, d.observed, Len(d.payload)) = bits
  BY <1>2, <1>3, <1>4, <1>8, OneEnd DEF EncodeSymbols
<1>11. e # Error
  BY <1>2, NoTextIsError
<1> QED BY <1>2, <1>6, <1>7, <1>9, <1>10, <1>11, OneEnd DEF ReadsBack

\* So the context of the constraints is the one that was captured.
LEMMA ContextIsObserved ==
  ASSUME IsCodec(trees), NEW d, Recorded(d), Readable(d) # {}
  PROVE  ContextCandidates(d)[Min(Readable(d))] = d.observed
<1>1. PICK candidates : candidates = ContextCandidates(d)
  OBVIOUS
<1>2. CASE d.observed = End
  <2>1. candidates = <<End>>
    BY <1>1, <1>2 DEF ContextCandidates
  <2>2. DOMAIN candidates = {1} /\ candidates[1] = End
    BY <2>1
  <2>3. Readable(d) = {1}
    BY <1>1, <2>2 DEF Readable
  <2>4. Min(Readable(d)) = 1
    BY <2>3, MinIsIn
  <2> QED BY <1>1, <1>2, <2>2, <2>4
<1>3. CASE d.observed # End
  <2>1. candidates = <<d.observed, End>>
    BY <1>1, <1>3 DEF ContextCandidates
  <2>2. DOMAIN candidates = {1, 2} /\ candidates[1] = d.observed
    BY <2>1
  <2>3. 1 \in Readable(d) /\ Readable(d) \in SUBSET {1, 2}
    BY <1>1, <1>3, <2>2, ObservedReads DEF Readable
  <2>4. PICK m : m = Min(Readable(d))
    OBVIOUS
  <2>5. m = 1
    <3>1. m = CHOOSE x \in Readable(d) : \A y \in Readable(d) : x <= y
      BY <2>4 DEF Min
    <3>2. \E x \in Readable(d) : \A y \in Readable(d) : x <= y
      BY <2>3
    <3>3. m \in Readable(d) /\ \A y \in Readable(d) : m <= y
      BY <3>1, <3>2
    <3> QED BY <2>3, <3>3
  <2> QED BY <1>1, <2>2, <2>4, <2>5
<1> QED BY <1>2, <1>3

\* What the constraints say of a record.
Limited(d, l) ==
    /\ l.initial = d.observed /\ l.capacity = Len(d.payload)
    /\ l.count = Len(DecodeSymbols(trees, d.payload, d.observed).symbols)
    /\ l.capacity \in Nat /\ l.count \in Nat

\* The constraint built for a record says what it decodes to.
LEMMA ConstraintIs ==
  ASSUME IsCodec(trees), NEW d, Recorded(d), Readable(d) # {}
  PROVE  Limited(d, ConstraintOf(d, ContextCandidates(d)[Min(Readable(d))]))
<1>1. ContextCandidates(d)[Min(Readable(d))] = d.observed
  BY ContextIsObserved
<1>2. d.observed \in Nat /\ d.payload \in Seq(Bit)
  BY DEF Recorded
<1>3. PICK symbols \in Seq(Int) : symbols = DecodeSymbols(trees, d.payload, d.observed).symbols
  <2>1. DecodeSymbols(trees, d.payload, d.observed).symbols \in Seq(Int)
    BY <1>2, DecodeType DEF DecodeSymbols
  <2> QED BY <2>1
<1>4. PICK n \in Nat : n = Len(symbols)
  OBVIOUS
<1>5. PICK l : l = ConstraintOf(d, d.observed)
  OBVIOUS
<1>6. l.initial = d.observed /\ l.capacity = Len(d.payload) /\ l.count = n
  BY <1>3, <1>4, <1>5 DEF ConstraintOf
<1> QED BY <1>1, <1>2, <1>3, <1>4, <1>5, <1>6 DEF Limited

-----------------------------------------------------------------------------
(* What the lines are                                                       *)

\* A set of numbers has a least one.
LEMMA LeastOf == ASSUME NEW S \in SUBSET Nat, S # {} PROVE \E k \in S : \A j \in S : k <= j
<1>1. \E k \in S : \A j \in S : ~(<<j, k>> \in OpToRel(<, Nat))
  BY NatLessThanWellFounded, WFMin, Zenon
<1>2. PICK k \in S : \A j \in S : ~(j < k)
  BY <1>1 DEF OpToRel
<1>3. \A j \in S : k <= j
  BY <1>2
<1> QED BY <1>3

\* Finitely many numbers have a bound.
LEMMA BoundOf ==
  ASSUME NEW n \in Nat, NEW f \in [1 .. n -> Nat]
  PROVE  \E b \in Nat : \A j \in 1 .. n : f[j] <= b
<1> DEFINE Known == {k \in 0 .. n : \E b \in Nat : \A j \in 1 .. k : f[j] <= b}
<1>1. 0 \in Known
  OBVIOUS
<1>2. ASSUME NEW k \in 1 .. n, k - 1 \in Known PROVE k \in Known
  <2>1. PICK b \in Nat : \A j \in 1 .. k - 1 : f[j] <= b
    BY <1>2
  <2>2. PICK c \in Nat : b <= c /\ f[k] <= c
    <3>1. f[k] \in Nat
      OBVIOUS
    <3>2. b <= b + f[k] /\ f[k] <= b + f[k] /\ b + f[k] \in Nat
      BY <3>1
    <3> QED BY <3>2
  <2>3. \A j \in 1 .. k : f[j] <= c
    <3>1. ASSUME NEW j \in 1 .. k PROVE f[j] <= c
      <4>1. j \in 1 .. k - 1 \/ j = k
        OBVIOUS
      <4>2. f[j] \in Nat
        OBVIOUS
      <4> QED BY <2>1, <2>2, <4>1, <4>2
    <3> QED BY <3>1
  <2> QED BY <2>3
<1> HIDE DEF Known
<1>3. 0 .. n \subseteq Known
  BY <1>1, <1>2, InductionUpTo
<1>4. n \in Known
  BY <1>3
<1> QED BY <1>4 DEF Known

\* Nearest, then longest, then first.
AtLeastAsGood(d, len, v, w) ==
    d[v] < d[w] \/ (d[v] = d[w] /\ (len[v] > len[w] \/ (len[v] = len[w] /\ v <= w)))

\* Among finitely many variants one is best.
LEMMA BestExists ==
  ASSUME NEW n \in Nat, NEW E \in SUBSET (1 .. n), E # {}, NEW d \in [1 .. n -> Nat],
         NEW len \in [1 .. n -> Nat]
  PROVE  \E v \in E : \A w \in E : AtLeastAsGood(d, len, v, w)
<1>1. PICK b \in Nat : \A j \in 1 .. n : len[j] <= b
  BY BoundOf
<1>20. E \subseteq Nat
  OBVIOUS
<1>2. PICK v1 \in E : \A w \in E : d[v1] <= d[w]
  <2>1. PICK S : S = {d[w] : w \in E}
    OBVIOUS
  <2>2. S \in SUBSET Nat /\ S # {}
    BY <2>1
  <2>3. PICK k \in S : \A j \in S : k <= j
    BY <2>2, LeastOf
  <2> QED BY <2>1, <2>3
<1>3. PICK E2 : E2 = {w \in E : d[w] = d[v1]}
  OBVIOUS
<1>4. PICK v2 \in E2 : \A w \in E2 : len[w] <= len[v2]
  <2>1. PICK S : S = {b - len[w] : w \in E2}
    OBVIOUS
  <2>2. S \in SUBSET Nat /\ S # {}
    BY <1>1, <1>2, <1>3, <2>1
  <2>3. PICK k \in S : \A j \in S : k <= j
    BY <2>2, LeastOf
  <2>4. PICK v \in E2 : k = b - len[v]
    BY <2>1, <2>3
  <2>5. ASSUME NEW w \in E2 PROVE len[w] <= len[v]
    <3>1. len[w] \in Nat /\ len[v] \in Nat
      BY <1>3
    <3>2. b - len[v] <= b - len[w]
      BY <2>1, <2>3, <2>4
    <3> QED BY <3>1, <3>2
  <2> QED BY <2>5
<1>5. PICK E3 : E3 = {w \in E2 : len[w] = len[v2]}
  OBVIOUS
<1>6. PICK v \in E3 : \A w \in E3 : v <= w
  <2>1. E3 \in SUBSET Nat /\ E3 # {}
    <3>1. v2 \in E3
      BY <1>4, <1>5
    <3>2. E3 \subseteq E
      BY <1>3, <1>5
    <3> QED BY <1>20, <3>1, <3>2
  <2> QED BY <2>1, LeastOf
<1>7. v \in E2 /\ v \in E /\ len[v] = len[v2] /\ d[v] = d[v1]
  BY <1>3, <1>5, <1>6
<1>8. ASSUME NEW w \in E PROVE AtLeastAsGood(d, len, v, w)
  <2>1. d[w] \in Nat /\ len[w] \in Nat /\ d[v] \in Nat /\ len[v] \in Nat /\ d[v] <= d[w]
    BY <1>2, <1>7
  <2>2. CASE d[v] < d[w]
    BY <2>2 DEF AtLeastAsGood
  <2>3. CASE d[v] = d[w]
    <3>1. w \in E2
      BY <1>3, <1>7, <2>3
    <3>2. len[w] <= len[v]
      BY <1>4, <1>7, <3>1
    <3>3. CASE len[w] < len[v]
      BY <2>1, <2>3, <3>3 DEF AtLeastAsGood
    <3>4. CASE len[w] = len[v]
      <4>1. w \in E3
        BY <1>5, <1>7, <3>1, <3>4
      <4> QED BY <1>6, <2>3, <3>4, <4>1 DEF AtLeastAsGood
    <3> QED BY <2>1, <3>2, <3>3, <3>4
  <2> QED BY <2>1, <2>2, <2>3
<1> QED BY <1>7, <1>8

\* What a line consists of: the syllables and signs of the text, and the "!"
\* the tool may put behind it.
Signs == Nat \cup {Bang}

\* Leaving characters out leaves characters.
LEMMA WithoutType ==
  ASSUME NEW text \in Seq(Signs), NEW dropped
  PROVE  Without(text, dropped) \in Seq(Signs)
<1>1. PICK ss : ss = [k \in DOMAIN text |-> IF text[k] \in dropped THEN <<>> ELSE <<text[k]>>]
  OBVIOUS
<1>2. ASSUME NEW k \in 1 .. Len(text) PROVE ss[k] \in Seq(Signs)
  <2>1. text[k] \in Signs /\ <<text[k]>> \in Seq(Signs) /\ <<>> \in Seq(Signs)
    OBVIOUS
  <2>2. ss[k] = IF text[k] \in dropped THEN <<>> ELSE <<text[k]>>
    BY <1>1
  <2> QED BY <2>1, <2>2
<1>3. ss \in Seq(Seq(Signs))
  <2>1. ss = [k \in 1 .. Len(text) |-> ss[k]]
    BY <1>1
  <2> QED BY <1>2, <2>1
<1> QED BY <1>1, <1>3, FlattenType DEF Without

\* So does leaving out the last.
LEMMA FrontType ==
  ASSUME NEW S, NEW s \in Seq(S)
  PROVE  Front(s) \in Seq(S)
BY DEF Front

\* So does choosing a clause.
LEMMA ClauseType ==
  ASSUME NEW text \in Seq(Signs)
  PROVE  Clause(text) \in Seq(Signs)
<1>1. CASE Contains(text, Comma)
  <2>1. PICK S : S = {i \in 1 .. Len(text) : text[i] = Comma}
    OBVIOUS
  <2>2. S \in SUBSET Nat /\ S # {}
    BY <1>1, <2>1 DEF Contains
  <2>3. PICK i \in S : \A j \in S : i <= j
    BY <2>2, LeastOf
  <2>4. i \in DOMAIN text /\ text[i] = Comma /\ \A j \in 1 .. i - 1 : text[j] # Comma
    BY <2>1, <2>3
  <2>5. PICK first : first = CHOOSE k \in DOMAIN text : /\ text[k] = Comma
                                                        /\ \A j \in 1 .. k - 1 : text[j] # Comma
    OBVIOUS
  <2>6. first \in DOMAIN text
    BY <2>4, <2>5
  <2>7. PICK part : part = SubSeq(text, 1, first - 1)
    OBVIOUS
  <2>8. part \in Seq(Signs)
    BY <2>6, <2>7
  <2>9. Clause(text) = Without(part, {Space, Comma})
    BY <1>1, <2>5, <2>7 DEF Clause
  <2> QED BY <2>8, <2>9, WithoutType
<1>2. CASE ~Contains(text, Comma)
  <2>1. Clause(text) = Without(text, {Space, Comma})
    BY <1>2 DEF Clause
  <2> QED BY <2>1, WithoutType
<1> QED BY <1>1, <1>2

\* The variants of a line are lines.
LEMMA VariantsType ==
  ASSUME NEW text \in Seq(Signs)
  PROVE  Variants(text) \in Seq(Seq(Signs))
<1>1. PICK T : T = Seq(Signs)
  OBVIOUS
<1>2. PICK a \in T : a = Without(text, {Space, Comma, Bang})
  BY <1>1, WithoutType
<1>3. PICK b \in T : b = Without(text, {Space})
  BY <1>1, WithoutType
<1>4. PICK c \in T : c = Front(b)
  BY <1>1, <1>3, FrontType
<1>5. PICK d \in T : d = Front(text)
  BY <1>1, FrontType
<1>6. Variants(text) = <<a, b>> \o (IF EndsInBang(text) THEN <<c, d>> ELSE <<>>)
  BY <1>2, <1>3, <1>4, <1>5 DEF Variants
<1>7. <<a, b>> \in Seq(T) /\ <<c, d>> \in Seq(T) /\ <<>> \in Seq(T)
  OBVIOUS
<1>8. <<a, b>> \o <<c, d>> \in Seq(T) /\ <<a, b>> \o <<>> \in Seq(T)
  BY <1>7, ConcatProperties
<1> QED BY <1>1, <1>6, <1>8

\* So are the candidates of the compact layout.
LEMMA CandidatesType ==
  ASSUME NEW text \in Seq(Signs), NEW count \in Nat
  PROVE  ProofCandidates(text, count) \in Seq(Seq(Signs))
<1>1. PICK T : T = Seq(Signs)
  OBVIOUS
<1> DEFINE visible(k) == count - 1 - 3 * k
           bang == Append(Clause(text), Bang)
           one(k) == IF visible(k) <= 0 THEN <<>>
                     ELSE (IF EndsInBang(text) /\ Len(bang) = visible(k) THEN <<bang>> ELSE <<>>)
                          \o (IF Len(Base(text)) >= visible(k)
                              THEN <<SubSeq(Base(text), 1, visible(k))>> ELSE <<>>)
<1>2. bang \in T
  <2>1. Clause(text) \in Seq(Signs) /\ Bang \in Signs
    BY ClauseType DEF Signs
  <2> QED BY <1>1, <2>1
<1>3. PICK base \in Seq(Signs) : base = Base(text)
  BY WithoutType DEF Base
<1>4. ASSUME NEW k \in 1 .. MaxTokens PROVE one(k) \in Seq(T)
  <2>1. PICK n \in Int : n = visible(k)
    BY LayoutAssumption
  <2>2. CASE n <= 0
    <3>1. one(k) = <<>>
      BY <2>1, <2>2
    <3>2. <<>> \in Seq(T)
      OBVIOUS
    <3> QED BY <3>1, <3>2, Zenon
  <2>3. CASE n > 0
    <3>1. PICK x : x = IF EndsInBang(text) /\ Len(bang) = n THEN <<bang>> ELSE <<>>
      OBVIOUS
    <3>2. PICK y : y = IF Len(base) >= n THEN <<SubSeq(base, 1, n)>> ELSE <<>>
      OBVIOUS
    <3>3. one(k) = x \o y
      BY <1>3, <2>1, <2>3, <3>1, <3>2
    <3>4. <<bang>> \in Seq(T) /\ <<>> \in Seq(T)
      <4> HIDE DEF bang
      <4> QED BY <1>2
    <3>5. x \in Seq(T)
      BY <3>1, <3>4, Zenon
    <3>6. Len(base) >= n => SubSeq(base, 1, n) \in T
      BY <1>1, <2>3
    <3>7. Len(base) >= n => <<SubSeq(base, 1, n)>> \in Seq(T)
      BY <3>6
    <3>8. y \in Seq(T)
      BY <3>2, <3>4, <3>7, Zenon
    <3>9. x \o y \in Seq(T)
      BY <3>5, <3>8, ConcatProperties
    <3> QED BY <3>3, <3>9, Zenon
  <2> QED BY <2>2, <2>3
<1>5. PICK ss : ss = [k \in 1 .. MaxTokens |-> one(k)]
  OBVIOUS
<1>6. ProofCandidates(text, count) = FlattenSeq(ss)
  BY <1>5 DEF ProofCandidates
<1> HIDE DEF one
<1>7. ss \in Seq(Seq(T))
  BY <1>4, <1>5, LayoutAssumption
<1> QED BY <1>1, <1>6, <1>7, FlattenType

\* The variant chosen is one of them.
LEMMA BestIsEligible ==
  ASSUME NEW text \in Seq(Signs), NEW count \in Nat, NEW preferred \in Nat,
         Eligible(text, count) # {}
  PROVE  BestVariant(text, count, preferred) \in DOMAIN Variants(text)
<1>1. PICK T : T = Seq(Signs)
  OBVIOUS
<1>2. PICK all \in Seq(T) : all = Variants(text)
  BY <1>1, VariantsType
<1>3. PICK n \in Nat : n = Len(all)
  OBVIOUS
<1>4. PICK E : E = Eligible(text, count)
  OBVIOUS
<1>5. E \in SUBSET (1 .. n)
  BY <1>2, <1>3, <1>4 DEF Eligible
<1>6. \A v \in 1 .. n : all[v] \in Seq(Signs) /\ Len(all[v]) \in Nat
  BY <1>1, <1>3
<1>7. PICK len : len = [v \in 1 .. n |-> Len(all[v])]
  OBVIOUS
<1>8. len \in [1 .. n -> Nat]
  BY <1>6, <1>7
<1>9. PICK d : d = [v \in 1 .. n |-> Distance(text, count, v, preferred)]
  OBVIOUS
<1>10. ASSUME NEW v \in 1 .. n PROVE Distance(text, count, v, preferred) \in Nat
  <2>1. PICK m \in Nat : m = Len(all[v])
    BY <1>6
  <2>2. PICK c \in Int : c = count - m - 1
    OBVIOUS
  <2>3. PICK q \in Int : q = (c \div 3) - preferred
    OBVIOUS
  <2>4. Distance(text, count, v, preferred) = IF q < 0 THEN -q ELSE q
    BY <1>2, <2>1, <2>2, <2>3 DEF Distance, Tokens, ControlSymbols
  <2> QED BY <2>4
<1>11. d \in [1 .. n -> Nat]
  BY <1>9, <1>10
<1>12. PICK v \in E : \A w \in E : AtLeastAsGood(d, len, v, w)
  BY <1>4, <1>5, <1>8, <1>11, BestExists
<1>13. ASSUME NEW x \in E, NEW w \in E
       PROVE  AtLeastAsGood(d, len, x, w) =
                LET dv == Distance(text, count, x, preferred)
                    dw == Distance(text, count, w, preferred)
                    nv == Len(Variants(text)[x])
                    nw == Len(Variants(text)[w])
                IN  dv < dw \/ (dv = dw /\ (nv > nw \/ (nv = nw /\ x <= w)))
  <2>1. /\ d[x] = Distance(text, count, x, preferred) /\ d[w] = Distance(text, count, w, preferred)
        /\ len[x] = Len(all[x]) /\ len[w] = Len(all[w])
    BY <1>5, <1>7, <1>9
  <2> QED BY <1>2, <2>1, Zenon DEF AtLeastAsGood
<1>14. PICK best : best = BestVariant(text, count, preferred)
  OBVIOUS
<1>15. best \in E
  <2> DEFINE Good(x) == \A w \in E :
                LET dv == Distance(text, count, x, preferred)
                    dw == Distance(text, count, w, preferred)
                    nv == Len(Variants(text)[x])
                    nw == Len(Variants(text)[w])
                IN  dv < dw \/ (dv = dw /\ (nv > nw \/ (nv = nw /\ x <= w)))
  <2>1. best = CHOOSE x \in E : Good(x)
    BY <1>4, <1>14, Zenon DEF BestVariant
  <2>2. Good(v)
    BY <1>12, <1>13
  <2> HIDE DEF Good
  <2> QED BY <2>1, <2>2
<1> QED BY <1>2, <1>3, <1>5, <1>14, <1>15

\* Whatever the tool lays out is a line of signs.
LEMMA LayoutText ==
  ASSUME NEW text \in Seq(Nat), NEW count \in Nat, NEW compact \in BOOLEAN
  PROVE  LayoutRow(text, count, compact).text \in Seq(Signs)
<1>1. text \in Seq(Signs)
  BY DEF Signs
<1>2. PICK r : r = LayoutRow(text, count, compact)
  OBVIOUS
<1>3. CASE ~compact /\ Fits(count, text)
  <2>1. r.text = text
    BY <1>2, <1>3 DEF LayoutRow
  <2> QED BY <1>1, <1>2, <2>1
<1>4. CASE ~(~compact /\ Fits(count, text)) /\ Eligible(text, count) # {}
  <2>1. PICK preferred \in Nat : preferred = IF compact THEN 3 ELSE 1
    OBVIOUS
  <2>2. PICK best : best = BestVariant(text, count, preferred)
    OBVIOUS
  <2>3. best \in DOMAIN Variants(text)
    BY <1>1, <1>4, <2>2, BestIsEligible
  <2>4. PICK T : T = Seq(Signs)
    OBVIOUS
  <2>5. PICK all \in Seq(T) : all = Variants(text)
    BY <1>1, <2>4, VariantsType
  <2>6. all[best] \in T
    BY <2>3, <2>5
  <2>7. r.text = all[best]
    BY <1>2, <1>4, <2>1, <2>2, <2>5 DEF LayoutRow
  <2> QED BY <1>2, <2>4, <2>6, <2>7
<1>5. CASE /\ ~(~compact /\ Fits(count, text)) /\ Eligible(text, count) = {}
           /\ ProofCandidates(text, count) # <<>>
  <2>1. PICK T : T = Seq(Signs)
    OBVIOUS
  <2>2. PICK all \in Seq(T) : all = ProofCandidates(text, count)
    BY <1>1, <2>1, CandidatesType
  <2>3. 1 \in 1 .. Len(all)
    BY <1>5, <2>2, EmptySeq
  <2>4. r.text = all[1]
    BY <1>2, <1>5, <2>2 DEF LayoutRow
  <2> QED BY <1>2, <2>1, <2>3, <2>4
<1>6. CASE /\ ~(~compact /\ Fits(count, text)) /\ Eligible(text, count) = {}
           /\ ProofCandidates(text, count) = <<>>
  <2>1. r = Refused
    BY <1>2, <1>6 DEF LayoutRow
  <2>2. r.text = <<>> /\ <<>> \in Seq(Signs)
    BY <2>1 DEF Refused
  <2> QED BY <1>2, <2>2
<1> QED BY <1>3, <1>4, <1>5, <1>6

-----------------------------------------------------------------------------
(* What the built rows are                                                  *)

\* A padded line has its length, and blanks behind the text.
LEMMA PaddedIs ==
  ASSUME NEW S, NEW text \in Seq(S), NEW n \in Nat, Len(text) <= n, NEW w, w = Padded(text, n)
  PROVE  /\ Len(w) = n /\ DOMAIN w = 1 .. n /\ w = [i \in 1 .. n |-> w[i]]
         /\ \A i \in 1 .. n : i > Len(text) => w[i] = Blank
<1>1. PICK T : T = S \cup {Blank}
  OBVIOUS
<1>2. text \in Seq(T)
  BY <1>1
<1>3. PICK m \in Nat : m = n - Len(text)
  OBVIOUS
<1>4. PICK blanks : blanks = [k \in 1 .. m |-> Blank]
  OBVIOUS
<1>5. blanks \in Seq(T) /\ Len(blanks) = m /\ \A k \in 1 .. m : blanks[k] = Blank
  BY <1>1, <1>4
<1>6. w = text \o blanks
  BY <1>3, <1>4 DEF Padded
<1>7. PICK v : v = text \o blanks
  OBVIOUS
<1>8. /\ v \in Seq(T) /\ Len(v) = Len(text) + m
      /\ \A i \in 1 .. Len(text) + m :
            v[i] = IF i <= Len(text) THEN text[i] ELSE blanks[i - Len(text)]
  BY <1>2, <1>5, <1>7, ConcatProperties
<1>9. Len(text) + m = n
  BY <1>3
<1>10. ASSUME NEW i \in 1 .. n, i > Len(text) PROVE v[i] = Blank
  <2>1. i - Len(text) \in 1 .. m
    BY <1>3, <1>10
  <2> QED BY <1>5, <1>8, <1>9, <1>10, <2>1
<1>11. DOMAIN v = 1 .. n /\ v = [i \in 1 .. n |-> v[i]]
  BY <1>8, <1>9
<1> QED BY <1>6, <1>7, <1>8, <1>9, <1>10, <1>11

\* What the screen is to show of a row: its line, and blanks.
Drawing(k, r) ==
    /\ r.slots \in Seq(pages[k] \X Places) /\ Len(lines[k].text) <= Len(r.slots)
    /\ r.visuals = Padded(lines[k].text, Len(r.slots)) /\ Agreeing(r.visuals, r.slots)
    /\ IF IsWay(k, "direct") THEN Mapped(DirectMap.page, DirectMap.map, r.symbols, r.slots)
                             ELSE Drawn(r.symbols) = r.slots

\* What the record is to hold of it: as many symbols as it had.
Filling(k, r) ==
    ~IsWay(k, "proven") =>
        /\ r.symbols \in Seq(Nat) /\ Len(r.symbols) = limits[k].count
        /\ Within(limits[k].initial, r.symbols, limits[k].capacity)

\* What a row rests on when it is built.
Ready(k) ==
    /\ limits[k].capacity \in Nat /\ limits[k].count \in Nat /\ lines[k].text \in Seq(Signs)
    /\ pages[k] \in SUBSET Pages
    /\ IsWay(k, "direct") => /\ capture \in Captures /\ DirectMap # NoMap
                             /\ pages[k] = {DirectMap.page}

\* Slots that differ, or differ as far as there is text, bear one visual each.
LEMMA DifferentAgree ==
  ASSUME NEW visuals, NEW slots, Different(slots) PROVE Agreeing(visuals, slots)
BY DEF Different, Agreeing

\* And slots that are apart as far as there is text bear one visual each.
LEMMA ApartAgree ==
  ASSUME NEW S, NEW text \in Seq(S), NEW T, NEW slots \in Seq(T), Apart(Len(text), slots),
         NEW visuals, visuals = Padded(text, Len(slots))
  PROVE  Agreeing(visuals, slots) /\ Len(text) <= Len(slots)
<1>1. PICK n \in Nat : n = Len(slots)
  OBVIOUS
<1>2. PICK m \in Nat : m = Len(text)
  OBVIOUS
<1>3. m <= n /\ \A i \in 1 .. m, j \in 1 .. n : slots[i] = slots[j] => i = j
  BY <1>1, <1>2 DEF Apart
<1>4. \A i \in 1 .. n : i > m => visuals[i] = Blank
  BY <1>1, <1>2, <1>3, PaddedIs
<1>5. ASSUME NEW i \in 1 .. n, NEW j \in 1 .. n, slots[i] = slots[j] PROVE visuals[i] = visuals[j]
  <2>1. CASE i \in 1 .. m
    <3>1. i = j
      BY <1>3, <1>5, <2>1
    <3> QED BY <3>1
  <2>2. CASE j \in 1 .. m
    <3>1. i = j
      BY <1>3, <1>5, <2>2
    <3> QED BY <3>1
  <2>3. CASE i > m /\ j > m
    BY <1>4, <2>3
  <2> QED BY <2>1, <2>2, <2>3
<1> QED BY <1>1, <1>2, <1>3, <1>5 DEF Agreeing

\* Slots on some pages are slots on more pages.
LEMMA WidenSlots ==
  ASSUME NEW A, NEW B, A \subseteq B, NEW slots \in Seq(A \X Glyphs)
  PROVE  slots \in Seq(B \X Places)
<1>1. PICK T : T = A \X Glyphs
  OBVIOUS
<1>2. PICK U : U = B \X Places
  OBVIOUS
<1>3. T \subseteq U
  BY <1>1, <1>2 DEF Places
<1>4. PICK s \in Seq(T) : s = slots
  BY <1>1
<1>5. s \in Seq(U)
  <2>1. \A i \in 1 .. Len(s) : s[i] \in U
    BY <1>3
  <2> QED BY <2>1
<1> QED BY <1>2, <1>4, <1>5

\* A row is good when it shows its line and fills its record.
Good(k, r) == Drawing(k, r) /\ Filling(k, r)

\* Rows of the direct way are good.
LEMMA DirectIsGood ==
  ASSUME NEW k, Ready(k), IsWay(k, "direct"), NEW r \in Built(k)
  PROVE  Good(k, r)
<1>1. /\ limits[k].capacity \in Nat /\ limits[k].count \in Nat /\ lines[k].text \in Seq(Signs)
      /\ capture \in Captures /\ DirectMap # NoMap /\ pages[k] = {DirectMap.page}
  BY DEF Ready
<1>2. PICK page : page = DirectMap.page
  OBVIOUS
<1>3. PICK map : map = DirectMap.map
  OBVIOUS
<1>4. page \in Pages /\ Placing(map)
  <2>1. TrueMap(capture, DirectMap)
    BY <1>1, InferredMap DEF DirectMap
  <2>2. capture.page \in Pages
    BY <1>1, CapturesAssumption
  <2> QED BY <1>2, <1>3, <2>1, <2>2, KnownPlaces DEF TrueMap
<1>5. PICK text \in Seq(Signs) : text = lines[k].text
  BY <1>1
<1>6. PICK n \in Nat : n = limits[k].count
  BY <1>1
<1>7. limits[k].count + ExtraSymbols = n
  BY <1>6, ExtraAssumption
<1>8. PICK visuals : visuals = Padded(text, n - 1)
  OBVIOUS
<1>9. /\ Len(text) <= n - 1
      /\ \E q \in SolveDirectRow(limits[k].initial, limits[k].capacity, visuals, page, map) :
            r = [symbols |-> q.symbols, slots |-> q.slots, visuals |-> visuals, count |-> n]
  BY <1>2, <1>3, <1>5, <1>7, <1>8 DEF Built
<1>10. PICK q \in SolveDirectRow(limits[k].initial, limits[k].capacity, visuals, page, map) :
          r = [symbols |-> q.symbols, slots |-> q.slots, visuals |-> visuals, count |-> n]
  BY <1>9
<1>11. PICK m \in Nat : m = n - 1 /\ Len(text) <= m
  BY <1>9
<1>12. Len(visuals) = m
  BY <1>8, <1>11, PaddedIs
<1>13. Direct(limits[k].capacity, limits[k].initial, visuals, page, map, q)
  BY <1>4, <1>12, DirectRow
<1>14. r.symbols = q.symbols /\ r.slots = q.slots /\ r.visuals = visuals
  BY <1>10
<1>15. Drawing(k, r)
  <2>1. r.visuals = Padded(lines[k].text, Len(r.slots)) /\ Len(lines[k].text) <= Len(r.slots)
    BY <1>5, <1>8, <1>11, <1>12, <1>13, <1>14 DEF Direct
  <2>2. r.slots \in Seq(pages[k] \X Places)
    BY <1>1, <1>2, <1>13, <1>14 DEF Direct
  <2>3. Agreeing(r.visuals, r.slots)
    BY <1>13, <1>14 DEF Direct
  <2>4. Mapped(DirectMap.page, DirectMap.map, r.symbols, r.slots)
    BY <1>2, <1>3, <1>13, <1>14 DEF Direct
  <2> QED BY <2>1, <2>2, <2>3, <2>4 DEF Drawing
<1>16. Filling(k, r)
  <2>1. Len(r.symbols) = limits[k].count
    BY <1>6, <1>11, <1>12, <1>13, <1>14 DEF Direct
  <2> QED BY <1>13, <1>14, <2>1 DEF Direct, Filling
<1> QED BY <1>15, <1>16 DEF Good

\* A row with the visuals of its slots, from what its search promises.
Visible(k, q, r) ==
    /\ r.symbols = q.symbols /\ r.slots = q.slots
    /\ r.visuals = Padded(lines[k].text, Len(q.slots))

\* So are rows whose slots are all different ...
LEMMA ShownIsDrawing ==
  ASSUME NEW k, ~IsWay(k, "direct"), lines[k].text \in Seq(Signs), NEW group, group \subseteq pages[k],
         NEW q, NEW r, Visible(k, q, r), Shown(group, Len(lines[k].text), q)
  PROVE  Drawing(k, r)
<1>1. /\ q.slots \in Seq(group \X Glyphs) /\ Len(q.slots) = Len(lines[k].text)
      /\ Different(q.slots) /\ Drawn(q.symbols) = q.slots
  BY DEF Shown
<1>2. q.slots \in Seq(pages[k] \X Places)
  BY <1>1, WidenSlots
<1>3. Agreeing(r.visuals, q.slots)
  BY <1>1, DifferentAgree
<1>4. Len(lines[k].text) \in Nat
  OBVIOUS
<1> QED BY <1>1, <1>2, <1>3, <1>4 DEF Drawing, Visible

\* ... and the first row of the proven way.
LEMMA BeheldIsDrawing ==
  ASSUME NEW k, ~IsWay(k, "direct"), lines[k].text \in Seq(Signs), NEW page, page \in pages[k],
         NEW q, NEW r, Visible(k, q, r), Behold(page, Len(lines[k].text), q)
  PROVE  Drawing(k, r)
<1>1. /\ q.slots \in Seq({page} \X Glyphs) /\ Apart(Len(lines[k].text), q.slots)
      /\ Drawn(q.symbols) = q.slots
  BY DEF Behold
<1>2. {page} \subseteq pages[k]
  OBVIOUS
<1>3. q.slots \in Seq(pages[k] \X Places)
  BY <1>1, <1>2, WidenSlots
<1>4. PICK T : T = {page} \X Glyphs
  OBVIOUS
<1>5. PICK slots \in Seq(T) : slots = q.slots
  BY <1>1, <1>4
<1>6. PICK text \in Seq(Signs) : text = lines[k].text
  OBVIOUS
<1>7. PICK visuals : visuals = Padded(text, Len(slots))
  OBVIOUS
<1>8. Agreeing(visuals, slots) /\ Len(text) <= Len(slots)
  BY <1>1, <1>5, <1>6, <1>7, ApartAgree
<1> QED BY <1>1, <1>3, <1>5, <1>6, <1>7, <1>8 DEF Drawing, Visible

\* Every row from a search is good.
LEMMA SolvedIsGood ==
  ASSUME IsCodec(trees), NEW k, Ready(k), ~IsWay(k, "direct"), NEW r \in Built(k)
  PROVE  Good(k, r)
<1>1. /\ limits[k].capacity \in Nat /\ limits[k].count \in Nat /\ lines[k].text \in Seq(Signs)
      /\ pages[k] \in SUBSET Pages
  BY DEF Ready
<1>2. PICK q \in SolvedOn(k, pages[k]) :
         r = [symbols |-> q.symbols, slots |-> q.slots,
              visuals |-> Padded(lines[k].text, Len(q.slots)),
              count |-> IF IsWay(k, "proven") THEN Len(q.symbols) ELSE limits[k].count]
  BY DEF Built
<1>3. Visible(k, q, r)
  BY <1>2 DEF Visible
<1>4. PICK l : l = limits[k]
  OBVIOUS
<1>5. PICK n \in Nat : n = Len(lines[k].text)
  BY <1>1
<1>6. PICK group : group = pages[k]
  OBVIOUS
<1>7. CASE IsWay(k, "proven")
  <2>1. q \in UNION {SolveByteAlignedRow(l.initial, l.capacity, l.count, p, n) :
                       p \in {x \in group : group = {x}}}
    BY <1>2, <1>4, <1>5, <1>6, <1>7 DEF SolvedOn
  <2>2. PICK p \in group : q \in SolveByteAlignedRow(l.initial, l.capacity, l.count, p, n)
    BY <2>1
  <2>3. p \in Pages
    BY <1>1, <1>6
  <2>4. Behold(p, n, q)
    BY <1>1, <1>4, <2>2, <2>3, ByteAlignedRow
  <2>5. Drawing(k, r)
    BY <1>1, <1>3, <1>5, <1>6, <2>4, BeheldIsDrawing
  <2> QED BY <1>7, <2>5 DEF Good, Filling
<1>8. ASSUME ~IsWay(k, "proven"), NEW part, part \subseteq group,
             Fills(l.initial, l.capacity, l.count, part, n, q)
      PROVE  Good(k, r)
  <2>1. Drawing(k, r)
    BY <1>1, <1>3, <1>5, <1>6, <1>8, ShownIsDrawing DEF Fills
  <2>2. Filling(k, r)
    BY <1>3, <1>4, <1>8 DEF Filling, Fills, Shown, Visible
  <2> QED BY <2>1, <2>2 DEF Good
<1>9. CASE ~IsWay(k, "proven") /\ Cardinality(group) = 1
  <2>1. q \in UNION {SolveFixedCountRow(l.initial, l.capacity, l.count, p, n) : p \in group}
    BY <1>2, <1>4, <1>5, <1>6, <1>9 DEF SolvedOn
  <2>2. PICK p \in group : q \in SolveFixedCountRow(l.initial, l.capacity, l.count, p, n)
    BY <2>1
  <2>3. p \in Pages
    BY <1>1, <1>6
  <2>4. Fills(l.initial, l.capacity, l.count, {p}, n, q)
    BY <1>1, <1>4, <2>2, <2>3, FixedCountFills
  <2>5. {p} \subseteq group
    OBVIOUS
  <2> QED BY <1>8, <1>9, <2>4, <2>5
<1>10. CASE ~IsWay(k, "proven") /\ Cardinality(group) # 1
  <2>1. q \in SolveFixedCountRowMultiPage(l.initial, l.capacity, l.count, group, n)
    BY <1>2, <1>4, <1>5, <1>6, <1>10 DEF SolvedOn
  <2>2. Fills(l.initial, l.capacity, l.count, group, n, q)
    BY <1>1, <1>4, <1>6, <2>1, FixedCountRowMultiPage
  <2> QED BY <1>8, <1>10, <2>2
<1> QED BY <1>7, <1>9, <1>10

\* Every row that may be built is good.
LEMMA BuiltIsGood ==
  ASSUME IsCodec(trees), NEW k, Ready(k), NEW r \in Built(k)
  PROVE  Good(k, r)
BY DirectIsGood, SolvedIsGood

-----------------------------------------------------------------------------
(* Font                                                                     *)

\* No page serves two rows.
Disjoint == \A i, j \in 1 .. Len(pages) : i # j => pages[i] \cap pages[j] = {}

\* The font shows every row as it should look.
Painted ==
    \A k \in Rows : \A j \in 1 .. Len(rows[k].slots) : font[rows[k].slots[j]] = rows[k].visuals[j]

\* A slot of a row lies on its pages.
LEMMA SlotPage ==
  ASSUME NEW k, Drawing(k, rows[k]), NEW j \in DOMAIN rows[k].slots
  PROVE  /\ rows[k].slots[j] \in pages[k] \X Places /\ rows[k].slots[j][1] \in pages[k]
         /\ j \in 1 .. Len(rows[k].slots)
<1>1. PICK T : T = pages[k] \X Places
  OBVIOUS
<1>2. PICK slots \in Seq(T) : slots = rows[k].slots
  BY <1>1 DEF Drawing
<1>3. slots[j] \in T /\ j \in 1 .. Len(slots)
  BY <1>2
<1>4. slots[j][1] \in pages[k]
  BY <1>1, <1>3
<1> QED BY <1>1, <1>2, <1>3, <1>4

\* Two writes of one slot write one visual: rows share no page, and no row
\* shows two visuals in one slot.
LEMMA WritesAgree ==
  ASSUME Disjoint, Rows = 1 .. Len(pages), \A k \in Rows : Drawing(k, rows[k]),
         NEW v \in Writes, NEW w \in Writes, v[1] = w[1]
  PROVE  v = w
<1>1. PICK k \in Rows : \E j \in DOMAIN rows[k].slots : v = <<rows[k].slots[j], rows[k].visuals[j]>>
  BY DEF Writes
<1>2. PICK i \in DOMAIN rows[k].slots : v = <<rows[k].slots[i], rows[k].visuals[i]>>
  BY <1>1
<1>3. PICK m \in Rows : \E j \in DOMAIN rows[m].slots : w = <<rows[m].slots[j], rows[m].visuals[j]>>
  BY DEF Writes
<1>4. PICK j \in DOMAIN rows[m].slots : w = <<rows[m].slots[j], rows[m].visuals[j]>>
  BY <1>3
<1>5. PICK s : s = rows[k].slots[i]
  OBVIOUS
<1>6. rows[m].slots[j] = s
  <2>1. v[1] = rows[k].slots[i] /\ w[1] = rows[m].slots[j]
    BY <1>2, <1>4
  <2> QED BY <1>5, <2>1
<1>7. s[1] \in pages[k] /\ i \in 1 .. Len(rows[k].slots)
  BY <1>5, SlotPage
<1>8. s[1] \in pages[m] /\ j \in 1 .. Len(rows[m].slots)
  <2>1. rows[m].slots[j][1] \in pages[m] /\ j \in 1 .. Len(rows[m].slots)
    BY SlotPage
  <2> QED BY <1>6, <2>1
<1>9. k = m
  BY <1>7, <1>8 DEF Disjoint
<1>10. rows[k].visuals[i] = rows[k].visuals[j]
  <2>1. Agreeing(rows[k].visuals, rows[k].slots)
    BY DEF Drawing
  <2> QED BY <1>5, <1>6, <1>7, <1>8, <1>9, <2>1 DEF Agreeing
<1> QED BY <1>2, <1>4, <1>5, <1>6, <1>9, <1>10

\* What the overlay writes, and the font it leaves.
Overlaid(new) ==
    \E made : /\ made = {w \in Writes : font[w[1]] # w[2]}
              /\ new = [s \in Slots |-> IF \E w \in made : w[1] = s
                                        THEN (CHOOSE w \in made : w[1] = s)[2] ELSE font[s]]

Showing(new, k) == \A j \in 1 .. Len(rows[k].slots) : new[rows[k].slots[j]] = rows[k].visuals[j]

\* So the font, overlaid, shows every row: a tile that already looked right was
\* left alone, and no two rows want one tile.
LEMMA OverlaidShows ==
  ASSUME Disjoint, Rows = 1 .. Len(pages), \A k \in Rows : Drawing(k, rows[k]),
         \A k \in Rows : pages[k] \in SUBSET Pages, NEW new, Overlaid(new), NEW k \in Rows
  PROVE  Showing(new, k)
<1>0. PICK made : /\ made = {w \in Writes : font[w[1]] # w[2]}
                  /\ new = [s \in Slots |-> IF \E w \in made : w[1] = s
                                             THEN (CHOOSE w \in made : w[1] = s)[2] ELSE font[s]]
  BY Zenon DEF Overlaid
<1>1. SUFFICES ASSUME NEW j \in 1 .. Len(rows[k].slots)
               PROVE  new[rows[k].slots[j]] = rows[k].visuals[j]
  BY Zenon DEF Showing
<1>2. DOMAIN rows[k].slots = 1 .. Len(rows[k].slots)
  BY DEF Drawing
<1>3. PICK s : s = rows[k].slots[j]
  OBVIOUS
<1>4. PICK v : v = <<s, rows[k].visuals[j]>>
  OBVIOUS
<1>5. v \in Writes /\ v[1] = s /\ v[2] = rows[k].visuals[j]
  BY <1>2, <1>3, <1>4 DEF Writes
<1>6. s \in Slots
  <2>1. rows[k].slots[j] \in pages[k] \X Places
    BY <1>2, SlotPage
  <2> QED BY <1>3, <2>1 DEF Slots, Places
<1>7. CASE \E w \in made : w[1] = s
  <2>1. PICK w \in made : w = CHOOSE x \in made : x[1] = s
    BY <1>7
  <2>2. w[1] = s /\ w \in Writes
    BY <1>0, <1>7, <2>1
  <2>3. w = v
    BY <1>5, <2>2, WritesAgree
  <2>4. new[s] = w[2]
    BY <1>0, <1>6, <1>7, <2>1
  <2> QED BY <1>3, <1>5, <2>3, <2>4
<1>8. CASE ~\E w \in made : w[1] = s
  <2>1. font[s] = v[2]
    BY <1>0, <1>5, <1>8
  <2>2. new[s] = font[s]
    BY <1>0, <1>6, <1>8
  <2> QED BY <1>3, <1>5, <2>1, <2>2
<1> QED BY <1>7, <1>8

\* A painted row is seen as it was reviewed.
LEMMA PaintedIsSeen ==
  ASSUME Painted, NEW k \in Rows, Drawing(k, rows[k]), lines[k].text \in Seq(Signs),
         IsWay(k, "direct") => capture \in Captures /\ DirectMap # NoMap
  PROVE  Seen(k) = Padded(lines[k].text, Len(rows[k].slots))
<1>1. PICK n \in Nat : n = Len(rows[k].slots)
  BY DEF Drawing
<1>2. DOMAIN rows[k].slots = 1 .. n
  BY <1>1 DEF Drawing
<1>3. PICK visuals : visuals = rows[k].visuals
  OBVIOUS
<1>4. visuals = Padded(lines[k].text, n) /\ visuals = [j \in 1 .. n |-> visuals[j]]
  <2>1. PICK text \in Seq(Signs) : text = lines[k].text
    OBVIOUS
  <2>2. visuals = Padded(text, n) /\ Len(text) <= n
    BY <1>1, <1>3, <2>1 DEF Drawing
  <2> QED BY <2>1, <2>2, PaddedIs
<1>5. \A j \in 1 .. n : font[rows[k].slots[j]] = visuals[j]
  BY <1>1, <1>3 DEF Painted
<1>6. CASE ~IsWay(k, "direct")
  <2>1. Drawn(rows[k].symbols) = rows[k].slots
    BY <1>6 DEF Drawing
  <2>2. Seen(k) = [j \in 1 .. n |-> font[rows[k].slots[j]]]
    BY <1>2, <1>6, <2>1 DEF Seen
  <2> QED BY <1>1, <1>4, <1>5, <2>2
<1>7. CASE IsWay(k, "direct")
  <2>1. TrueMap(capture, DirectMap)
    BY <1>7, InferredMap DEF DirectMap
  <2>2. Mapped(DirectMap.page, DirectMap.map, rows[k].symbols, rows[k].slots)
    BY <1>7 DEF Drawing
  <2>3. ASSUME NEW j \in 1 .. n, rows[k].symbols[j] \in DOMAIN DirectMap.map
        PROVE  font[<<capture.page, capture.map[rows[k].symbols[j]]>>] = visuals[j]
    <3>1. rows[k].slots[j] = <<DirectMap.page, Physical(DirectMap.map, rows[k].symbols[j])>>
      BY <1>1, <2>2 DEF Mapped
    <3>2. PICK g : g = rows[k].symbols[j]
      OBVIOUS
    <3>3. Physical(DirectMap.map, g) = capture.map[g] /\ DirectMap.page = capture.page
      BY <2>1, <2>3, <3>2 DEF TrueMap, Physical
    <3> QED BY <1>5, <3>1, <3>2, <3>3
  <2>4. Seen(k) = [j \in 1 .. n |->
            IF rows[k].symbols[j] \in DOMAIN DirectMap.map
            THEN font[<<capture.page, capture.map[rows[k].symbols[j]]>>] ELSE visuals[j]]
    BY <1>2, <1>3, <1>7 DEF Seen
  <2>5. Seen(k) = [j \in 1 .. n |-> visuals[j]]
    BY <2>3, <2>4
  <2> QED BY <1>1, <1>4, <2>5
<1> QED BY <1>6, <1>7

-----------------------------------------------------------------------------
(* The invariant                                                            *)

FontPhases  == {"encode", "done"}
RowPhases   == {"overlay"} \cup FontPhases
PagePhases  == {"build"} \cup RowPhases
LinePhases  == {"select"} \cup PagePhases
LimitPhases == {"layout"} \cup LinePhases

\* The inputs are what the tool was given.
InputsRight ==
    /\ IsCodec(trees) /\ Len(demands) \in Nat /\ Rows = 1 .. Len(demands)
    /\ \A k \in Rows : Recorded(demands[k])
    /\ way = "direct" => capture \in Captures
    /\ way # "none" => Len(demands) # 0
    /\ phase # "constraints" => way # "none"

LimitsRight == phase \in LimitPhases => \A k \in Rows : Limited(demands[k], limits[k])

LinesRight == phase \in LinePhases => \A k \in Rows : lines[k].text \in Seq(Signs)

Selected ==
    /\ pages \in Seq(SUBSET Pages) /\ Len(pages) <= Len(demands) /\ Disjoint
    /\ way = "direct" /\ Len(pages) # 0 => DirectMap # NoMap /\ pages[1] = {DirectMap.page}

PagesRight ==
    /\ phase \in {"constraints", "layout"} => pages = <<>>
    /\ phase \in LinePhases => Selected
    /\ phase = "select" => Len(pages) < Len(demands)
    /\ phase \in PagePhases => Len(pages) = Len(demands)

Laying ==
    /\ Len(rows) \in Nat /\ rows = [k \in 1 .. Len(rows) |-> rows[k]]
    /\ Len(rows) <= Len(demands) /\ \A k \in 1 .. Len(rows) : Good(k, rows[k])

RowsRight ==
    /\ phase \in {"constraints", "layout", "select"} => rows = <<>>
    /\ phase \in PagePhases => Laying
    /\ phase = "build" => Len(rows) < Len(demands)
    /\ phase \in RowPhases => Len(rows) = Len(demands)

FontRight == phase \in FontPhases => Painted

IInv ==
    /\ phase \in {"constraints", "failed"} \cup LimitPhases
    /\ InputsRight /\ LimitsRight /\ LinesRight /\ PagesRight /\ RowsRight /\ FontRight

\* What is known of the records at the start.
LEMMA InitRecords ==
  ASSUME IsCodec(trees), NEW s \in Scenes, \A o \in ToSet(s.originals) : Encodable(trees, o.initial, o.entry),
         NEW k \in DOMAIN s.texts
  PROVE  Recorded([text |-> s.texts[k], payload |-> Payload(s.originals[k]),
                   observed |-> s.originals[k].initial])
<1>1. /\ s.texts \in Seq(Seq(Nat))
      /\ s.originals \in Seq([entry : Seq(Nat), initial : Nat, spare : Nat])
      /\ Len(s.originals) = Len(s.texts)
      /\ \A o \in ToSet(s.originals) :
            o.initial = End \/ (Terminated(o.entry) /\ Len(o.entry) <= MaxSymbols)
  BY ScenesAssumption
<1>2. PICK T : T = [entry : Seq(Nat), initial : Nat, spare : Nat]
  OBVIOUS
<1>3. PICK originals \in Seq(T) : originals = s.originals
  BY <1>1, <1>2
<1>4. PICK U : U = Seq(Nat)
  OBVIOUS
<1>5. PICK texts \in Seq(U) : texts = s.texts
  BY <1>1, <1>4
<1>6. k \in 1 .. Len(originals)
  BY <1>1, <1>3, <1>5
<1>7. PICK o \in T : o = originals[k] /\ o \in ToSet(originals)
  BY <1>6 DEF ToSet
<1>8. PICK text \in U : text = texts[k]
  BY <1>5
<1>9. /\ Encodable(trees, o.initial, o.entry)
      /\ o.initial = End \/ (Terminated(o.entry) /\ Len(o.entry) <= MaxSymbols)
  BY <1>1, <1>3, <1>7
<1>10. /\ Payload(o) \in Seq(Bit) /\ Holds(Payload(o), 1, Bits(trees, o.initial, o.entry))
       /\ \E size \in Nat : Len(Payload(o)) = size * ByteBits
  BY <1>2, <1>9, PayloadIs
<1>11. o.initial \in Nat /\ o.entry \in Seq(Nat)
  BY <1>2
<1>12. PICK d : d = [text |-> text, payload |-> Payload(o), observed |-> o.initial]
  OBVIOUS
<1>13. d.text = text /\ d.payload = Payload(o) /\ d.observed = o.initial
  BY <1>12
<1>14. ASSUME o.initial # End PROVE HasText(d)
  <2>1. Entry(trees, o.initial, o.entry)
    BY <1>9, <1>11, <1>14 DEF Entry
  <2> QED BY <1>10, <1>13, <2>1 DEF HasText
<1>15. Recorded(d)
  BY <1>4, <1>8, <1>10, <1>11, <1>13, <1>14 DEF Recorded
<1> QED BY <1>3, <1>5, <1>7, <1>8, <1>12, <1>15

\* The invariant holds at the start.
LEMMA InitIInv == ASSUME Init PROVE IInv
<1>1. PICK v \in Vectors : trees = LoadTrees(v)
  BY DEF Init
<1>2. IsCodec(trees)
  BY <1>1, VectorsAssumption
<1>3. PICK s \in Scenes :
         /\ \A o \in ToSet(s.originals) : Encodable(trees, o.initial, o.entry)
         /\ way = s.way
         /\ demands = [k \in DOMAIN s.texts |-> [text |-> s.texts[k],
                                                 payload |-> Payload(s.originals[k]),
                                                 observed |-> s.originals[k].initial]]
         /\ capture \in IF way = "direct" THEN Captures
                        ELSE {[samples |-> <<>>, page |-> -1, map |-> <<>>]}
  BY DEF Init
<1>4. s.texts \in Seq(Seq(Nat)) /\ (s.way # "none" => s.texts # <<>>)
  BY ScenesAssumption
<1>5. PICK n \in Nat : n = Len(s.texts) /\ DOMAIN s.texts = 1 .. n
  BY <1>4
<1>6. Len(demands) = n /\ Rows = 1 .. n
  BY <1>3, <1>5 DEF Rows
<1>7. \A k \in Rows : Recorded(demands[k])
  <2>1. ASSUME NEW k \in Rows PROVE Recorded(demands[k])
    <3>1. k \in DOMAIN s.texts
      BY <1>5, <1>6
    <3>2. demands[k] = [text |-> s.texts[k], payload |-> Payload(s.originals[k]),
                        observed |-> s.originals[k].initial]
      BY <1>3, <3>1
    <3> QED BY <1>2, <1>3, <3>1, <3>2, InitRecords
  <2> QED BY <2>1
<1>8. way # "none" => n # 0
  <2>1. PICK texts \in Seq(Seq(Nat)) : texts = s.texts
    BY <1>4
  <2> QED BY <1>3, <1>4, <1>5, <2>1, EmptySeq
<1>9. way = "direct" => capture \in Captures
  BY <1>3
<1>10. phase = "constraints" /\ pages = <<>> /\ rows = <<>>
  BY DEF Init
<1>11. InputsRight
  BY <1>2, <1>6, <1>7, <1>8, <1>9, <1>10 DEF InputsRight
<1> QED BY <1>10, <1>11
        DEF IInv, LimitsRight, LinesRight, PagesRight, RowsRight, FontRight,
            LimitPhases, LinePhases, PagePhases, RowPhases, FontPhases

-----------------------------------------------------------------------------
(* Steps                                                                    *)

\* Facts that do not depend on what a step changes.
LEMMA WayKept == ASSUME NEW k, NEW w, way' = way PROVE IsWay(k, w)' = IsWay(k, w)
BY DEF IsWay

\* The map rests on the screens alone.
LEMMA MapKept == ASSUME capture' = capture PROVE DirectMap' = DirectMap
BY DEF DirectMap

\* Whether a text fits rests on the trees alone.
LEMMA WithinKept ==
  ASSUME NEW a, NEW b, NEW c, trees' = trees PROVE Within(a, b, c)' = Within(a, b, c)
BY DEF Within, Follows, Cost

\* So does what is known of a record.
LEMMA RecordedKept ==
  ASSUME NEW d, trees' = trees, Recorded(d) PROVE Recorded(d)'
BY DEF Recorded, HasText

\* And what the constraints say.
LEMMA LimitedKept ==
  ASSUME NEW d, NEW l, trees' = trees, Limited(d, l) PROVE Limited(d, l)'
BY DEF Limited

\* No step changes the inputs.
LEMMA InputsKept ==
  ASSUME InputsRight, UNCHANGED <<trees, way, capture, demands>>,
         phase' # "constraints" => way # "none"
  PROVE  InputsRight'
<1>1. Rows' = Rows
  BY DEF Rows
<1>2. ASSUME NEW k \in Rows PROVE Recorded(demands[k])'
  BY <1>2, RecordedKept DEF InputsRight, Recorded, HasText
<1> QED BY <1>1, <1>2 DEF InputsRight

\* What a row is does not depend on the phase.
LEMMA GoodKept ==
  ASSUME UNCHANGED <<trees, way, capture, limits, lines, pages>>,
         NEW k, NEW r, rows'[k] = r, Good(k, r)
  PROVE  Good(k, rows[k])'
<1>1. DirectMap' = DirectMap /\ \A w : IsWay(k, w)' = IsWay(k, w)
  BY MapKept, WayKept
<1>2. \A a, b, c : Within(a, b, c)' = Within(a, b, c)
  BY WithinKept
<1>3. Drawing(k, rows[k])'
  BY <1>1 DEF Good, Drawing
<1>4. Filling(k, rows[k])'
  BY <1>1, <1>2 DEF Good, Filling
<1> QED BY <1>3, <1>4 DEF Good

\* Constraints once built are kept.
LEMMA LimitsKept ==
  ASSUME LimitsRight, UNCHANGED <<trees, demands, limits>>,
         phase' \in LimitPhases => phase \in LimitPhases
  PROVE  LimitsRight'
<1>1. Rows' = Rows
  BY DEF Rows
<1>2. ASSUME phase \in LimitPhases, NEW k \in Rows PROVE Limited(demands[k], limits[k])'
  BY <1>2 DEF LimitsRight, Limited
<1> QED BY <1>1, <1>2 DEF LimitsRight, LimitPhases, LinePhases, PagePhases, RowPhases, FontPhases

\* Lines once laid out are kept.
LEMMA LinesKept ==
  ASSUME LinesRight, UNCHANGED <<demands, lines>>,
         phase' \in LinePhases => phase \in LinePhases
  PROVE  LinesRight'
<1>1. Rows' = Rows
  BY DEF Rows
<1> QED BY <1>1 DEF LinesRight, LinePhases, PagePhases, RowPhases, FontPhases

\* Pages once selected are kept.
LEMMA SelectedKept ==
  ASSUME Selected, UNCHANGED <<way, capture, demands, pages>> PROVE Selected'
BY MapKept DEF Selected, Disjoint

\* Rows once built are kept.
LEMMA LayingKept ==
  ASSUME Laying, UNCHANGED <<trees, way, capture, demands, limits, lines, pages, rows>>
  PROVE  Laying'
<1>1. ASSUME NEW k \in 1 .. Len(rows) PROVE Good(k, rows[k])'
  <2>1. PICK r : r = rows[k]
    OBVIOUS
  <2>2. rows'[k] = r /\ Good(k, r)
    BY <2>1 DEF Laying
  <2> QED BY <2>2, GoodKept
<1> QED BY <1>1 DEF Laying

\* The font once overlaid is kept.
LEMMA PaintedKept ==
  ASSUME Painted, UNCHANGED <<demands, rows, font>> PROVE Painted'
<1>1. Rows' = Rows
  BY DEF Rows
<1> QED BY <1>1 DEF Painted

\* Giving up breaks nothing.
LEMMA FailIInv == ASSUME IInv, Fail, way # "none" PROVE IInv'
<1>1. /\ phase' = "failed"
      /\ UNCHANGED <<trees, way, capture, demands, limits, lines, pages, rows, font, audit>>
  BY DEF Fail
<1>2. InputsRight'
  BY <1>1, InputsKept DEF IInv
<1> QED BY <1>1, <1>2
        DEF IInv, LimitsRight, LinesRight, PagesRight, RowsRight, FontRight,
            LimitPhases, LinePhases, PagePhases, RowPhases, FontPhases

\* Nor does doing nothing.
LEMMA StutterIInv == ASSUME IInv, UNCHANGED vars PROVE IInv'
<1>1. UNCHANGED <<trees, way, capture, demands, phase, limits, lines, pages, rows, font>>
  BY DEF vars
<1>2. InputsRight'
  BY <1>1, InputsKept DEF IInv, InputsRight
<1>3. LimitsRight' /\ LinesRight'
  BY <1>1, LimitsKept, LinesKept DEF IInv
<1>4. PagesRight'
  BY <1>1, SelectedKept DEF IInv, PagesRight
<1>5. RowsRight'
  BY <1>1, LayingKept DEF IInv, RowsRight
<1>6. FontRight'
  BY <1>1, PaintedKept DEF IInv, FontRight
<1> QED BY <1>1, <1>2, <1>3, <1>4, <1>5, <1>6 DEF IInv

\* The constraints are what the records decode to.
LEMMA BuildConstraintsIInv == ASSUME IInv, BuildConstraints PROVE IInv'
<1>1. phase = "constraints" /\ way # "none"
  BY DEF BuildConstraints
<1>2. CASE Fail
  BY <1>1, <1>2, FailIInv
<1>3. CASE ~Fail
  <2>1. /\ \A k \in Rows : Readable(demands[k]) # {}
        /\ limits' = [k \in Rows |-> ConstraintOf(demands[k], ContextCandidates(demands[k])[
                                                    Min(Readable(demands[k]))])]
        /\ phase' = "layout"
        /\ UNCHANGED <<trees, way, capture, demands, lines, pages, rows, font, audit>>
    BY <1>3 DEF BuildConstraints, Readable
  <2>2. InputsRight'
    BY <1>1, <2>1, InputsKept DEF IInv
  <2>3. Rows' = Rows
    BY <2>1 DEF Rows
  <2>4. LimitsRight'
    <3>1. ASSUME NEW k \in Rows PROVE Limited(demands[k], limits[k])'
      <4>1. IsCodec(trees) /\ Recorded(demands[k]) /\ Readable(demands[k]) # {}
        BY <2>1 DEF IInv, InputsRight
      <4>2. PICK l : l = ConstraintOf(demands[k], ContextCandidates(demands[k])[
                                                    Min(Readable(demands[k]))])
        OBVIOUS
      <4>3. Limited(demands[k], l)
        BY <4>1, <4>2, ConstraintIs
      <4>4. limits'[k] = l
        BY <2>1, <4>2
      <4> QED BY <2>1, <4>3, <4>4 DEF Limited
    <3> QED BY <2>3, <3>1 DEF LimitsRight
  <2>5. pages' = <<>> /\ rows' = <<>>
    BY <1>1, <2>1 DEF IInv, PagesRight, RowsRight
  <2> QED BY <2>1, <2>2, <2>4, <2>5
          DEF IInv, LinesRight, PagesRight, RowsRight, FontRight,
              LimitPhases, LinePhases, PagePhases, RowPhases, FontPhases
<1> QED BY <1>2, <1>3

\* The lines are laid out by the counts of the constraints.
LEMMA LayoutIInv == ASSUME IInv, Layout PROVE IInv'
<1>1. phase = "layout"
  BY DEF Layout
<1>2. way # "none"
  BY <1>1 DEF IInv, InputsRight
<1>3. CASE Fail
  BY <1>2, <1>3, FailIInv
<1>4. CASE ~Fail
  <2>1. /\ lines' = [k \in Rows |-> LayoutRow(demands[k].text, limits[k].count, k = 1)]
        /\ phase' = "select"
        /\ UNCHANGED <<trees, way, capture, demands, limits, pages, rows, font, audit>>
    BY <1>4 DEF Layout
  <2>2. InputsRight'
    BY <1>2, <2>1, InputsKept DEF IInv
  <2>3. LimitsRight'
    BY <1>1, <2>1, LimitsKept
       DEF IInv, LimitPhases, LinePhases, PagePhases, RowPhases, FontPhases
  <2>4. Rows' = Rows
    BY <2>1 DEF Rows
  <2>5. LinesRight'
    <3>1. ASSUME NEW k \in Rows PROVE lines'[k].text \in Seq(Signs)
      <4>1. demands[k].text \in Seq(Nat)
        BY DEF IInv, InputsRight, Recorded
      <4>2. limits[k].count \in Nat
        BY <1>1 DEF IInv, LimitsRight, LimitPhases, Limited
      <4>3. PICK compact \in BOOLEAN : compact = (k = 1)
        OBVIOUS
      <4>4. lines'[k] = LayoutRow(demands[k].text, limits[k].count, compact)
        BY <2>1, <4>3
      <4> QED BY <4>1, <4>2, <4>4, LayoutText
    <3> QED BY <2>4, <3>1 DEF LinesRight
  <2>6. pages' = <<>> /\ rows' = <<>>
    BY <1>1, <2>1 DEF IInv, PagesRight, RowsRight
  <2>7. Len(demands') \in Nat /\ Len(demands') # 0
    BY <1>2, <2>1 DEF IInv, InputsRight
  <2>8. Selected' /\ Len(pages') < Len(demands')
    BY <2>6, <2>7 DEF Selected, Disjoint
  <2> QED BY <2>1, <2>2, <2>3, <2>5, <2>6, <2>8
          DEF IInv, PagesRight, RowsRight, FontRight,
              LimitPhases, LinePhases, PagePhases, RowPhases, FontPhases
<1> QED BY <1>3, <1>4

\* A search that finds nothing breaks nothing.
LEMMA NoRouteIInv == ASSUME IInv, NoRoute PROVE IInv'
<1>1. way # "none"
  BY DEF NoRoute, IInv, InputsRight
<1> QED BY <1>1, FailIInv DEF NoRoute

\* Encoding only records what it finds.
LEMMA EncodeRowsIInv == ASSUME IInv, EncodeRows PROVE IInv'
<1>1. /\ phase = "encode" /\ phase' = "done"
      /\ UNCHANGED <<trees, way, capture, demands, limits, lines, pages, rows, font>>
  BY DEF EncodeRows
<1>2. InputsRight'
  BY <1>1, InputsKept DEF IInv, InputsRight
<1>3. LimitsRight' /\ LinesRight'
  BY <1>1, LimitsKept, LinesKept
     DEF IInv, LimitPhases, LinePhases, PagePhases, RowPhases, FontPhases
<1>4. Selected /\ Laying /\ Painted /\ Len(pages) = Len(demands) /\ Len(rows) = Len(demands)
  BY <1>1 DEF IInv, PagesRight, RowsRight, FontRight, LinePhases, PagePhases, RowPhases, FontPhases
<1>5. Selected' /\ Laying' /\ Painted'
  BY <1>1, <1>4, SelectedKept, LayingKept, PaintedKept
<1> QED BY <1>1, <1>2, <1>3, <1>4, <1>5
        DEF IInv, PagesRight, RowsRight, FontRight,
            LimitPhases, LinePhases, PagePhases, RowPhases, FontPhases

\* A group tried for a row holds only pages no earlier row has.
LEMMA GroupIsFree ==
  ASSUME NEW k, NEW g \in CandidateGroups(k) PROVE g \subseteq Pages \ UsedPages
<1>1. PICK free : free = Pages \ UsedPages
  OBVIOUS
<1>2. PICK tokens : tokens = Tokens(limits[k].count, lines[k].text)
  OBVIOUS
<1>3. \/ g \in {{p} : p \in free}
      \/ g \in kSubset(tokens, free)
  BY <1>1, <1>2 DEF CandidateGroups
<1>4. ASSUME g \in kSubset(tokens, free) PROVE g \subseteq free
  BY <1>4 DEF kSubset
<1> QED BY <1>1, <1>3, <1>4

\* Pages added to those of earlier rows.
LEMMA OneGroupMore ==
  ASSUME Selected, NEW g \in SUBSET Pages, g \cap UsedPages = {}, pages' = Append(pages, g)
  PROVE  /\ pages' \in Seq(SUBSET Pages) /\ Len(pages') = Len(pages) + 1 /\ Disjoint'
         /\ pages'[Len(pages) + 1] = g
         /\ \A i \in 1 .. Len(pages) : pages'[i] = pages[i]
<1>1. PICK T : T = SUBSET Pages
  OBVIOUS
<1>2. PICK old \in Seq(T) : old = pages
  BY <1>1 DEF Selected
<1>3. PICK n \in Nat : n = Len(old)
  OBVIOUS
<1>4. PICK new : new = Append(old, g)
  OBVIOUS
<1>5. /\ new \in Seq(T) /\ Len(new) = n + 1 /\ new[n + 1] = g
      /\ \A i \in 1 .. n : new[i] = old[i]
  BY <1>1, <1>3, <1>4
<1>6. ASSUME NEW i \in 1 .. n PROVE old[i] \cap g = {}
  <2>1. old[i] \in Range(old)
    BY <1>3 DEF Range
  <2> QED BY <1>2, <2>1 DEF UsedPages
<1>7. \A i, j \in 1 .. n : i # j => old[i] \cap old[j] = {}
  BY <1>2, <1>3 DEF Selected, Disjoint
<1>8. ASSUME NEW i \in 1 .. n + 1, NEW j \in 1 .. n + 1, i # j
      PROVE  new[i] \cap new[j] = {}
  <2>1. CASE i = n + 1
    <3>1. j \in 1 .. n
      BY <1>8, <2>1
    <3> QED BY <1>5, <1>6, <2>1, <3>1
  <2>2. CASE j = n + 1
    <3>1. i \in 1 .. n
      BY <1>8, <2>2
    <3> QED BY <1>5, <1>6, <2>2, <3>1
  <2>3. CASE i \in 1 .. n /\ j \in 1 .. n
    BY <1>5, <1>7, <1>8, <2>3
  <2> QED BY <2>1, <2>2, <2>3
<1>9. Disjoint'
  BY <1>2, <1>4, <1>5, <1>8 DEF Disjoint
<1> QED BY <1>1, <1>2, <1>3, <1>4, <1>5, <1>9

\* A row gets pages no row before it has.
LEMMA SelectRowFontPagesIInv == ASSUME IInv, SelectRowFontPages PROVE IInv'
<1>1. /\ phase = "select" /\ UNCHANGED <<trees, way, capture, demands, limits, lines, rows, font, audit>>
      /\ phase' = IF Len(pages) + 1 = Len(demands) THEN "build" ELSE phase
  BY DEF SelectRowFontPages
<1>2. /\ Selected /\ Len(pages) < Len(demands) /\ rows = <<>> /\ way # "none"
      /\ Len(demands) \in Nat
  BY <1>1 DEF IInv, PagesRight, RowsRight, InputsRight, LinePhases
<1>3. PICK n \in Nat : n = Len(pages)
  BY <1>2 DEF Selected
<1>4. phase' \in {"select", "build"}
  BY <1>1
<1>5. InputsRight'
  BY <1>1, <1>2, InputsKept DEF IInv
<1>6. LimitsRight' /\ LinesRight'
  BY <1>1, <1>4, LimitsKept, LinesKept
     DEF IInv, LimitPhases, LinePhases, PagePhases, RowPhases, FontPhases
<1>7. DirectMap' = DirectMap
  BY <1>1, MapKept
<1>8. PICK g \in SUBSET Pages :
         /\ g \cap UsedPages = {} /\ pages' = Append(pages, g)
         /\ IsWay(n + 1, "direct") => DirectMap # NoMap /\ g = {DirectMap.page}
  <2>1. CASE IsWay(n + 1, "direct")
    <3>1. DirectMap # NoMap /\ pages' = Append(pages, {DirectMap.page})
      BY <1>3, <2>1 DEF SelectRowFontPages
    <3>2. n = 0 /\ capture \in Captures
      BY <2>1 DEF IsWay, IInv, InputsRight
    <3>3. DirectMap.page \in Pages
      <4>1. TrueMap(capture, DirectMap)
        BY <3>1, <3>2, InferredMap DEF DirectMap
      <4> QED BY <3>2, <4>1, CapturesAssumption DEF TrueMap
    <3>4. UsedPages = {}
      <4>1. PICK old \in Seq(SUBSET Pages) : old = pages
        BY <1>2 DEF Selected
      <4>2. old = <<>>
        BY <1>3, <3>2, <4>1, EmptySeq
      <4> QED BY <4>1, <4>2 DEF UsedPages, Range
    <3>5. {DirectMap.page} \in SUBSET Pages
      BY <3>3
    <3> QED BY <3>1, <3>4, <3>5
  <2>2. CASE ~IsWay(n + 1, "direct")
    <3>1. PICK g \in CandidateGroups(n + 1) : pages' = Append(pages, g)
      BY <1>3, <2>2 DEF SelectRowFontPages
    <3>2. g \subseteq Pages \ UsedPages
      BY <3>1, GroupIsFree
    <3> QED BY <2>2, <3>1, <3>2
  <2> QED BY <2>1, <2>2
<1>9. /\ pages' \in Seq(SUBSET Pages) /\ Len(pages') = n + 1 /\ Disjoint' /\ pages'[n + 1] = g
      /\ \A i \in 1 .. n : pages'[i] = pages[i]
  BY <1>2, <1>3, <1>8, OneGroupMore
<1>10. Len(demands') = Len(demands) /\ n + 1 <= Len(demands)
  BY <1>1, <1>2, <1>3
<1>11. ASSUME way = "direct" PROVE DirectMap # NoMap /\ pages'[1] = {DirectMap.page}
  <2>1. CASE n = 0
    <3>1. IsWay(n + 1, "direct")
      BY <1>11, <2>1 DEF IsWay
    <3> QED BY <1>8, <1>9, <2>1, <3>1
  <2>2. CASE n # 0
    <3>1. DirectMap # NoMap /\ pages[1] = {DirectMap.page}
      BY <1>2, <1>3, <1>11, <2>2 DEF Selected
    <3>2. 1 \in 1 .. n
      BY <2>2
    <3> QED BY <1>9, <3>1, <3>2
  <2> QED BY <2>1, <2>2
<1>12. Selected'
  BY <1>1, <1>7, <1>9, <1>10, <1>11 DEF Selected
<1>13. PagesRight'
  BY <1>1, <1>2, <1>3, <1>4, <1>9, <1>10, <1>12
     DEF PagesRight, LinePhases, PagePhases, RowPhases, FontPhases
<1>14. RowsRight'
  <2>1. rows' = <<>> /\ Len(demands') \in Nat /\ Len(rows') < Len(demands')
    BY <1>1, <1>2, <1>3, <1>10
  <2>2. Laying'
    BY <2>1 DEF Laying
  <2> QED BY <1>4, <2>1, <2>2 DEF RowsRight, PagePhases, RowPhases, FontPhases
<1>15. FontRight'
  BY <1>4 DEF FontRight, FontPhases
<1> QED BY <1>4, <1>5, <1>6, <1>13, <1>14, <1>15
        DEF IInv, LimitPhases, LinePhases, PagePhases, RowPhases, FontPhases

\* When a row is built all it rests on is there.
LEMMA RowIsReady ==
  ASSUME IInv, phase = "build", NEW k \in Rows PROVE Ready(k)
<1>1. /\ Selected /\ Len(pages) = Len(demands) /\ Rows = 1 .. Len(demands) /\ Len(demands) \in Nat
  BY DEF IInv, InputsRight, PagesRight, LinePhases, PagePhases
<1>2. limits[k].capacity \in Nat /\ limits[k].count \in Nat
  BY DEF IInv, LimitsRight, Limited, LimitPhases, LinePhases, PagePhases
<1>3. lines[k].text \in Seq(Signs)
  BY DEF IInv, LinesRight, LinePhases, PagePhases
<1>4. pages[k] \in SUBSET Pages
  <2>1. PICK T : T = SUBSET Pages
    OBVIOUS
  <2>2. PICK s \in Seq(T) : s = pages
    BY <1>1, <2>1 DEF Selected
  <2> QED BY <1>1, <2>1, <2>2
<1>5. ASSUME IsWay(k, "direct")
      PROVE  capture \in Captures /\ DirectMap # NoMap /\ pages[k] = {DirectMap.page}
  <2>1. k = 1 /\ way = "direct"
    BY <1>5 DEF IsWay
  <2> QED BY <1>1, <2>1 DEF IInv, InputsRight, Selected
<1> QED BY <1>2, <1>3, <1>4, <1>5 DEF Ready

\* One row more, behind the rows so far.
LEMMA OneRowMore ==
  ASSUME Laying, NEW r, rows' = Append(rows, r)
  PROVE  /\ Len(rows') = Len(rows) + 1 /\ rows' = [k \in 1 .. Len(rows') |-> rows'[k]]
         /\ rows'[Len(rows) + 1] = r /\ \A k \in 1 .. Len(rows) : rows'[k] = rows[k]
<1>1. PICK n \in Nat : n = Len(rows)
  BY DEF Laying
<1>2. rows = [k \in 1 .. n |-> rows[k]]
  BY <1>1 DEF Laying
<1>3. PICK T : T = {rows[k] : k \in 1 .. n} \cup {r}
  OBVIOUS
<1>4. rows \in Seq(T)
  <2>1. \A k \in 1 .. n : rows[k] \in T
    BY <1>3
  <2>2. rows \in [1 .. n -> T]
    BY <1>2, <2>1
  <2> QED BY <2>2
<1>5. PICK old \in Seq(T) : old = rows
  BY <1>4
<1>6. PICK new : new = Append(old, r)
  OBVIOUS
<1>7. r \in T
  BY <1>3
<1>8. /\ new \in Seq(T) /\ Len(new) = n + 1 /\ new[n + 1] = r
      /\ \A k \in 1 .. n : new[k] = old[k]
  BY <1>1, <1>5, <1>6, <1>7
<1>9. new = [k \in 1 .. n + 1 |-> new[k]]
  BY <1>8
<1> QED BY <1>1, <1>5, <1>6, <1>8, <1>9

\* A row built is good, and the rows before it stay good.
LEMMA BuildRowIInv == ASSUME IInv, BuildRow PROVE IInv'
<1>1. /\ phase = "build" /\ UNCHANGED <<trees, way, capture, demands, limits, lines, pages, font, audit>>
      /\ phase' = IF Len(rows) + 1 = Len(demands) THEN "overlay" ELSE phase
  BY DEF BuildRow
<1>2. /\ Laying /\ Selected /\ Len(rows) < Len(demands) /\ Len(pages) = Len(demands)
      /\ way # "none" /\ Len(demands) \in Nat /\ IsCodec(trees) /\ Rows = 1 .. Len(demands)
  BY <1>1 DEF IInv, PagesRight, RowsRight, InputsRight, LinePhases, PagePhases
<1>3. PICK n \in Nat : n = Len(rows)
  BY <1>2 DEF Laying
<1>4. phase' \in {"build", "overlay"}
  BY <1>1
<1>5. InputsRight'
  BY <1>1, <1>2, InputsKept DEF IInv
<1>6. LimitsRight' /\ LinesRight'
  BY <1>1, <1>4, LimitsKept, LinesKept
     DEF IInv, LimitPhases, LinePhases, PagePhases, RowPhases, FontPhases
<1>7. n + 1 \in Rows
  BY <1>2, <1>3
<1>8. PICK r \in Built(n + 1) : rows' = Append(rows, r)
  BY <1>3 DEF BuildRow
<1>9. Good(n + 1, r)
  <2>1. Ready(n + 1)
    BY <1>1, <1>7, RowIsReady
  <2> QED BY <1>2, <1>8, <2>1, BuiltIsGood
<1>10. /\ Len(rows') = n + 1 /\ rows' = [k \in 1 .. Len(rows') |-> rows'[k]]
       /\ rows'[n + 1] = r /\ \A k \in 1 .. n : rows'[k] = rows[k]
  BY <1>2, <1>3, <1>8, OneRowMore
<1>11. ASSUME NEW k \in 1 .. n + 1 PROVE Good(k, rows[k])'
  <2>1. PICK q : q = rows'[k]
    OBVIOUS
  <2>2. Good(k, q)
    <3>1. CASE k = n + 1
      BY <1>9, <1>10, <2>1, <3>1
    <3>2. CASE k # n + 1
      <4>1. k \in 1 .. n
        BY <3>2
      <4>2. Good(k, rows[k])
        BY <1>2, <1>3, <4>1 DEF Laying
      <4> QED BY <1>10, <2>1, <4>1, <4>2
    <3> QED BY <3>1, <3>2
  <2> QED BY <1>1, <2>1, <2>2, GoodKept
<1>12. Len(demands') = Len(demands) /\ n + 1 <= Len(demands) /\ Len(pages') = Len(demands)
  BY <1>1, <1>2, <1>3
<1>13. Laying'
  BY <1>10, <1>11, <1>12 DEF Laying
<1>14. RowsRight'
  BY <1>1, <1>2, <1>3, <1>4, <1>10, <1>12, <1>13 DEF RowsRight, PagePhases, RowPhases, FontPhases
<1>15. Selected'
  BY <1>1, <1>2, SelectedKept
<1>16. PagesRight'
  BY <1>4, <1>12, <1>15 DEF PagesRight, LinePhases, PagePhases, RowPhases, FontPhases
<1>17. FontRight'
  BY <1>4 DEF FontRight, FontPhases
<1> QED BY <1>4, <1>5, <1>6, <1>14, <1>16, <1>17
        DEF IInv, LimitPhases, LinePhases, PagePhases, RowPhases, FontPhases

\* The overlay shows every row.
LEMMA BuildFontOverlayIInv == ASSUME IInv, BuildFontOverlay PROVE IInv'
<1>1. phase = "overlay"
  BY DEF BuildFontOverlay
<1>2. /\ Laying /\ Selected /\ Len(rows) = Len(demands) /\ Len(pages) = Len(demands)
      /\ way # "none" /\ Rows = 1 .. Len(demands)
  BY <1>1 DEF IInv, PagesRight, RowsRight, InputsRight, LinePhases, PagePhases, RowPhases
<1>3. CASE Fail
  BY <1>2, <1>3, FailIInv
<1>4. CASE ~Fail
  <2>1. PICK made : made = {w \in Writes : font[w[1]] # w[2]}
    OBVIOUS
  <2>2. PICK new : new = [s \in Slots |-> IF \E w \in made : w[1] = s
                                          THEN (CHOOSE w \in made : w[1] = s)[2] ELSE font[s]]
    OBVIOUS
  <2>3. /\ font' = new /\ phase' = "encode"
        /\ UNCHANGED <<trees, way, capture, demands, limits, lines, pages, rows, audit>>
    BY <1>4, <2>1, <2>2 DEF BuildFontOverlay
  <2>4. InputsRight'
    BY <1>2, <2>3, InputsKept DEF IInv
  <2>5. LimitsRight' /\ LinesRight'
    BY <1>1, <2>3, LimitsKept, LinesKept
       DEF IInv, LimitPhases, LinePhases, PagePhases, RowPhases, FontPhases
  <2>6. Laying' /\ Selected'
    BY <1>2, <2>3, LayingKept, SelectedKept
  <2>7. Painted'
    <3>1. Disjoint /\ \A k \in Rows : Drawing(k, rows[k])
      BY <1>2 DEF Laying, Selected, Good
    <3>2. ASSUME NEW k \in Rows PROVE pages[k] \in SUBSET Pages
      <4>1. PICK T : T = SUBSET Pages
        OBVIOUS
      <4>2. PICK s \in Seq(T) : s = pages
        BY <1>2, <4>1 DEF Selected
      <4> QED BY <1>2, <4>1, <4>2
    <3>3. Rows = 1 .. Len(pages)
      BY <1>2
    <3>4. Overlaid(new)
      BY <2>1, <2>2, Zenon DEF Overlaid
    <3>6. ASSUME NEW k \in Rows PROVE Showing(new, k)
      BY <3>1, <3>2, <3>3, <3>4, OverlaidShows
    <3>5. Rows' = Rows
      BY <2>3 DEF Rows
    <3> QED BY <2>3, <3>5, <3>6 DEF Painted, Showing
  <2> QED BY <1>2, <2>3, <2>4, <2>5, <2>6, <2>7
          DEF IInv, PagesRight, RowsRight, FontRight,
              LimitPhases, LinePhases, PagePhases, RowPhases, FontPhases
<1> QED BY <1>3, <1>4

\* Bits written over the first bytes of a record: its size stays.
LEMMA WrittenOver ==
  ASSUME NEW payload \in Seq(Bit), NEW size \in Nat, Len(payload) = size * ByteBits,
         NEW bits \in Seq(Bit), Len(bits) <= Len(payload),
         NEW record, record = Pad(bits) \o SubSeq(payload, Len(Pad(bits)) + 1, Len(payload))
  PROVE  record \in Seq(Bit) /\ Len(record) = Len(payload) /\ Holds(record, 1, bits)
<1>1. PICK total \in Nat : total = Len(payload)
  OBVIOUS
<1>2. PICK new \in Seq(Bit) : new = Pad(bits) /\ Holds(new, 1, bits) /\ Len(new) <= total
  <2>1. Len(Pad(bits)) <= size * ByteBits
    BY PadFits
  <2>2. Pad(bits) \in Seq(Bit) /\ Holds(Pad(bits), 1, bits)
    BY PadHolds
  <2> QED BY <1>1, <2>1, <2>2
<1>3. PICK n \in Nat : n = Len(new)
  OBVIOUS
<1>4. PICK rest : rest = SubSeq(payload, n + 1, total)
  OBVIOUS
<1>5. rest \in Seq(Bit) /\ Len(rest) = total - n
  BY <1>1, <1>2, <1>3, <1>4
<1>6. PICK w : w = new \o rest
  OBVIOUS
<1>7. /\ w \in Seq(Bit) /\ Len(w) = total /\ \A i \in 1 .. n : w[i] = new[i]
  <2>1. /\ w \in Seq(Bit) /\ Len(w) = n + Len(rest)
        /\ \A i \in 1 .. n + Len(rest) : w[i] = IF i <= n THEN new[i] ELSE rest[i - n]
    BY <1>3, <1>5, <1>6, ConcatProperties
  <2> QED BY <1>3, <1>5, <2>1
<1>8. Holds(w, 1, bits)
  BY <1>2, <1>3, <1>7 DEF Holds
<1> QED BY <1>1, <1>2, <1>3, <1>4, <1>6, <1>7, <1>8

\* A row that fills its record leaves nothing of the old text to be read.
LEMMA OldTextInvariant == ASSUME IInv PROVE OldTextIsNotRead
<1> SUFFICES ASSUME phase = "done", NEW k \in Rows, ~IsWay(k, "proven")
             PROVE  LET d   == demands[k]
                        new == Pad(Bits(trees, limits[k].initial, rows[k].symbols))
                        record == new \o SubSeq(d.payload, Len(new) + 1, Len(d.payload))
                        old == DecodeSymbols(trees, d.payload, d.observed).symbols
                    IN  /\ Len(record) = Len(d.payload)
                        /\ DecodeSymbolCount(trees, record, d.observed, Len(old)).symbols
                             = rows[k].symbols
  BY DEF OldTextIsNotRead
<1> DEFINE d   == demands[k]
           new == Pad(Bits(trees, limits[k].initial, rows[k].symbols))
           record == new \o SubSeq(d.payload, Len(new) + 1, Len(d.payload))
           old == DecodeSymbols(trees, d.payload, d.observed).symbols
<1>1. /\ d = demands[k] /\ new = Pad(Bits(trees, limits[k].initial, rows[k].symbols))
      /\ record = new \o SubSeq(d.payload, Len(new) + 1, Len(d.payload))
      /\ old = DecodeSymbols(trees, d.payload, d.observed).symbols
  OBVIOUS
<1> SUFFICES /\ Len(record) = Len(d.payload)
             /\ DecodeSymbolCount(trees, record, d.observed, Len(old)).symbols = rows[k].symbols
  OBVIOUS
<1> HIDE DEF d, new, record, old
<1>2. IsCodec(trees) /\ Recorded(d) /\ Limited(d, limits[k]) /\ Good(k, rows[k])
  <2>1. k \in 1 .. Len(rows) /\ Laying
    BY <1>1 DEF IInv, InputsRight, RowsRight, PagePhases, RowPhases, FontPhases
  <2>2. Limited(d, limits[k])
    BY <1>1 DEF IInv, LimitsRight, LimitPhases, LinePhases, PagePhases, RowPhases, FontPhases
  <2> QED BY <1>1, <2>1, <2>2 DEF IInv, InputsRight, Laying
<1>3. PICK symbols \in Seq(Nat) : symbols = rows[k].symbols
  BY <1>1, <1>2 DEF Good, Filling
<1>4. PICK initial : initial = limits[k].initial /\ initial = d.observed
  BY <1>2 DEF Limited
<1>5. /\ Len(symbols) = Len(old) /\ Encodable(trees, initial, symbols)
      /\ Length(trees, initial, symbols) <= Len(d.payload)
  <2>1. /\ Len(symbols) = limits[k].count
        /\ Within(limits[k].initial, symbols, limits[k].capacity)
    BY <1>1, <1>2, <1>3 DEF Good, Filling
  <2>2. limits[k].count = Len(old) /\ limits[k].capacity = Len(d.payload)
    BY <1>1, <1>2 DEF Limited
  <2> QED BY <1>4, <2>1, <2>2 DEF Within, Follows, Cost
<1>6. PICK bits \in Seq(Bit) : bits = Bits(trees, initial, symbols)
  <2>1. Bits(trees, initial, symbols) \in Seq(Bit)
    BY <1>2, <1>5, BitsType
  <2> QED BY <2>1
<1>7. PICK payload \in Seq(Bit) : payload = d.payload
  BY <1>2 DEF Recorded
<1>8. PICK size \in Nat : Len(payload) = size * ByteBits
  BY <1>2, <1>7 DEF Recorded
<1>9. Len(bits) <= Len(payload)
  BY <1>5, <1>6, <1>7 DEF Length
<1>10. record = Pad(bits) \o SubSeq(payload, Len(Pad(bits)) + 1, Len(payload))
  BY <1>1, <1>3, <1>4, <1>6, <1>7
<1>11. record \in Seq(Bit) /\ Len(record) = Len(payload) /\ Holds(record, 1, bits)
  BY <1>8, <1>9, <1>10, WrittenOver
<1>12. PICK start \in Nat \ {0} : start = 1
  OBVIOUS
<1>13. Decode(trees, initial, record, start, Len(old))
         = [symbols |-> symbols, next |-> start + Length(trees, initial, symbols)]
  BY <1>2, <1>5, <1>6, <1>11, <1>12, DecodeReads
<1>14. DecodeSymbolCount(trees, record, d.observed, Len(old)).symbols = symbols
  BY <1>4, <1>12, <1>13 DEF DecodeSymbolCount
<1> QED BY <1>3, <1>7, <1>11, <1>14

\* A font that shows every row shows the player every line.
LEMMA RenderedInvariant == ASSUME IInv PROVE RenderedAsReviewed
<1>1. SUFFICES ASSUME phase \in FontPhases, NEW k \in Rows
               PROVE  Seen(k) = Padded(lines[k].text, Len(rows[k].slots))
  BY DEF RenderedAsReviewed, FontPhases
<1>2. Painted /\ Laying /\ Selected /\ Len(rows) = Len(demands) /\ Len(pages) = Len(demands)
  BY <1>1 DEF IInv, PagesRight, RowsRight, FontRight, LinePhases, PagePhases, RowPhases
<1>3. Drawing(k, rows[k])
  BY <1>2 DEF Laying, Good, IInv, InputsRight
<1>4. lines[k].text \in Seq(Signs)
  BY <1>1 DEF IInv, LinesRight, LinePhases, PagePhases, RowPhases
<1>5. ASSUME IsWay(k, "direct") PROVE capture \in Captures /\ DirectMap # NoMap
  <2>1. way = "direct" /\ Len(pages) # 0
    BY <1>2, <1>5 DEF IsWay, IInv, InputsRight
  <2> QED BY <1>2, <2>1 DEF IInv, InputsRight, Selected
<1> QED BY <1>2, <1>3, <1>4, <1>5, PaintedIsSeen

\* The invariant holds in every state: inputs as given, constraints as decoded,
\* pages disjoint, rows good, font painted (each from the phase on that makes it so).
THEOREM InductiveInvariant == Spec => []IInv
<1>1. Init => IInv
  BY InitIInv
<1>2. IInv /\ [Next]_vars => IInv'
  <2>1. ASSUME IInv, Next PROVE IInv'
    BY <2>1, BuildConstraintsIInv, LayoutIInv, SelectRowFontPagesIInv, BuildRowIInv,
       NoRouteIInv, BuildFontOverlayIInv, EncodeRowsIInv DEF Next
  <2>2. ASSUME IInv, UNCHANGED vars PROVE IInv'
    BY <2>2, StutterIInv
  <2> QED BY <2>1, <2>2
<1> QED BY <1>1, <1>2, PTL DEF Spec

\* Every row is seen as its reviewed line, and blanks behind it, for every codec,
\* font, scene and choice the searches make.
THEOREM RenderedCorrect == Spec => []RenderedAsReviewed
<1>1. IInv => RenderedAsReviewed
  BY RenderedInvariant
<1> QED BY <1>1, InductiveInvariant, PTL

\* Of no record is any of the old bits read behind a row written over it.
THEOREM OldTextCorrect == Spec => []OldTextIsNotRead
<1>1. IInv => OldTextIsNotRead
  BY OldTextInvariant
<1> QED BY <1>1, InductiveInvariant, PTL

\* Entries written one behind the other read back, in every codec.
THEOREM EntriesCorrect == Spec => []EntriesReadBack
<1>1. IInv => EntriesReadBack
  BY CodecEntriesReadBack DEF IInv, InputsRight
<1> QED BY <1>1, InductiveInvariant, PTL
=============================================================================
