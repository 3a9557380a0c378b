--------------------------- MODULE GroupRecordsProofs ---------------------------
(***************************************************************************)
(* Lemmas about the operators of GroupRecords, for every image and every    *)
(* bound: what Kept leaves of a sequence, and what a walk over records is.  *)
(* Both are recursive functions; that such a function exists, and what it    *)
(* returns, is shown by induction over the numbers for which it is known.    *)
(* The theorem is about a stream map that is published as aligned.           *)
(***************************************************************************)
EXTENDS GroupRecords, WellFoundedInduction, TLAPS

-----------------------------------------------------------------------------
(* Kept *)

\* Induction with the set of the numbers a fact is known for.
LEMMA Induction ==
  ASSUME NEW Known, 0 \in Known, \A n \in Nat : n \in Known => n + 1 \in Known
  PROVE  Nat \subseteq Known
<1> SUFFICES ASSUME NEW n \in Nat \ Known PROVE FALSE
  OBVIOUS
<1>1. \E m \in Nat \ Known : \A k \in Nat \ Known : ~(<<k, m>> \in OpToRel(<, Nat))
  BY NatLessThanWellFounded, WFMin, Zenon
<1>2. PICK m \in Nat \ Known : \A k \in Nat \ Known : ~(k < m)
  BY <1>1 DEF OpToRel
<1> QED BY <1>2


\* The first elements of Kept, by how many elements of the sequence are seen
KeptFirst(seq, keep, f, k) ==
  /\ f = [n \in 0 .. k |-> f[n]]
  /\ f[0] = <<>>
  /\ \A n \in 1 .. k : f[n] = IF seq[n] \in keep THEN Append(f[n - 1], seq[n]) ELSE f[n - 1]

LEMMA KeptIsDefined ==
  ASSUME NEW S, NEW seq \in Seq(S), NEW keep
  PROVE  \A k \in Nat : \E f : KeptFirst(seq, keep, f, k)
<1> DEFINE Known == {k \in Nat : \E f : KeptFirst(seq, keep, f, k)}
<1>1. 0 \in Known
  <2>1. KeptFirst(seq, keep, [n \in 0 .. 0 |-> <<>>], 0)
    BY DEF KeptFirst
  <2> QED BY <2>1
<1>2. ASSUME NEW k \in Nat, k \in Known PROVE k + 1 \in Known
  <2>1. PICK f : KeptFirst(seq, keep, f, k)
    BY <1>2
  <2> DEFINE last == IF seq[k + 1] \in keep THEN Append(f[k], seq[k + 1]) ELSE f[k]
             g == [n \in 0 .. k + 1 |-> IF n <= k THEN f[n] ELSE last]
  <2>2. \A n \in 0 .. k : g[n] = f[n]
    OBVIOUS
  <2>3. g[k + 1] = last
    OBVIOUS
  <2>4. g = [n \in 0 .. k + 1 |-> g[n]]
    OBVIOUS
  <2> HIDE DEF g
  <2>5. g[0] = <<>> /\ g[k + 1] = IF seq[k + 1] \in keep THEN Append(g[k], seq[k + 1]) ELSE g[k]
    BY <2>1, <2>2, <2>3 DEF KeptFirst
  <2>6. ASSUME NEW n \in 1 .. k
        PROVE  g[n] = IF seq[n] \in keep THEN Append(g[n - 1], seq[n]) ELSE g[n - 1]
    <3>1. n \in 0 .. k /\ n - 1 \in 0 .. k
      OBVIOUS
    <3> QED BY <2>1, <2>2, <3>1 DEF KeptFirst
  <2>7. ASSUME NEW n \in 1 .. k + 1
        PROVE  g[n] = IF seq[n] \in keep THEN Append(g[n - 1], seq[n]) ELSE g[n - 1]
    <3>1. CASE n \in 1 .. k
      BY <2>6, <3>1
    <3>2. CASE n = k + 1
      <4>1. n - 1 = k
        BY <3>2
      <4> QED BY <2>5, <3>2, <4>1
    <3> QED BY <3>1, <3>2
  <2>8. KeptFirst(seq, keep, g, k + 1)
    BY <2>4, <2>5, <2>7, Zenon DEF KeptFirst
  <2> QED BY <2>8
<1> HIDE DEF Known
<1>3. Nat \subseteq Known
  BY <1>1, <1>2, Induction
<1> QED BY <1>3, Zenon DEF Known

\* What Kept returns is the last of them.
LEMMA KeptIsLast ==
  ASSUME NEW S, NEW seq \in Seq(S), NEW keep
  PROVE  \E f : KeptFirst(seq, keep, f, Len(seq)) /\ Kept(seq, keep) = f[Len(seq)]
<1> DEFINE Is(f) == f = [n \in 0 .. Len(seq) |->
                           IF n = 0 THEN <<>>
                           ELSE IF seq[n] \in keep THEN Append(f[n - 1], seq[n]) ELSE f[n - 1]]
<1>1. PICK g : KeptFirst(seq, keep, g, Len(seq))
  BY KeptIsDefined
<1>2. Is(g)
  <2>1. \A n \in 0 .. Len(seq) : n = 0 \/ n \in 1 .. Len(seq)
    OBVIOUS
  <2>2. \A n \in 0 .. Len(seq) :
           g[n] = IF n = 0 THEN <<>>
                  ELSE IF seq[n] \in keep THEN Append(g[n - 1], seq[n]) ELSE g[n - 1]
    BY <1>1, <2>1 DEF KeptFirst
  <2> QED BY <1>1, <2>2 DEF KeptFirst
<1> DEFINE f == CHOOSE f : Is(f)
<1>3. Is(f)
  BY <1>2, Zenon
<1>4. Kept(seq, keep) = f[Len(seq)]
  BY DEF Kept
<1> HIDE DEF f
<1>5. KeptFirst(seq, keep, f, Len(seq))
  <2>1. \A n \in 0 .. Len(seq) :
           f[n] = IF n = 0 THEN <<>>
                  ELSE IF seq[n] \in keep THEN Append(f[n - 1], seq[n]) ELSE f[n - 1]
    BY <1>3, Zenon
  <2>2. f = [n \in 0 .. Len(seq) |-> f[n]]
    BY <1>3
  <2>3. f[0] = <<>>
    BY <2>1
  <2>4. \A n \in 1 .. Len(seq) : n \in 0 .. Len(seq) /\ n # 0
    OBVIOUS
  <2> QED BY <2>1, <2>2, <2>3, <2>4, Zenon DEF KeptFirst
<1> QED BY <1>4, <1>5

LEMMA RangeOfAppend ==
  ASSUME NEW S, NEW s \in Seq(S), NEW e \in S
  PROVE  Range(Append(s, e)) = Range(s) \cup {e}
<1>1. DOMAIN Append(s, e) = DOMAIN s \cup {Len(s) + 1} /\ Append(s, e)[Len(s) + 1] = e
  OBVIOUS
<1>2. \A i \in DOMAIN s : Append(s, e)[i] = s[i]
  OBVIOUS
<1> QED BY <1>1, <1>2, Zenon DEF Range

\* Kept returns the elements that are in the set, and all of them if all are.
LEMMA KeptElements ==
  ASSUME NEW S, NEW seq \in Seq(S), NEW keep
  PROVE  /\ Kept(seq, keep) \in Seq(S)
         /\ Range(Kept(seq, keep)) = Range(seq) \cap keep
         /\ Range(seq) \subseteq keep => Kept(seq, keep) = seq
<1>1. PICK f : KeptFirst(seq, keep, f, Len(seq)) /\ Kept(seq, keep) = f[Len(seq)]
  BY KeptIsLast
<1> DEFINE Known == {k \in Nat : k <= Len(seq) =>
      /\ f[k] \in Seq(S)
      /\ Range(f[k]) = Range(SubSeq(seq, 1, k)) \cap keep
      /\ Range(seq) \subseteq keep => f[k] = SubSeq(seq, 1, k)}
<1>2. 0 \in Known
  <2>1. f[0] = <<>>
    BY <1>1 DEF KeptFirst
  <2>2. SubSeq(seq, 1, 0) = <<>> /\ f[0] \in Seq(S)
    BY <2>1
  <2>3. Range(<<>>) = {}
    BY DEF Range
  <2> QED BY <2>1, <2>2, <2>3
<1>3. ASSUME NEW k \in Nat, k \in Known PROVE k + 1 \in Known
  <2> SUFFICES ASSUME k + 1 <= Len(seq) PROVE k + 1 \in Known
    OBVIOUS
  <2>1. f[k + 1] = IF seq[k + 1] \in keep THEN Append(f[k], seq[k + 1]) ELSE f[k]
    BY <1>1 DEF KeptFirst
  <2>2. /\ f[k] \in Seq(S) /\ Range(f[k]) = Range(SubSeq(seq, 1, k)) \cap keep
        /\ seq[k + 1] \in S /\ SubSeq(seq, 1, k) \in Seq(S) /\ k + 1 \in DOMAIN seq
    BY <1>3
  <2>3. SubSeq(seq, 1, k + 1) = Append(SubSeq(seq, 1, k), seq[k + 1])
    OBVIOUS
  <2>4. Range(SubSeq(seq, 1, k + 1)) = Range(SubSeq(seq, 1, k)) \cup {seq[k + 1]}
    <3> DEFINE part == SubSeq(seq, 1, k)
    <3>1. part \in Seq(S)
      BY <2>2
    <3> HIDE DEF part
    <3>2. Range(Append(part, seq[k + 1])) = Range(part) \cup {seq[k + 1]}
      BY <2>2, <3>1, RangeOfAppend
    <3> QED BY <2>3, <3>2 DEF part
  <2>5. CASE seq[k + 1] \in keep
    <3>1. f[k + 1] = Append(f[k], seq[k + 1]) /\ f[k + 1] \in Seq(S)
      BY <2>1, <2>2, <2>5
    <3>2. Range(f[k + 1]) = Range(f[k]) \cup {seq[k + 1]}
      BY <2>2, <3>1, RangeOfAppend
    <3>3. Range(f[k + 1]) = Range(SubSeq(seq, 1, k + 1)) \cap keep
      BY <2>2, <2>4, <2>5, <3>2, Zenon
    <3>4. Range(seq) \subseteq keep => f[k + 1] = SubSeq(seq, 1, k + 1)
      BY <1>3, <2>3, <3>1
    <3>5. k + 1 \in Nat
      OBVIOUS
    <3> QED BY <3>1, <3>3, <3>4, <3>5, Zenon
  <2>6. CASE seq[k + 1] \notin keep
    <3>1. f[k + 1] = f[k] /\ ~(Range(seq) \subseteq keep)
      BY <2>1, <2>2, <2>6 DEF Range
    <3> QED BY <2>2, <2>4, <2>6, <3>1
  <2> QED BY <2>5, <2>6
<1> HIDE DEF Known
<1>4. Len(seq) \in Known
  BY <1>2, <1>3, Induction
<1>5. SubSeq(seq, 1, Len(seq)) = seq
  OBVIOUS
<1>6. Len(seq) \in Nat /\ Len(seq) <= Len(seq)
  OBVIOUS
<1> QED BY <1>1, <1>4, <1>5, <1>6, Zenon DEF Known

-----------------------------------------------------------------------------
(* Walks over records *)

\* The walks a walk of k records consists of
WalkFirst(bytes, at, limit, f, k) ==
  /\ f = [n \in 0 .. k |-> f[n]]
  /\ f[0] = <<>>
  /\ \A n \in 1 .. k : f[n] = OneMore(bytes, at, limit, f[n - 1])

LEMMA WalkIsDefined ==
  ASSUME NEW bytes, NEW at, NEW limit
  PROVE  \A k \in Nat : \E f : WalkFirst(bytes, at, limit, f, k)
<1> DEFINE Known == {k \in Nat : \E f : WalkFirst(bytes, at, limit, f, k)}
<1>1. 0 \in Known
  <2>1. WalkFirst(bytes, at, limit, [n \in 0 .. 0 |-> <<>>], 0)
    BY DEF WalkFirst
  <2> QED BY <2>1
<1>2. ASSUME NEW k \in Nat, k \in Known PROVE k + 1 \in Known
  <2>1. PICK f : WalkFirst(bytes, at, limit, f, k)
    BY <1>2
  <2> DEFINE last == OneMore(bytes, at, limit, f[k])
             g == [n \in 0 .. k + 1 |-> IF n <= k THEN f[n] ELSE last]
  <2> HIDE DEF last
  <2>2. \A n \in 0 .. k : g[n] = f[n]
    OBVIOUS
  <2>3. g[k + 1] = last
    OBVIOUS
  <2>4. g = [n \in 0 .. k + 1 |-> g[n]]
    OBVIOUS
  <2> HIDE DEF g
  <2>5. g[0] = <<>> /\ g[k] = f[k]
    BY <2>1, <2>2 DEF WalkFirst
  <2>6. ASSUME NEW n \in 1 .. k + 1 PROVE g[n] = OneMore(bytes, at, limit, g[n - 1])
    <3>1. CASE n \in 1 .. k
      <4>1. n \in 0 .. k /\ n - 1 \in 0 .. k
        BY <3>1
      <4>2. g[n] = f[n] /\ g[n - 1] = f[n - 1]
        BY <2>2, <4>1
      <4> QED BY <2>1, <3>1, <4>2 DEF WalkFirst
    <3>2. CASE n = k + 1
      <4>1. n - 1 = k
        BY <3>2
      <4> QED BY <2>3, <2>5, <3>2, <4>1 DEF last
    <3> QED BY <3>1, <3>2
  <2>7. WalkFirst(bytes, at, limit, g, k + 1)
    BY <2>4, <2>5, <2>6, Zenon DEF WalkFirst
  <2> QED BY <2>7
<1> HIDE DEF Known
<1>3. Nat \subseteq Known
  BY <1>1, <1>2, Induction
<1> QED BY <1>3, Zenon DEF Known

\* A walk of at most n records is the last of them.
LEMMA WalkIsLast ==
  ASSUME NEW bytes, NEW at, NEW n \in Nat, NEW limit
  PROVE  \E f : WalkFirst(bytes, at, limit, f, n) /\ RecordsFrom(bytes, at, n, limit) = f[n]
<1> DEFINE Is(f) == f = [k \in 0 .. n |->
                           IF k = 0 THEN <<>> ELSE OneMore(bytes, at, limit, f[k - 1])]
<1>1. PICK g : WalkFirst(bytes, at, limit, g, n)
  BY WalkIsDefined
<1>2. Is(g)
  <2>1. \A k \in 0 .. n : k = 0 \/ k \in 1 .. n
    OBVIOUS
  <2>2. \A k \in 0 .. n :
           g[k] = IF k = 0 THEN <<>> ELSE OneMore(bytes, at, limit, g[k - 1])
    BY <1>1, <2>1 DEF WalkFirst
  <2> QED BY <1>1, <2>2 DEF WalkFirst
<1> DEFINE f == CHOOSE f : Is(f)
<1>3. Is(f)
  BY <1>2, Zenon
<1>4. RecordsFrom(bytes, at, n, limit) = f[n]
  BY DEF RecordsFrom
<1> HIDE DEF f
<1>5. WalkFirst(bytes, at, limit, f, n)
  <2>1. \A k \in 0 .. n : f[k] = IF k = 0 THEN <<>> ELSE OneMore(bytes, at, limit, f[k - 1])
    BY <1>3, Zenon
  <2>2. f = [k \in 0 .. n |-> f[k]]
    BY <1>3
  <2>3. f[0] = <<>>
    BY <2>1
  <2>4. \A k \in 1 .. n : k \in 0 .. n /\ k # 0
    OBVIOUS
  <2> QED BY <2>1, <2>2, <2>3, <2>4, Zenon DEF WalkFirst
<1> QED BY <1>4, <1>5

Spans == [at : Nat, end : Nat]

\* What is needed of an image: numbers, as far as the limit.
Readable(bytes, limit) == limit \in Nat /\ \A a \in 0 .. limit - 1 : bytes[a] \in Nat

\* One record after the other, each as long as its first byte says
IsWalk(bytes, at, limit, w) ==
  /\ w \in Seq(Spans)
  /\ \A k \in 1 .. Len(w) : /\ w[k].at < limit /\ w[k].end <= limit
                            /\ w[k].end = w[k].at + 1 + bytes[w[k].at]
  /\ w # <<>> => w[1].at = at
  /\ \A k \in 1 .. Len(w) : k < Len(w) => w[k + 1].at = w[k].end

\* A walk of at most n records that ends before only if no other fits
FullWalk(bytes, at, limit, n, w) ==
  /\ IsWalk(bytes, at, limit, w) /\ Len(w) <= n
  /\ Len(w) < n => OneMore(bytes, at, limit, w) = w

LEMMA OneMoreIsWalk ==
  ASSUME NEW bytes, NEW limit, Readable(bytes, limit), NEW at \in Nat,
         NEW w, IsWalk(bytes, at, limit, w)
  PROVE  /\ IsWalk(bytes, at, limit, OneMore(bytes, at, limit, w))
         /\ \/ OneMore(bytes, at, limit, w) = w
            \/ Len(OneMore(bytes, at, limit, w)) = Len(w) + 1
<1> DEFINE start == IF w = <<>> THEN at ELSE Last(w).end
           end == start + 1 + bytes[start]
           r == [at |-> start, end |-> end]
<1>1. w \in Seq(Spans) /\ Len(w) \in Nat
  BY DEF IsWalk
<1>2. start \in Nat /\ (w # <<>> => start = w[Len(w)].end)
  <2>1. CASE w = <<>>
    BY <2>1
  <2>2. CASE w # <<>>
    <3>1. Len(w) \in 1 .. Len(w)
      BY <1>1, <2>2
    <3>2. w[Len(w)] \in Spans
      BY <1>1, <3>1
    <3> QED BY <2>2, <3>2 DEF Spans, Last
  <2> QED BY <2>1, <2>2
<1>3. OneMore(bytes, at, limit, w) = IF start >= limit \/ end > limit THEN w ELSE Append(w, r)
  BY DEF OneMore
<1>4. CASE start >= limit \/ end > limit
  BY <1>3, <1>4
<1>5. CASE ~(start >= limit \/ end > limit)
  <2>1. limit \in Nat /\ bytes[start] \in Nat
    BY <1>2, <1>5 DEF Readable
  <2> HIDE DEF start
  <2>2. end \in Nat /\ end <= limit
    BY <1>2, <1>5, <2>1
  <2>3. r \in Spans /\ r.at = start /\ r.end = end
    BY <1>2, <2>2 DEF Spans
  <2>4. end = start + 1 + bytes[start]
    OBVIOUS
  <2> HIDE DEF r, end
  <2> DEFINE v == Append(w, r)
  <2>5. v \in Seq(Spans) /\ Len(v) = Len(w) + 1 /\ v[Len(w) + 1] = r
    BY <1>1, <2>3
  <2>6. \A k \in 1 .. Len(w) : v[k] = w[k]
    BY <1>1
  <2>7. w = <<>> <=> Len(w) = 0
    BY <1>1
  <2> HIDE DEF v
  <2>8. \A k \in 1 .. Len(v) : k \in 1 .. Len(w) \/ k = Len(w) + 1
    BY <1>1, <2>5
  <2>9. \A k \in 1 .. Len(v) : /\ v[k].at < limit /\ v[k].end <= limit
                               /\ v[k].end = v[k].at + 1 + bytes[v[k].at]
    <3>1. start < limit
      BY <1>2, <1>5, <2>1
    <3> QED BY <2>2, <2>3, <2>4, <2>5, <2>6, <2>8, <3>1 DEF IsWalk
  <2>10. v[1].at = at
    <3>1. CASE w = <<>>
      BY <2>3, <2>5, <2>7, <3>1 DEF start
    <3>2. CASE w # <<>>
      <4>1. 1 \in 1 .. Len(w)
        BY <1>1, <2>7, <3>2
      <4> QED BY <2>6, <3>2, <4>1 DEF IsWalk
    <3> QED BY <3>1, <3>2
  <2>11. ASSUME NEW k \in 1 .. Len(v), k < Len(v) PROVE v[k + 1].at = v[k].end
    <3>1. k \in 1 .. Len(w)
      BY <1>1, <2>5, <2>11
    <3>2. CASE k < Len(w)
      <4>1. k + 1 \in 1 .. Len(w)
        BY <1>1, <3>1, <3>2
      <4> QED BY <2>6, <3>1, <3>2, <4>1 DEF IsWalk
    <3>3. CASE k = Len(w)
      <4>1. w # <<>>
        BY <2>7, <3>1, <3>3
      <4> QED BY <1>2, <2>3, <2>5, <2>6, <3>1, <3>3, <4>1
    <3> QED BY <1>1, <3>1, <3>2, <3>3
  <2>12. IsWalk(bytes, at, limit, v)
    BY <2>5, <2>9, <2>10, <2>11 DEF IsWalk
  <2> QED BY <1>3, <1>5, <2>5, <2>12 DEF v
<1> QED BY <1>4, <1>5

\* What RecordsFrom returns
LEMMA RecordsAreWalk ==
  ASSUME NEW bytes, NEW limit, Readable(bytes, limit), NEW at \in Nat, NEW n \in Nat
  PROVE  FullWalk(bytes, at, limit, n, RecordsFrom(bytes, at, n, limit))
<1>1. PICK f : WalkFirst(bytes, at, limit, f, n) /\ RecordsFrom(bytes, at, n, limit) = f[n]
  BY WalkIsLast
<1> DEFINE Good(w, k) == FullWalk(bytes, at, limit, k, w)
           Known == {k \in Nat : k <= n => Good(f[k], k)}
<1>2. 0 \in Known
  <2>1. f[0] = <<>>
    BY <1>1 DEF WalkFirst
  <2>2. Good(<<>>, 0)
    BY DEF FullWalk, IsWalk
  <2> QED BY <2>1, <2>2
<1>3. ASSUME NEW k \in Nat, k \in Known PROVE k + 1 \in Known
  <2> SUFFICES ASSUME k + 1 <= n PROVE Good(f[k + 1], k + 1)
    OBVIOUS
  <2>1. f[k + 1] = OneMore(bytes, at, limit, f[k])
    BY <1>1 DEF WalkFirst
  <2>2. Good(f[k], k)
    BY <1>3
  <2> DEFINE w == f[k]
             v == OneMore(bytes, at, limit, w)
  <2> HIDE DEF w, v
  <2>3. IsWalk(bytes, at, limit, v) /\ (v = w \/ Len(v) = Len(w) + 1)
    BY <2>2, OneMoreIsWalk DEF w, v, FullWalk
  <2>4. Len(w) \in Nat /\ Len(w) <= k /\ (Len(w) < k => v = w)
    BY <2>2 DEF w, v, IsWalk, FullWalk
  <2>5. v = w => OneMore(bytes, at, limit, v) = v
    BY DEF v
  <2>6. Good(v, k + 1)
    BY <2>3, <2>4, <2>5 DEF FullWalk
  <2> QED BY <2>1, <2>6 DEF w, v
<1> HIDE DEF Known
<1>4. n \in Known
  BY <1>2, <1>3, Induction
<1> QED BY <1>1, <1>4 DEF Known

\* A record takes up space.
LEMMA WalkGrows ==
  ASSUME NEW bytes, NEW limit, Readable(bytes, limit), NEW at, NEW w, IsWalk(bytes, at, limit, w),
         NEW k \in 1 .. Len(w)
  PROVE  w[k] \in Spans /\ w[k].at < w[k].end /\ w[k].at < limit
<1>1. w \in Seq(Spans) /\ w[k] \in Spans /\ limit \in Nat
  BY DEF IsWalk, Readable
<1>2. w[k].end = w[k].at + 1 + bytes[w[k].at] /\ w[k].at < limit
  BY DEF IsWalk
<1> QED BY <1>1, <1>2 DEF Spans, Readable

\* The records of a walk lie one behind the other.
LEMMA WalkIsOrdered ==
  ASSUME NEW bytes, NEW limit, Readable(bytes, limit), NEW at, NEW w, IsWalk(bytes, at, limit, w),
         NEW k \in 1 .. Len(w)
  PROVE  \A l \in 1 .. Len(w) : k < l => w[k].end <= w[l].at
<1> DEFINE Known == {l \in Nat : l \in 1 .. Len(w) /\ k < l => w[k].end <= w[l].at}
<1>1. 0 \in Known
  OBVIOUS
<1>2. ASSUME NEW l \in Nat, l \in Known PROVE l + 1 \in Known
  <2> SUFFICES ASSUME l + 1 \in 1 .. Len(w), k < l + 1 PROVE w[k].end <= w[l + 1].at
    OBVIOUS
  <2>1. l \in 1 .. Len(w) /\ l < Len(w) /\ w \in Seq(Spans)
    BY DEF IsWalk
  <2>2. w[l + 1].at = w[l].end /\ w[l].end = w[l].at + 1 + bytes[w[l].at] /\ w[l].end <= limit
    BY <2>1 DEF IsWalk
  <2>3. w[k] \in Spans /\ w[l] \in Spans
    BY <2>1
  <2>5. CASE k = l
    BY <2>2, <2>3, <2>5 DEF Spans
  <2>6. CASE k < l
    <3>1. w[k].end <= w[l].at
      BY <1>2, <2>1, <2>6
    <3>2. w[l].at < w[l].end
      BY <2>1, WalkGrows
    <3> QED BY <2>2, <2>3, <3>1, <3>2 DEF Spans
  <2> QED BY <2>5, <2>6
<1> HIDE DEF Known
<1>3. Nat \subseteq Known
  BY <1>1, <1>2, Induction
<1> QED BY <1>3 DEF Known

\* A walk from a record of another walk goes along that one.
LEMMA SameWalk ==
  ASSUME NEW bytes, NEW limit, Readable(bytes, limit), NEW n \in Nat,
         NEW a, NEW w, FullWalk(bytes, a, limit, n, w),
         NEW b, NEW v, IsWalk(bytes, b, limit, v),
         NEW i \in 1 .. Len(w), w[i].at = b, i + Len(v) - 1 <= n
  PROVE  \A j \in 1 .. Len(v) : i + j - 1 \in 1 .. Len(w) /\ v[j] = w[i + j - 1]
<1> DEFINE Known == {j \in Nat : j \in 1 .. Len(v) => /\ i + j - 1 \in 1 .. Len(w)
                                                      /\ v[j] = w[i + j - 1]}
<1>0. Len(v) \in Nat /\ Len(w) \in Nat /\ v \in Seq(Spans) /\ w \in Seq(Spans)
  BY DEF IsWalk, FullWalk
<1>1. 0 \in Known
  OBVIOUS
<1>2. ASSUME NEW j \in Nat, j \in Known PROVE j + 1 \in Known
  <2> SUFFICES ASSUME j + 1 \in 1 .. Len(v)
               PROVE  i + j \in 1 .. Len(w) /\ v[j + 1] = w[i + j]
    OBVIOUS
  <2>1. CASE j = 0
    <3>1. v # <<>> /\ 1 \in 1 .. Len(v)
      BY <1>0, <2>1
    <3>2. v[1].at = w[i].at
      BY <3>1 DEF IsWalk, FullWalk
    <3>3. v[1].end = w[i].end
      BY <3>1, <3>2 DEF IsWalk, FullWalk
    <3>4. v[1] \in Spans /\ w[i] \in Spans
      BY <1>0, <3>1
    <3>5. v[1] = w[i]
      BY <3>2, <3>3, <3>4 DEF Spans
    <3> QED BY <2>1, <3>5
  <2>2. CASE j # 0
    <3>1. j \in 1 .. Len(v) /\ j < Len(v) /\ i + j - 1 \in 1 .. Len(w) /\ v[j] = w[i + j - 1]
      BY <1>0, <1>2, <2>2
    <3>2. v[j + 1].at = w[i + j - 1].end
      BY <3>1 DEF IsWalk, FullWalk
    <3>3. v[j + 1].end = v[j + 1].at + 1 + bytes[v[j + 1].at] /\ v[j + 1].end <= limit
      BY DEF IsWalk, FullWalk
    <3>4. v[j + 1] \in Spans
      BY <1>0
    <3>5. ASSUME i + j - 1 = Len(w) PROVE FALSE
      <4>1. w # <<>> /\ Last(w).end = v[j + 1].at
        BY <1>0, <3>2, <3>5 DEF Last
      <4>2. OneMore(bytes, a, limit, w) = w
        BY <1>0, <3>1, <3>5 DEF FullWalk
      <4>3. v[j + 1].at < limit
        BY <3>3, <3>4, WalkGrows, <1>0
      <4>4. OneMore(bytes, a, limit, w)
              = Append(w, [at |-> v[j + 1].at, end |-> v[j + 1].end])
        BY <3>3, <3>4, <4>1, <4>3 DEF OneMore, Spans, Readable
      <4>5. Len(Append(w, [at |-> v[j + 1].at, end |-> v[j + 1].end])) = Len(w) + 1
        BY <1>0, <3>4 DEF Spans
      <4> QED BY <1>0, <4>2, <4>4, <4>5
    <3>6. i + j \in 1 .. Len(w) /\ i + j - 1 < Len(w)
      BY <1>0, <3>1, <3>5
    <3>7. w[i + j].at = w[i + j - 1].end
      <4> DEFINE m == i + j - 1
      <4>1. m \in 1 .. Len(w) /\ m < Len(w) /\ m + 1 = i + j
        BY <3>1, <3>6
      <4> HIDE DEF m
      <4>2. w[m + 1].at = w[m].end
        BY <4>1 DEF IsWalk, FullWalk
      <4> QED BY <4>1, <4>2 DEF m
    <3>8. w[i + j] \in Spans /\ w[i + j].end = w[i + j].at + 1 + bytes[w[i + j].at]
      BY <1>0, <3>6 DEF IsWalk, FullWalk
    <3>9. v[j + 1].at = w[i + j].at /\ v[j + 1].end = w[i + j].end
      BY <3>2, <3>3, <3>7, <3>8
    <3> DEFINE x == v[j + 1]
               y == w[i + j]
    <3>10. x \in Spans /\ y \in Spans /\ x.at = y.at /\ x.end = y.end
      BY <3>4, <3>8, <3>9
    <3> HIDE DEF x, y
    <3>11. x = y
      BY <3>10 DEF Spans
    <3> QED BY <3>6, <3>11 DEF x, y
  <2> QED BY <2>1, <2>2
<1> HIDE DEF Known
<1>3. Nat \subseteq Known
  BY <1>1, <1>2, Induction
<1> QED BY <1>0, <1>3 DEF Known

\* A walk that may be as long as another from the same start has all of it.
LEMMA FullWalkHasAll ==
  ASSUME NEW bytes, NEW limit, Readable(bytes, limit), NEW n \in Nat, NEW at,
         NEW w, FullWalk(bytes, at, limit, n, w), NEW v, IsWalk(bytes, at, limit, v), Len(v) <= n
  PROVE  \A k \in 1 .. Len(v) : k \in 1 .. Len(w) /\ v[k] = w[k]
<1>0. v \in Seq(Spans) /\ Len(v) \in Nat
  BY DEF IsWalk
<1> SUFFICES ASSUME v # <<>> PROVE \A k \in 1 .. Len(v) : k \in 1 .. Len(w) /\ v[k] = w[k]
  BY <1>0
<1>1. 1 \in 1 .. Len(v) /\ v[1].at = at
  BY <1>0 DEF IsWalk
<1>2. w # <<>>
  <2> SUFFICES ASSUME w = <<>> PROVE FALSE
    OBVIOUS
  <2>1. /\ v[1] \in Spans /\ v[1].at < limit /\ v[1].end <= limit
        /\ v[1].end = v[1].at + 1 + bytes[v[1].at]
    BY <1>0, <1>1 DEF IsWalk
  <2>2. OneMore(bytes, at, limit, <<>>) = Append(<<>>, [at |-> at, end |-> v[1].end])
    BY <1>1, <2>1 DEF OneMore, Spans, Readable
  <2>3. Append(<<>>, [at |-> at, end |-> v[1].end]) # <<>>
    OBVIOUS
  <2>4. 0 < n /\ Len(<<>>) = 0
    BY <1>0, <1>1
  <2> QED BY <2>2, <2>3, <2>4 DEF FullWalk
<1>3. 1 \in 1 .. Len(w) /\ w[1].at = at
  BY <1>2 DEF IsWalk, FullWalk
<1>4. \A k \in 1 .. Len(v) : 1 + k - 1 \in 1 .. Len(w) /\ v[k] = w[1 + k - 1]
  BY <1>0, <1>3, SameWalk
<1> QED BY <1>0, <1>4

-----------------------------------------------------------------------------
(* The aligned stream *)

LEMMA ImageIsReadable ==
  ASSUME NEW img, IsImage(img)
  PROVE  /\ Readable(img.bytes, BankEnd)
         /\ \A s \in ValidSelectors(img) : Physical(img, s) \in Nat
<1>1. BankStart \in Nat /\ BankEnd \in Nat
  BY RecordsAssumption DEF BankStart, BankEnd
<1>2. ASSUME NEW s \in ValidSelectors(img) PROVE Physical(img, s) \in Nat
  <2>1. img.table[s] \in Nat /\ BankSize \in Nat /\ BankSize > 0
    BY RecordsAssumption DEF ValidSelectors, IsImage
  <2>2. img.table[s] % BankSize \in Nat
    BY <2>1
  <2> QED BY <1>1, <2>2 DEF Physical
<1> QED BY <1>1, <1>2 DEF Readable, IsImage

LEMMA MinOfNaturals ==
  ASSUME NEW S, S \subseteq Nat, S # {}
  PROVE  Min(S) \in S /\ \A k \in S : Min(S) <= k
<1>1. \E m \in S : \A k \in S : ~(<<k, m>> \in OpToRel(<, Nat))
  BY NatLessThanWellFounded, WFMin, Zenon
<1>2. PICK m \in S : \A k \in S : ~(k < m)
  BY <1>1 DEF OpToRel
<1>3. \A k \in S : m <= k
  BY <1>2
<1> QED BY <1>3 DEF Min

\* If all pointers point at records of one walk, all that the selectors can
\* address are records of one walk, if it is long enough.
LEMMA AddressedInOneWalk ==
  ASSUME NEW img, IsImage(img), NEW start \in Nat,
         \A p \in Pointers(img) :
            \E k \in DOMAIN RecordsFrom(img.bytes, start, MaxRecords, BankEnd) :
                RecordsFrom(img.bytes, start, MaxRecords, BankEnd)[k].at = p
  PROVE  \E w : /\ IsWalk(img.bytes, start, BankEnd, w)
                /\ \A q \in Population(img) :
                      \E k \in 1 .. Len(w) : w[k].at = q.at /\ w[k].end = q.end
<1> DEFINE n == MaxRecords + Addressable
           short == RecordsFrom(img.bytes, start, MaxRecords, BankEnd)
           w == RecordsFrom(img.bytes, start, n, BankEnd)
<1>1. MaxRecords \in Nat /\ Addressable \in Nat /\ n \in Nat
  BY RecordsAssumption
<1>2. Readable(img.bytes, BankEnd)
  BY ImageIsReadable
<1>3. IsWalk(img.bytes, start, BankEnd, short) /\ Len(short) <= MaxRecords
  BY <1>1, <1>2, RecordsAreWalk DEF FullWalk
<1>4. FullWalk(img.bytes, start, BankEnd, n, w)
  BY <1>1, <1>2, RecordsAreWalk
<1> HIDE DEF short, w
<1>6. \A k \in 1 .. Len(short) : k \in 1 .. Len(w) /\ short[k] = w[k]
  <2>1. Len(short) \in Nat /\ Len(short) <= n
    BY <1>1, <1>3 DEF IsWalk
  <2> HIDE DEF n
  <2> QED BY <1>1, <1>2, <1>3, <1>4, <2>1, FullWalkHasAll
<1>7. ASSUME NEW s \in ValidSelectors(img), NEW r \in Range(Addressed(img, s))
      PROVE  \E k \in 1 .. Len(w) : w[k] = r /\ r \in Spans
                /\ r.end = r.at + 1 + img.bytes[r.at]
  <2> DEFINE p == Physical(img, s)
             v == Addressed(img, s)
  <2>1. p \in Nat /\ p \in Pointers(img)
    BY ImageIsReadable DEF Pointers
  <2>2. IsWalk(img.bytes, p, BankEnd, v) /\ Len(v) <= Addressable
    BY <1>1, <1>2, <2>1, RecordsAreWalk DEF Addressed, FullWalk
  <2>3. PICK i \in DOMAIN short : short[i].at = p
    BY <2>1 DEF short
  <2>4. i \in 1 .. Len(short) /\ Len(short) \in Nat
    BY <1>3, <2>3 DEF IsWalk
  <2>5. i \in 1 .. Len(w) /\ w[i].at = p
    BY <1>6, <2>3, <2>4
  <2>6. Len(v) \in Nat /\ i + Len(v) - 1 <= n
    BY <1>1, <1>3, <2>2, <2>4 DEF IsWalk
  <2> HIDE DEF p, v, n
  <2>7. \A j \in 1 .. Len(v) : i + j - 1 \in 1 .. Len(w) /\ v[j] = w[i + j - 1]
    <3>1. Readable(img.bytes, BankEnd) /\ n \in Nat
      BY <1>1, <1>2
    <3>2. FullWalk(img.bytes, start, BankEnd, n, w) /\ IsWalk(img.bytes, p, BankEnd, v)
      BY <1>4, <2>2
    <3>3. i \in 1 .. Len(w) /\ w[i].at = p /\ i + Len(v) - 1 <= n
      BY <2>5, <2>6
    <3> QED BY <3>1, <3>2, <3>3, SameWalk, SMTT(30)
  <2>8. PICK j \in 1 .. Len(v) : v[j] = r
    BY <2>2 DEF Range, IsWalk, v
  <2>9. r \in Spans /\ r.end = r.at + 1 + img.bytes[r.at]
    BY <2>2, <2>8 DEF IsWalk
  <2> QED BY <2>7, <2>8, <2>9
<1>8. ASSUME NEW q \in Population(img)
      PROVE  \E k \in 1 .. Len(w) : w[k].at = q.at /\ w[k].end = q.end
  <2>1. PICK s \in ValidSelectors(img) :
          \E r \in Range(Addressed(img, s)) : q = RecordAt(img.bytes, r.at)
    BY DEF Population
  <2>2. PICK r \in Range(Addressed(img, s)) : q = RecordAt(img.bytes, r.at)
    BY <2>1
  <2>3. q.at = r.at /\ q.end = r.at + 1 + img.bytes[r.at]
    BY <2>2 DEF RecordAt
  <2> QED BY <1>7, <2>3
<1> QED BY <1>4, <1>8 DEF FullWalk

\* When the stream map is aligned, no two records that any selector can address
\* share a byte: a selector and an ordinal name one record
\* (v5_1_target_group_stream_map.py 219-245, population 139-201).
THEOREM AlignedIsDisjoint ==
  ASSUME NEW img, IsImage(img), NEW record, StreamStatus(img, record) = "aligned"
  PROVE  \A q, r \in Population(img) : q.at < r.at => q.end <= r.at
<1> SUFFICES ASSUME NEW q \in Population(img), NEW r \in Population(img), q.at < r.at
             PROVE  q.end <= r.at
  OBVIOUS
<1> DEFINE start == Min(Pointers(img))
           walk == RecordsFrom(img.bytes, start, MaxRecords, BankEnd)
           stream == Stream(img, record)
<1>1. Pointers(img) # {} /\ Pointers(img) \subseteq Nat
  BY ImageIsReadable DEF Pointers, Population
<1>2. start \in Nat
  BY <1>1, MinOfNaturals
<1>3. Pointers(img) \subseteq {stream[k].at : k \in DOMAIN stream}
  BY DEF StreamStatus
<1>4. Readable(img.bytes, BankEnd) /\ MaxRecords \in Nat
  BY ImageIsReadable, RecordsAssumption
<1>5. walk \in Seq(Spans)
  BY <1>2, <1>4, RecordsAreWalk DEF IsWalk, FullWalk
<1>6. Range(stream) \subseteq Range(walk)
  BY <1>5, KeptElements DEF Stream
<1> HIDE DEF stream, walk, start
<1>7. \A p \in Pointers(img) : \E k \in DOMAIN walk : walk[k].at = p
  BY <1>3, <1>6 DEF Range
<1>8. PICK w : /\ IsWalk(img.bytes, start, BankEnd, w)
               /\ \A x \in Population(img) : \E k \in 1 .. Len(w) : w[k].at = x.at /\ w[k].end = x.end
  BY <1>2, <1>7, AddressedInOneWalk DEF walk
<1>9. PICK k \in 1 .. Len(w) : w[k].at = q.at /\ w[k].end = q.end
  BY <1>8
<1>10. PICK l \in 1 .. Len(w) : w[l].at = r.at /\ w[l].end = r.end
  BY <1>8
<1>11. CASE k < l
  BY <1>4, <1>8, <1>9, <1>10, <1>11, WalkIsOrdered
<1>12. CASE l <= k
  <2>1. w[k] \in Spans /\ w[l] \in Spans /\ w[l].at < w[l].end
    BY <1>4, <1>8, WalkGrows
  <2>2. l < k => w[l].end <= w[k].at
    BY <1>4, <1>8, WalkIsOrdered
  <2>3. l = k => q.at = r.at
    BY <1>9, <1>10
  <2> QED BY <1>9, <1>10, <1>12, <2>1, <2>2, <2>3 DEF Spans
<1> QED BY <1>8, <1>11, <1>12 DEF IsWalk

=============================================================================
