------------------------- MODULE TraceAnalysisProofs -------------------------
(***************************************************************************)
(* Proofs about TraceAnalysis, for every program, every memory and windows *)
(* of any size.  What the four tools conclude rests on one invariant of the*)
(* trace: each event starts where the one before it left the pair, and     *)
(* leaves what its instruction makes of it (TraceInv).  The rest are facts *)
(* about the tools themselves, as functions of such a trace.               *)
(***************************************************************************)
EXTENDS TraceAnalysis, FiniteSetTheorems, TLAPS

Events == [op : Effects, at : Pair, value : Pair]

\* Each event leaves what its instruction makes of the pair, for the next one.
Chained(tr) ==
  \A i \in DOMAIN tr :
    /\ tr[i].value = After(tr[i].op, tr[i].at, tr[i].value)
    /\ i > 1 => tr[i].at = tr[i - 1].value

TraceInv == world \in Worlds /\ trace \in Seq(Events) /\ Chained(trace)

-----------------------------------------------------------------------------
(* Numbers *)

\* Induction with the set of the numbers a fact is known for.
LEMMA Induction ==
  ASSUME NEW Known, 0 \in Known, \A n \in Nat : n \in Known => n + 1 \in Known
  PROVE  Nat \subseteq Known
<1> SUFFICES ASSUME NEW n \in Nat \ Known PROVE FALSE
  OBVIOUS
<1>1. \E m \in Nat \ Known : \A k \in Nat \ Known : ~(<<k, m>> \in OpToRel(<, Nat))
  BY NatLessThanWellFounded, WFMin, Zenon
<1>2. PICK m \in Nat \ Known : \A k \in Nat \ Known : ~(k < m)
  BY <1>1 DEF OpToRel
<1> QED BY <1>2

LEMMA MinOfNaturals ==
  ASSUME NEW S \in SUBSET Nat, S # {}
  PROVE  Min(S) \in S /\ \A x \in S : Min(S) <= x
<1>1. \E m \in S : \A k \in S : ~(<<k, m>> \in OpToRel(<, Nat))
  BY NatLessThanWellFounded, WFMin, Zenon
<1>2. PICK m \in S : \A k \in S : ~(k < m)
  BY <1>1 DEF OpToRel
<1>3. \A k \in S : m <= k
  BY <1>2
<1>4. \E x \in S : \A k \in S : x <= k
  BY <1>3
<1> QED BY <1>4, Zenon DEF Min

\* What a pair of registers holds
LEMMA PairOfRemainder ==
  ASSUME NEW a \in Int
  PROVE  a % 65536 \in Pair
BY DEF Pair

LEMMA PairIsSmall ==
  ASSUME NEW a \in Pair
  PROVE  a \in Int /\ a >= 0 /\ a < 65536
BY DEF Pair

LEMMA MaxOfBounded ==
  ASSUME NEW n \in Nat, NEW S \in SUBSET Nat, \A x \in S : x <= n, S # {}
  PROVE  Max(S) \in S /\ \A x \in S : x <= Max(S)
<1> DEFINE B == {b \in Nat : \A x \in S : x <= b}
<1>1. B \in SUBSET Nat /\ n \in B
  OBVIOUS
<1>2. Min(B) \in B /\ \A b \in B : Min(B) <= b
  BY <1>1, MinOfNaturals
<1> DEFINE m == Min(B)
<1> HIDE DEF m
<1>3. m \in Nat /\ (\A x \in S : x <= m) /\ \A b \in B : m <= b
  BY <1>2 DEF m
<1>4. m \in S
  <2> SUFFICES ASSUME m \notin S PROVE FALSE
    OBVIOUS
  <2>1. \A x \in S : x <= m - 1
    BY <1>3
  <2>2. m - 1 \in Nat
    <3>1. PICK x : x \in S
      OBVIOUS
    <3>2. x \in Nat /\ x <= m - 1
      BY <2>1, <3>1
    <3> QED BY <1>3, <3>2
  <2>3. m - 1 \in B
    BY <2>1, <2>2
  <2> QED BY <2>3, <1>3
<1>5. \E x \in S : \A y \in S : x >= y
  BY <1>3, <1>4
<1>6. Max(S) \in S /\ \A y \in S : Max(S) >= y
  BY <1>5, Zenon DEF Max
<1> QED BY <1>6

-----------------------------------------------------------------------------
(* The trace *)

\* The traces a run over the first k instructions passes through
RunFirst(tr, more, f, k) ==
  /\ f = [n \in 0 .. k |-> f[n]]
  /\ f[0] = tr
  /\ \A n \in 1 .. k : f[n] = Step(f[n - 1], more[n])

LEMMA RunIsDefined ==
  ASSUME NEW tr, NEW more
  PROVE  \A k \in Nat : \E f : RunFirst(tr, more, f, k)
<1> DEFINE Known == {k \in Nat : \E f : RunFirst(tr, more, f, k)}
<1>1. 0 \in Known
  <2>1. RunFirst(tr, more, [n \in 0 .. 0 |-> tr], 0)
    BY DEF RunFirst
  <2> QED BY <2>1
<1>2. ASSUME NEW k \in Nat, k \in Known PROVE k + 1 \in Known
  <2>1. PICK f : RunFirst(tr, more, f, k)
    BY <1>2
  <2> DEFINE last == Step(f[k], more[k + 1])
             g == [n \in 0 .. k + 1 |-> IF n <= k THEN f[n] ELSE last]
  <2> HIDE DEF last
  <2>2. \A n \in 0 .. k : g[n] = f[n]
    OBVIOUS
  <2>3. g[k + 1] = last
    OBVIOUS
  <2>4. g = [n \in 0 .. k + 1 |-> g[n]]
    OBVIOUS
  <2> HIDE DEF g
  <2>5. g[0] = tr /\ g[k] = f[k]
    BY <2>1, <2>2 DEF RunFirst
  <2>6. ASSUME NEW n \in 1 .. k + 1 PROVE g[n] = Step(g[n - 1], more[n])
    <3>1. CASE n \in 1 .. k
      <4>1. n \in 0 .. k /\ n - 1 \in 0 .. k
        BY <3>1
      <4>2. g[n] = f[n] /\ g[n - 1] = f[n - 1]
        BY <2>2, <4>1
      <4> QED BY <2>1, <3>1, <4>2 DEF RunFirst
    <3>2. CASE n = k + 1
      <4>1. n - 1 = k
        BY <3>2
      <4> QED BY <2>3, <2>5, <3>2, <4>1 DEF last
    <3> QED BY <3>1, <3>2
  <2>7. RunFirst(tr, more, g, k + 1)
    BY <2>4, <2>5, <2>6, Zenon DEF RunFirst
  <2> QED BY <2>7
<1> HIDE DEF Known
<1>3. Nat \subseteq Known
  BY <1>1, <1>2, Induction
<1> QED BY <1>3, Zenon DEF Known

\* What Run returns is the last of them.
LEMMA RunIsLast ==
  ASSUME NEW tr, NEW more, Len(more) \in Nat
  PROVE  \E f : RunFirst(tr, more, f, Len(more)) /\ Run(tr, more) = f[Len(more)]
<1> DEFINE Is(f) == f = [n \in 0 .. Len(more) |->
                           IF n = 0 THEN tr ELSE Step(f[n - 1], more[n])]
<1>1. PICK g : RunFirst(tr, more, g, Len(more))
  BY RunIsDefined
<1>2. Is(g)
  <2>1. \A n \in 0 .. Len(more) : n = 0 \/ n \in 1 .. Len(more)
    OBVIOUS
  <2>2. \A n \in 0 .. Len(more) : g[n] = IF n = 0 THEN tr ELSE Step(g[n - 1], more[n])
    BY <1>1, <2>1 DEF RunFirst
  <2> QED BY <1>1, <2>2 DEF RunFirst
<1> DEFINE f == CHOOSE f : Is(f)
<1>3. Is(f)
  BY <1>2, Zenon
<1>4. Run(tr, more) = f[Len(more)]
  BY DEF Run
<1> HIDE DEF f
<1>5. RunFirst(tr, more, f, Len(more))
  <2>1. \A n \in 0 .. Len(more) : f[n] = IF n = 0 THEN tr ELSE Step(f[n - 1], more[n])
    BY <1>3, Zenon
  <2>2. f = [n \in 0 .. Len(more) |-> f[n]]
    BY <1>3
  <2>3. f[0] = tr
    BY <2>1
  <2>4. \A n \in 1 .. Len(more) : n \in 0 .. Len(more) /\ n # 0
    OBVIOUS
  <2> QED BY <2>1, <2>2, <2>3, <2>4, Zenon DEF RunFirst
<1> QED BY <1>4, <1>5

LEMMA OperandsArePairs ==
  Operands \subseteq Pair /\ Min(Operands) \in Pair /\ Max(Operands) \in Pair
<1>1. Operands \subseteq Pair /\ Operands # {}
  BY TraceAssumption
<1>2. \A x \in Pair : x \in Nat
  BY PairIsSmall
<1>3. Operands \in SUBSET Nat
  BY <1>1, <1>2
<1>4. Min(Operands) \in Operands
  BY <1>1, <1>3, MinOfNaturals, Zenon
<1>5. ASSUME NEW x \in Pair PROVE x <= 65535
  BY PairIsSmall
<1>6. Max(Operands) \in Operands
  <2>1. PICK n \in Nat : \A x \in Operands : x <= n
    BY <1>1, <1>5
  <2> QED BY <1>1, <1>3, <2>1, MaxOfBounded
<1> QED BY <1>1, <1>4, <1>6, Zenon

LEMMA AfterIsPair ==
  ASSUME NEW op \in Effects, NEW at \in Pair, NEW v \in Pair
  PROVE  /\ After(op, at, v) \in Pair
         /\ After(op, at, v) = After(op, at, After(op, at, v))
<1>1. (at + 1) % 65536 \in Pair /\ (at - 1) % 65536 \in Pair
  <2>1. at + 1 \in Int /\ at - 1 \in Int
    BY PairIsSmall
  <2> QED BY <2>1, PairOfRemainder
<1> QED BY <1>1 DEF After, Effects, Loads, Cursor

LEMMA StepKeeps ==
  ASSUME NEW tr \in Seq(Events), Chained(tr), NEW e, e.op \in Effects, e.value \in Pair
  PROVE  Step(tr, e) \in Seq(Events) /\ Chained(Step(tr, e))
<1> DEFINE at == IF tr = <<>> THEN Min(Operands) ELSE Last(tr).value
           event == Event(e.op, at, e.value)
<1>1. Min(Operands) \in Pair
  BY OperandsArePairs
<1>2. at \in Pair /\ (tr # <<>> => at = tr[Len(tr)].value)
  <2>1. CASE tr = <<>>
    BY <1>1, <2>1
  <2>2. CASE tr # <<>>
    <3>1. tr[Len(tr)] \in Events
      BY <2>2
    <3> QED BY <2>2, <3>1 DEF Last, Events
  <2> QED BY <2>1, <2>2
<1> HIDE DEF at
<1>3. /\ event \in Events /\ event.at = at
      /\ event.value = After(event.op, event.at, event.value)
  BY <1>2, AfterIsPair DEF Event, Events
<1> HIDE DEF event
<1>4. Step(tr, e) = Append(tr, event)
  BY DEF Step, event, at
<1>5. Append(tr, event) \in Seq(Events)
  BY <1>3
<1>6. ASSUME NEW i \in DOMAIN Append(tr, event)
      PROVE  /\ Append(tr, event)[i].value
                  = After(Append(tr, event)[i].op, Append(tr, event)[i].at,
                          Append(tr, event)[i].value)
             /\ i > 1 => Append(tr, event)[i].at = Append(tr, event)[i - 1].value
  <2>1. CASE i \in DOMAIN tr
    <3>1. Append(tr, event)[i] = tr[i]
      BY <1>3, <2>1
    <3>2. i > 1 => Append(tr, event)[i - 1] = tr[i - 1]
      BY <1>3, <2>1
    <3> QED BY <2>1, <3>1, <3>2 DEF Chained
  <2>2. CASE i = Len(tr) + 1
    <3>1. Append(tr, event)[i] = event
      BY <1>3, <2>2
    <3>2. i > 1 => /\ tr # <<>> /\ i - 1 = Len(tr)
                   /\ Append(tr, event)[i - 1] = tr[Len(tr)]
      BY <1>3, <2>2
    <3> QED BY <1>2, <1>3, <3>1, <3>2
  <2>3. i \in DOMAIN tr \/ i = Len(tr) + 1
    BY <1>3
  <2> QED BY <2>1, <2>2, <2>3
<1> QED BY <1>4, <1>5, <1>6 DEF Chained

LEMMA RunKeeps ==
  ASSUME NEW tr \in Seq(Events), Chained(tr), NEW more, Len(more) \in Nat,
         \A k \in 1 .. Len(more) : more[k].op \in Effects /\ more[k].value \in Pair
  PROVE  Run(tr, more) \in Seq(Events) /\ Chained(Run(tr, more))
<1>1. PICK f : RunFirst(tr, more, f, Len(more)) /\ Run(tr, more) = f[Len(more)]
  BY RunIsLast
<1> DEFINE Known == {k \in Nat : k <= Len(more) => f[k] \in Seq(Events) /\ Chained(f[k])}
<1>2. f[0] = tr /\ \A n \in 1 .. Len(more) : f[n] = Step(f[n - 1], more[n])
  BY <1>1 DEF RunFirst
<1>3. ASSUME NEW k \in Nat, k \in Known PROVE k + 1 \in Known
  <2> SUFFICES ASSUME k + 1 <= Len(more)
               PROVE  f[k + 1] \in Seq(Events) /\ Chained(f[k + 1])
    OBVIOUS
  <2>1. k + 1 \in 1 .. Len(more) /\ k + 1 - 1 = k
    OBVIOUS
  <2>2. f[k + 1] = Step(f[k], more[k + 1])
    BY <1>2, <2>1
  <2>3. f[k] \in Seq(Events) /\ Chained(f[k])
    BY <1>3
  <2> QED BY <2>1, <2>2, <2>3, StepKeeps
<1> HIDE DEF Known
<1>4. Len(more) \in Known
  <2>1. 0 \in Known
    BY <1>2 DEF Known
  <2> QED BY <1>3, <2>1, Induction
<1>5. f[Len(more)] \in Seq(Events) /\ Chained(f[Len(more)])
  BY <1>4 DEF Known
<1> QED BY <1>1, <1>5

LEMMA InitTrace == Init => TraceInv
<1> SUFFICES ASSUME Init PROVE TraceInv
  OBVIOUS
<1>1. world \in Worlds /\ trace = <<>>
  BY DEF Init
<1> QED BY <1>1 DEF TraceInv, Chained

LEMMA ExecuteKeeps ==
  ASSUME TraceInv, NEW block \in Program, Execute(block)
  PROVE  TraceInv'
<1>1. PICK v \in IF "literal" \in ToSet(block) THEN Operands ELSE {Max(Operands)} :
        trace' = Run(trace, [k \in DOMAIN block |-> [op |-> block[k], value |-> v]])
  BY DEF Execute
<1>2. v \in Pair
  <2>1. (IF "literal" \in ToSet(block) THEN Operands ELSE {Max(Operands)}) \subseteq Pair
    BY OperandsArePairs
  <2> QED BY <1>1, <2>1
<1> DEFINE more == [k \in DOMAIN block |-> [op |-> block[k], value |-> v]]
<1>3. block \in Seq(Effects)
  BY ProgramAssumption
<1>4. DOMAIN more = 1 .. Len(block) /\ Len(more) = Len(block)
  BY <1>3
<1>5. Len(more) \in Nat
      /\ \A k \in 1 .. Len(more) : more[k].op \in Effects /\ more[k].value \in Pair
  BY <1>2, <1>3, <1>4
<1>6. trace' = Run(trace, more)
  BY <1>1
<1> HIDE DEF more
<1>7. trace' \in Seq(Events) /\ Chained(trace')
  BY <1>5, <1>6, RunKeeps DEF TraceInv
<1>8. world' = world
  BY DEF Execute
<1> QED BY <1>7, <1>8 DEF TraceInv, Chained

LEMMA LoopKeeps ==
  ASSUME TraceInv, Loop
  PROVE  TraceInv'
<1>1. trace \in Seq(Events) /\ Chained(trace)
  BY DEF TraceInv
<1>2. Len(trace) \in Nat
      /\ \A k \in 1 .. Len(trace) : trace[k].op \in Effects /\ trace[k].value \in Pair
  <2>1. \A k \in 1 .. Len(trace) : trace[k] \in Events
    BY <1>1
  <2> QED BY <1>1, <2>1 DEF Events
<1>3. trace' \in Seq(Events) /\ Chained(trace')
  BY <1>1, <1>2, RunKeeps DEF Loop
<1> QED BY <1>3 DEF TraceInv, Chained, Loop

\* The trace is one run of the processor, at every moment.
THEOREM TraceInvariant == Spec => []TraceInv
<1>1. TraceInv /\ [Next]_vars => TraceInv'
  <2> SUFFICES ASSUME TraceInv, [Next]_vars PROVE TraceInv'
    OBVIOUS
  <2>1. CASE \E block \in Program : Execute(block)
    BY <2>1, ExecuteKeeps
  <2>2. CASE Loop
    BY <2>2, LoopKeeps
  <2>3. CASE UNCHANGED vars
    BY <2>3 DEF vars, TraceInv, Chained
  <2> QED BY <2>1, <2>2, <2>3 DEF Next
<1> QED BY <1>1, InitTrace, PTL DEF Spec

-----------------------------------------------------------------------------
(* Counting *)

\* What the invariant says of single events
LEMMA EventFacts ==
  ASSUME TraceInv
  PROVE  /\ Len(trace) \in Nat /\ DOMAIN trace = 1 .. Len(trace)
         /\ \A i \in DOMAIN trace :
              trace[i].op \in Effects /\ trace[i].at \in Pair /\ trace[i].value \in Pair
         /\ TargetEvents \subseteq DOMAIN trace /\ IsFiniteSet(DOMAIN trace)
<1>1. trace \in Seq(Events)
  BY DEF TraceInv
<1>2. Len(trace) \in Nat /\ DOMAIN trace = 1 .. Len(trace)
  BY <1>1
<1>3. \A i \in DOMAIN trace : trace[i] \in Events
  BY <1>1
<1>4. \A i \in DOMAIN trace :
        trace[i].op \in Effects /\ trace[i].at \in Pair /\ trace[i].value \in Pair
  BY <1>3 DEF Events
<1>5. IsFiniteSet(DOMAIN trace)
  BY <1>2, FS_Interval
<1> QED BY <1>2, <1>4, <1>5 DEF TargetEvents

\* The values a function has on a finite set: fewer than the set has elements,
\* unless the function tells them apart.
LEMMA Image ==
  ASSUME NEW S, IsFiniteSet(S), NEW f, NEW T, T = {f[x] : x \in S}
  PROVE  /\ IsFiniteSet(T) /\ Cardinality(T) \in Nat
         /\ Cardinality(T) <= Cardinality(S)
         /\ (\A x, y \in S : f[x] = f[y] => x = y) => Cardinality(T) = Cardinality(S)
<1> DEFINE g == [x \in S |-> f[x]]
<1>1. g \in Surjection(S, T)
  BY DEF Surjection
<1>2. /\ IsFiniteSet(T) /\ Cardinality(T) <= Cardinality(S)
      /\ Cardinality(T) = Cardinality(S) <=> g \in Injection(S, T)
  BY <1>1, FS_Surjection
<1>3. ASSUME \A x, y \in S : f[x] = f[y] => x = y
      PROVE  g \in Injection(S, T)
  BY <1>3 DEF Injection, IsInjective
<1>4. Cardinality(T) \in Nat
  BY <1>2, FS_CardinalityType
<1> QED BY <1>2, <1>3, <1>4

\* The sizes of the parts of a finite set, by the part, add up to its size.
LEMMA SumOfParts ==
  ASSUME NEW M, IsFiniteSet(M), NEW C, IsFiniteSet(C), NEW part, \A i \in M : part[i] \in C
  PROVE  SumFunction([c \in C |-> Cardinality({i \in M : part[i] = c})]) = Cardinality(M)
<1> DEFINE size == [c \in C |-> Cardinality({i \in M : part[i] = c})]
           In(s) == {i \in M : part[i] \in s}
           Is(sum) == sum = [s \in SUBSET C |->
                               IF s = {} THEN 0
                               ELSE size[CHOOSE x \in s : TRUE]
                                      + sum[s \ {CHOOSE x \in s : TRUE}]]
           known == [s \in SUBSET C |-> Cardinality(In(s))]
<1>1. \A s : IsFiniteSet(In(s)) /\ Cardinality(In(s)) \in Nat
  BY FS_Subset, FS_CardinalityType
<1>2. ASSUME NEW s \in SUBSET C, s # {}
      PROVE  Cardinality(In(s)) = size[CHOOSE x \in s : TRUE]
                                    + Cardinality(In(s \ {CHOOSE x \in s : TRUE}))
  <2> DEFINE x == CHOOSE x \in s : TRUE
  <2>1. x \in s /\ x \in C
    BY <1>2
  <2> HIDE DEF x
  <2>2. size[x] = Cardinality(In({x}))
    BY <2>1
  <2>3. In(s) = In({x}) \cup In(s \ {x}) /\ In({x}) \cap In(s \ {x}) = {}
    BY <2>1
  <2> HIDE DEF In, size
  <2>4. Cardinality(In(s)) = Cardinality(In({x})) + Cardinality(In(s \ {x})) - Cardinality({})
    BY <1>1, <2>3, FS_Union
  <2>5. Cardinality({}) = 0
    BY FS_EmptySet
  <2> QED BY <1>1, <2>2, <2>4, <2>5 DEF x
<1>3. Cardinality(In({})) = 0
  <2>1. In({}) = {}
    OBVIOUS
  <2> QED BY <2>1, FS_EmptySet
<1>4. Is(known)
  <2>1. \A s \in SUBSET C : known[s] = Cardinality(In(s)) /\ s \ {CHOOSE x \in s : TRUE} \in SUBSET C
    OBVIOUS
  <2> HIDE DEF In, size
  <2>2. \A s \in SUBSET C : known[s] = IF s = {} THEN 0
                               ELSE size[CHOOSE x \in s : TRUE]
                                      + known[s \ {CHOOSE x \in s : TRUE}]
    BY <1>2, <1>3, <2>1
  <2>3. known = [s \in SUBSET C |-> known[s]]
    OBVIOUS
  <2> HIDE DEF known
  <2> QED BY <2>2, <2>3
<1> DEFINE sum == CHOOSE f : Is(f)
<1>5. Is(sum)
  BY <1>4, Zenon
<1>6. SumFunction(size) = sum[C]
  BY DEF SumFunction, SumFunctionOnSet, FoldFunctionOnSet, MapThenFoldSet
<1> HIDE DEF sum, known
<1> DEFINE Known == {n \in Nat : \A s \in SUBSET C :
                       Cardinality(s) = n => sum[s] = Cardinality(In(s))}
<1>7. \A s \in SUBSET C :
        sum[s] = IF s = {} THEN 0
                 ELSE size[CHOOSE x \in s : TRUE] + sum[s \ {CHOOSE x \in s : TRUE}]
  BY <1>5, Zenon
<1>8. \A s \in SUBSET C : IsFiniteSet(s) /\ (Cardinality(s) = 0 <=> s = {})
  BY FS_Subset, FS_EmptySet
<1> HIDE DEF size, In
<1>9. 0 \in Known
  BY <1>3, <1>7, <1>8
<1>10. ASSUME NEW n \in Nat, n \in Known PROVE n + 1 \in Known
  <2> SUFFICES ASSUME NEW s \in SUBSET C, Cardinality(s) = n + 1
               PROVE  sum[s] = Cardinality(In(s))
    OBVIOUS
  <2> DEFINE x == CHOOSE x \in s : TRUE
  <2>1. s # {} /\ x \in s
    BY <1>8
  <2>2. sum[s] = size[x] + sum[s \ {x}]
    BY <1>7, <2>1
  <2>3. Cardinality(In(s)) = size[x] + Cardinality(In(s \ {x}))
    BY <1>2, <2>1
  <2> HIDE DEF x
  <2>4. s \ {x} \in SUBSET C /\ Cardinality(s \ {x}) = n
    <3>1. IsFiniteSet(s)
      BY <1>8
    <3>2. Cardinality(s \ {x}) = Cardinality(s) - 1
      BY <2>1, <3>1, FS_RemoveElement, Zenon
    <3>3. Cardinality(s \ {x}) = n
      BY <3>2
    <3>4. s \ {x} \in SUBSET C
      OBVIOUS
    <3> QED BY <3>3, <3>4
  <2>5. sum[s \ {x}] = Cardinality(In(s \ {x}))
    BY <1>10, <2>4
  <2> QED BY <2>2, <2>3, <2>5
<1>11. Nat \subseteq Known
  <2> HIDE DEF Known
  <2> QED BY <1>9, <1>10, Induction
<1>12. C \in SUBSET C /\ Cardinality(C) \in Nat
  BY FS_CardinalityType
<1>13. sum[C] = Cardinality(In(C))
  BY <1>11, <1>12
<1>14. In(C) = M
  BY DEF In
<1> QED BY <1>6, <1>13, <1>14 DEF size

LEMMA LoadsAreFinite == IsFiniteSet(Loads)
<1>1. IsFiniteSet({"literal"} \cup {"arithmetic"})
  BY FS_Singleton, FS_AddElement
<1>2. IsFiniteSet({"literal"} \cup {"arithmetic"} \cup {"memory"})
  BY <1>1, FS_AddElement
<1>3. IsFiniteSet({"literal"} \cup {"arithmetic"} \cup {"memory"} \cup {"stack"})
  BY <1>2, FS_AddElement
<1>4. IsFiniteSet({"literal"} \cup {"arithmetic"} \cup {"memory"} \cup {"stack"} \cup {"split"})
  BY <1>3, FS_AddElement
<1>5. Loads = {"literal"} \cup {"arithmetic"} \cup {"memory"} \cup {"stack"} \cup {"split"}
  BY DEF Loads
<1> QED BY <1>4, <1>5

-----------------------------------------------------------------------------
(* The source window *)

LEMMA ReadsAreKnown ==
  ASSUME TraceInv
  PROVE  /\ IsFiniteSet(TargetEvents) /\ IsFiniteSet(MatchingReads)
         /\ MatchingReads \subseteq TargetEvents
         /\ \A i \in TargetEvents : trace[i].at \in Pair /\ trace[i].at \in Nat
<1>1. MatchingReads \subseteq TargetEvents
  BY DEF MatchingReads
<1>2. IsFiniteSet(TargetEvents) /\ \A i \in TargetEvents : trace[i].at \in Pair
  BY EventFacts, FS_Subset
<1>3. IsFiniteSet(MatchingReads)
  BY <1>1, <1>2, FS_Subset
<1>4. \A a \in Pair : a \in Nat
  BY DEF Pair
<1> QED BY <1>1, <1>2, <1>3, <1>4

LEMMA SourceIsARead ==
  ASSUME TraceInv, Confirmed
  PROVE  LogicalSource \in Nat /\ LogicalSource < RomEnd
<1>1. TargetEvents \in SUBSET Nat /\ \A i \in TargetEvents : i <= Len(trace)
  BY EventFacts
<1>2. Max(TargetEvents) \in TargetEvents
  BY <1>1, EventFacts, MaxOfBounded DEF Confirmed
<1> QED BY <1>2, ReadsAreKnown DEF Confirmed, LogicalSource

\* Two addresses of one window are told apart by their place in the bank.
LEMMA SameRemainder ==
  ASSUME NEW p \in Int, NEW a \in Nat, NEW b \in Nat,
         a \div 16384 = b \div 16384, p + (a % 16384) = p + (b % 16384)
  PROVE  a = b
<1>1. ASSUME NEW x \in Nat
      PROVE  /\ x % 16384 \in Int /\ x \div 16384 \in Int
             /\ x = 16384 * (x \div 16384) + (x % 16384)
  OBVIOUS
<1>2. ASSUME NEW q \in Int, NEW r \in Int, p + q = p + r PROVE q = r
  BY <1>2
<1>3. a % 16384 = b % 16384
  BY <1>1, <1>2
<1> QED BY <1>1, <1>3

LEMMA PhysicalIsInjective ==
  ASSUME NEW bank \in Nat, NEW a \in Nat, NEW b \in Nat,
         SourceSlot(a) = SourceSlot(b), Physical(bank, a) = Physical(bank, b)
  PROVE  a = b
<1>1. a \div 16384 = b \div 16384
  BY DEF SourceSlot, SlotSize
<1>2. bank * 16384 + (a % 16384) = bank * 16384 + (b % 16384)
  BY DEF Physical, SlotSize
<1>3. bank * 16384 \in Int
  OBVIOUS
<1> HIDE DEF SourceSlot, Physical
<1> QED BY <1>1, <1>2, <1>3, SameRemainder

LEMMA BlockFields ==
  LET block == AnalyzeReads(MatchingReads)
      logical == Unique(MatchingReads)
  IN  /\ block.occurrences = Cardinality(MatchingReads)
      /\ block.unique = Cardinality(logical)
      /\ block.projected = Cardinality({Physical(world.bank, a) : a \in logical})
      /\ block.repeated = Cardinality(MatchingReads) - Cardinality(logical)
      /\ block.script = Cardinality(ScriptMatches({Physical(world.bank, a) : a \in logical}))
BY Zenon DEF AnalyzeReads

LEMMA ReadBlockIsValid ==
  ASSUME TraceInv
  PROVE  ValidReadBlock(AnalyzeReads(MatchingReads))
<1> DEFINE reads == MatchingReads
           logical == Unique(reads)
           physical == {Physical(world.bank, a) : a \in logical}
           at == [i \in reads |-> trace[i].at]
           place == [a \in logical |-> Physical(world.bank, a)]
<1>1. IsFiniteSet(reads) /\ logical = {at[i] : i \in reads}
  BY ReadsAreKnown DEF Unique
<1>2. IsFiniteSet(logical) /\ Cardinality(logical) \in Nat /\ Cardinality(logical) <= Cardinality(reads)
  <2> HIDE DEF at, reads, logical
  <2> QED BY <1>1, Image
<1>3. \A a, b \in logical : place[a] = place[b] => a = b
  <2> SUFFICES ASSUME NEW i \in reads, NEW j \in reads,
                      Physical(world.bank, trace[i].at) = Physical(world.bank, trace[j].at)
               PROVE  trace[i].at = trace[j].at
    BY DEF Unique
  <2>1. world.bank \in Nat
    BY WorldsAssumption DEF TraceInv
  <2>2. trace[i].at \in Nat /\ trace[j].at \in Nat /\ SourceSlot(trace[i].at) = SourceSlot(trace[j].at)
    BY ReadsAreKnown DEF MatchingReads
  <2> QED BY <2>1, <2>2, PhysicalIsInjective
<1>4. physical = {place[a] : a \in logical}
  OBVIOUS
<1>5. Cardinality(physical) = Cardinality(logical)
  <2> HIDE DEF place, physical, logical
  <2> QED BY <1>2, <1>3, <1>4, Image
<1>6. Cardinality(reads) \in Nat
  BY <1>1, FS_CardinalityType
<1> HIDE DEF reads, logical, physical
<1>7. LET block == AnalyzeReads(MatchingReads)
      IN  /\ block.occurrences = Cardinality(reads)
          /\ block.unique = Cardinality(logical)
          /\ block.projected = Cardinality(physical)
          /\ block.repeated = Cardinality(reads) - Cardinality(logical)
  BY BlockFields, Zenon DEF reads, logical, physical
<1> QED BY <1>2, <1>5, <1>6, <1>7 DEF ValidReadBlock

-----------------------------------------------------------------------------
(* Definitions before an event *)

\* The last definition in a window, of those with some effects
LEMMA LastDefinition ==
  ASSUME TraceInv, NEW i \in DOMAIN trace, NEW window,
         NEW seen \in SUBSET Definitions(i, window), seen # {}
  PROVE  /\ Max(seen) \in seen /\ \A j \in seen : j <= Max(seen)
         /\ Max(seen) \in DOMAIN trace /\ Max(seen) < i
         /\ trace[Max(seen)].op \in Loads \cup Cursor
<1>1. \A j \in Definitions(i, window) :
        j \in Nat /\ j >= 1 /\ j < i /\ trace[j].op \in Loads \cup Cursor
  BY EventFacts DEF Definitions, Defines
<1>2. i \in Nat /\ i <= Len(trace)
  BY EventFacts
<1>3. seen \in SUBSET Nat /\ \A j \in seen : j <= i
  BY <1>1, <1>2
<1>4. Max(seen) \in seen /\ \A j \in seen : j <= Max(seen)
  BY <1>2, <1>3, MaxOfBounded
<1> QED BY <1>1, <1>2, <1>4, EventFacts

LEMMA LookupIsValid ==
  ASSUME TraceInv
  PROVE  ValidLookup(AnalyzeLookupIndexProducer)
<1> DEFINE matched == {i \in TargetEvents : Definitions(i, BackWindow) # {}}
           producer == [i \in matched |-> Max(Definitions(i, BackWindow))]
           category == [i \in matched |-> Category(trace[producer[i]].op)]
           Kinds == Loads \cup {"incremental"}
           counted == [c \in Kinds |-> Cardinality({i \in matched : category[i] = c})]
<1>1. /\ AnalyzeLookupIndexProducer.events = Cardinality(TargetEvents)
      /\ AnalyzeLookupIndexProducer.matched = Cardinality(matched)
      /\ AnalyzeLookupIndexProducer.counted = counted
  BY Zenon DEF AnalyzeLookupIndexProducer
<1>2. /\ IsFiniteSet(matched) /\ Cardinality(matched) \in Nat
      /\ Cardinality(TargetEvents) \in Nat
      /\ Cardinality(matched) <= Cardinality(TargetEvents)
  BY ReadsAreKnown, FS_Subset, FS_CardinalityType
<1>3. IsFiniteSet(Kinds)
  BY LoadsAreFinite, FS_AddElement
<1>4. ASSUME NEW i \in matched PROVE category[i] \in Kinds
  <2>1. i \in DOMAIN trace /\ Definitions(i, BackWindow) # {}
    BY EventFacts
  <2>2. trace[producer[i]].op \in Loads \cup Cursor
    BY <2>1, LastDefinition
  <2> HIDE DEF producer
  <2> QED BY <2>2 DEF Category
<1>5. SumFunction(counted) = Cardinality(matched)
  <2> HIDE DEF matched, category, Kinds
  <2> QED BY <1>2, <1>3, <1>4, SumOfParts
<1> HIDE DEF counted, matched
<1> QED BY <1>1, <1>2, <1>5 DEF ValidLookup

\* The step CursorStep finds: the last definition before the read.
LEMMA CursorStepIsLast ==
  ASSUME TraceInv, NEW i \in TargetEvents, CursorStep(i) # 0
  PROVE  /\ CursorStep(i) \in DOMAIN trace /\ CursorStep(i) < i
         /\ trace[CursorStep(i)].op \in Cursor
         /\ \A j \in DOMAIN trace :
              CursorStep(i) < j /\ j < i => ~Defines(trace[j].op)
<1> DEFINE seen == Definitions(i, BackWindow)
           p == Max(seen)
<1>1. i \in DOMAIN trace /\ i \in Nat /\ DOMAIN trace \subseteq Nat
  BY EventFacts
<1>2. seen # {} /\ CursorStep(i) = p /\ trace[p].op \in Cursor
  BY DEF CursorStep
<1>3. p \in seen /\ (\A j \in seen : j <= p) /\ p \in DOMAIN trace /\ p < i
  BY <1>1, <1>2, LastDefinition
<1>4. BackWindow \in Nat
  BY TraceAssumption
<1>5. p >= i - BackWindow
  BY <1>1, <1>3, <1>4 DEF Definitions
<1> HIDE DEF p
<1>6. ASSUME NEW j \in DOMAIN trace, p < j, j < i, Defines(trace[j].op)
      PROVE  FALSE
  <2>1. j \in i - BackWindow .. i - 1 /\ j >= 1
    BY <1>1, <1>3, <1>4, <1>5, <1>6, EventFacts
  <2>2. j \in seen
    BY <1>6, <2>1 DEF Definitions
  <2> QED BY <1>1, <1>3, <1>6, <2>2
<1> QED BY <1>2, <1>3, <1>6

\* The reset ResetOf finds: only steps of the same direction come after it.
LEMMA ResetIsLast ==
  ASSUME TraceInv, NEW p \in DOMAIN trace, ResetOf(p) # 0
  PROVE  /\ ResetOf(p) \in DOMAIN trace /\ ResetOf(p) < p
         /\ trace[ResetOf(p)].op \in Loads \cup Cursor
         /\ \A j \in DOMAIN trace :
              ResetOf(p) < j /\ j < p /\ Defines(trace[j].op) => trace[j].op = trace[p].op
<1> DEFINE all == Definitions(p, ResetWindow)
           seen == {j \in all : trace[j].op # trace[p].op}
           r == Max(seen)
<1>1. p \in Nat /\ DOMAIN trace \subseteq Nat
  BY EventFacts
<1>2. seen # {} /\ ResetOf(p) = r
  BY DEF ResetOf
<1>3. /\ r \in seen /\ (\A j \in seen : j <= r) /\ r \in DOMAIN trace /\ r < p
      /\ trace[r].op \in Loads \cup Cursor
  <2>1. seen \in SUBSET all
    OBVIOUS
  <2> HIDE DEF seen
  <2> QED BY <1>2, <2>1, LastDefinition
<1>4. ResetWindow \in Nat
  BY TraceAssumption
<1>5. r >= p - ResetWindow
  BY <1>1, <1>3, <1>4 DEF Definitions
<1> HIDE DEF r
<1>6. ASSUME NEW j \in DOMAIN trace, r < j, j < p, Defines(trace[j].op),
             trace[j].op # trace[p].op
      PROVE  FALSE
  <2>1. j \in p - ResetWindow .. p - 1 /\ j >= 1
    BY <1>1, <1>3, <1>4, <1>5, <1>6, EventFacts
  <2>2. j \in seen
    BY <1>6, <2>1 DEF Definitions
  <2> QED BY <1>1, <1>3, <1>6, <2>2
<1> QED BY <1>2, <1>3, <1>6

LEMMA CursorResetIsValid ==
  ASSUME TraceInv
  PROVE  ValidCursorReset(AnalyzeCursorReset)
<1> DEFINE cursor == {i \in TargetEvents : CursorStep(i) # 0}
           stride == [i \in cursor |-> SignedStride(trace[CursorStep(i)].op)]
           reset == [i \in cursor |-> ResetOf(CursorStep(i))]
           found == {i \in cursor : reset[i] # 0}
           kind == [i \in found |-> IF trace[reset[i]].op \in Cursor THEN "unknown"
                                     ELSE trace[reset[i]].op]
           Kinds == Loads \cup {"unknown"}
           counted == [c \in Kinds |-> Cardinality({i \in found : kind[i] = c})]
           forward == {i \in cursor : stride[i] = 1}
           backward == {i \in cursor : stride[i] = -1}
           projected == {i \in found : Projects(i, CursorStep(i), reset[i])}
<1>1. /\ AnalyzeCursorReset.events = Cardinality(TargetEvents)
      /\ AnalyzeCursorReset.stepped = Cardinality(cursor)
      /\ AnalyzeCursorReset.forward = Cardinality(forward)
      /\ AnalyzeCursorReset.backward = Cardinality(backward)
      /\ AnalyzeCursorReset.resets = Cardinality(found)
      /\ AnalyzeCursorReset.counted = counted
      /\ AnalyzeCursorReset.projected = Cardinality(projected)
  BY Zenon DEF AnalyzeCursorReset
<1>2. /\ IsFiniteSet(cursor) /\ Cardinality(cursor) \in Nat
      /\ Cardinality(TargetEvents) \in Nat
      /\ Cardinality(cursor) <= Cardinality(TargetEvents)
  BY ReadsAreKnown, FS_Subset, FS_CardinalityType
<1>3. Cardinality(cursor) = Cardinality(forward) + Cardinality(backward)
  <2>1. cursor = forward \cup backward /\ forward \cap backward = {}
    BY DEF SignedStride
  <2>2. IsFiniteSet(forward) /\ IsFiniteSet(backward)
    <3>1. forward \in SUBSET cursor /\ backward \in SUBSET cursor
      OBVIOUS
    <3> HIDE DEF cursor, forward, backward
    <3> QED BY <1>2, <3>1, FS_Subset
  <2> HIDE DEF cursor, forward, backward
  <2>3. Cardinality(forward) \in Nat /\ Cardinality(backward) \in Nat /\ Cardinality({}) = 0
    BY <2>2, FS_CardinalityType, FS_EmptySet
  <2>4. Cardinality(forward \cup backward)
          = Cardinality(forward) + Cardinality(backward) - Cardinality(forward \cap backward)
    BY <2>2, FS_Union
  <2>5. /\ Cardinality(forward \cup backward) = Cardinality(cursor)
        /\ Cardinality(forward \cap backward) = 0
    BY <2>1, <2>3, Zenon
  <2> QED BY <2>3, <2>4, <2>5
<1>4. /\ IsFiniteSet(found) /\ Cardinality(found) \in Nat
      /\ Cardinality(projected) \in Nat /\ Cardinality(projected) <= Cardinality(found)
  <2>1. found \in SUBSET cursor /\ projected \in SUBSET found
    OBVIOUS
  <2> HIDE DEF cursor, found, projected
  <2> QED BY <1>2, <2>1, FS_Subset, FS_CardinalityType
<1>5. ASSUME NEW i \in found PROVE kind[i] \in Kinds
  <2>1. i \in TargetEvents /\ CursorStep(i) # 0 /\ reset[i] = ResetOf(CursorStep(i))
        /\ ResetOf(CursorStep(i)) # 0
    OBVIOUS
  <2>2. CursorStep(i) \in DOMAIN trace
    BY <2>1, CursorStepIsLast
  <2>3. trace[reset[i]].op \in Loads \cup Cursor
    BY <2>1, <2>2, ResetIsLast
  <2> HIDE DEF reset
  <2> QED BY <2>3
<1>6. IsFiniteSet(Kinds)
  BY LoadsAreFinite, FS_AddElement
<1>7. SumFunction(counted) = Cardinality(found)
  <2> HIDE DEF found, kind, Kinds
  <2> QED BY <1>4, <1>5, <1>6, SumOfParts
<1> HIDE DEF counted, cursor, forward, backward, found, projected
<1> QED BY <1>1, <1>2, <1>3, <1>4, <1>7 DEF ValidCursorReset

\* No trace makes a tool refuse its own result (v5_1_active_rom_read_block.py,
\* ..._lookup_index_producer.py, ..._cursor_reset.py: the validator each builder
\* ends with).
THEOREM NoToolRefuses == Spec => []NoToolRefusesItself
<1>1. TraceInv => NoToolRefusesItself
  <2> SUFFICES ASSUME TraceInv PROVE NoToolRefusesItself
    OBVIOUS
  <2>1. Role.reads = MatchingReads
    BY Zenon DEF Role, AnalyzeSourceRole
  <2>2. ValidReadBlock(Block)
    BY <2>1, ReadBlockIsValid, Zenon DEF Block
  <2>3. ValidLookup(Lookup) /\ ValidCursorReset(Reset)
    BY LookupIsValid, CursorResetIsValid, Zenon DEF Lookup, Reset
  <2> QED BY <2>2, <2>3, Zenon DEF NoToolRefusesItself
<1> QED BY <1>1, TraceInvariant, PTL

-----------------------------------------------------------------------------
(* The population of the lookup tool *)

LEMMA SameQuotient ==
  ASSUME NEW a \in Nat, NEW b \in Nat, a \div 16384 = b \div 16384, b < 49152
  PROVE  a < 49152
<1> DEFINE q == a \div 16384
           r == a % 16384
           t == b % 16384
<1>1. ASSUME NEW x \in Nat
      PROVE  /\ x \div 16384 \in Int /\ x % 16384 \in Int
             /\ x % 16384 >= 0 /\ x % 16384 < 16384
             /\ x = 16384 * (x \div 16384) + (x % 16384)
  OBVIOUS
<1>2. /\ q \in Int /\ r \in Int /\ t \in Int /\ r < 16384 /\ t >= 0
      /\ a = 16384 * q + r
  BY <1>1
<1>3. b = 16384 * q + t
  BY <1>1
<1> HIDE DEF q, r, t
<1>4. q < 3
  BY <1>2, <1>3
<1> QED BY <1>2, <1>4

LEMMA SlotIsInRom ==
  ASSUME NEW a \in Nat, NEW b \in Nat, SourceSlot(a) = SourceSlot(b), b < RomEnd
  PROVE  a < RomEnd
<1>1. RomEnd = 49152
  BY DEF RomEnd, SlotSize
<1>2. a \div 16384 = b \div 16384
  BY DEF SourceSlot, SlotSize
<1> QED BY <1>1, <1>2, SameQuotient

\* The read block counts every read exactly when no read left the window.
LEMMA SameReads ==
  ASSUME TraceInv, Confirmed
  PROVE  MatchingReads = TargetEvents
           <=> \A i \in TargetEvents : SourceSlot(trace[i].at) = SourceSlot(LogicalSource)
<1>1. ASSUME NEW i \in TargetEvents, SourceSlot(trace[i].at) = SourceSlot(LogicalSource)
      PROVE  trace[i].at < RomEnd
  BY <1>1, ReadsAreKnown, SourceIsARead, SlotIsInRom
<1> QED BY <1>1 DEF MatchingReads

LEMMA BlockAndLookup ==
  /\ Role.reads = MatchingReads /\ Block = AnalyzeReads(MatchingReads)
  /\ Lookup.events = Cardinality(TargetEvents)
  /\ Lookup.unique = Cardinality(Unique(TargetEvents))
<1>1. Role.reads = MatchingReads
  BY Zenon DEF Role, AnalyzeSourceRole
<1>2. /\ Lookup.events = Cardinality(TargetEvents)
      /\ Lookup.unique = Cardinality(Unique(TargetEvents))
  BY Zenon DEF Lookup, AnalyzeLookupIndexProducer
<1> QED BY <1>1, <1>2, Zenon DEF Block

LEMMA Population ==
  ASSUME TraceInv, Confirmed
  PROVE  PopulationAgrees
           <=> \A i \in TargetEvents : SourceSlot(trace[i].at) = SourceSlot(LogicalSource)
<1>1. /\ Block.occurrences = Cardinality(MatchingReads)
      /\ Block.unique = Cardinality(Unique(MatchingReads))
  BY BlockFields, BlockAndLookup, Zenon
<1>2. Cardinality(TargetEvents) = Cardinality(MatchingReads) => TargetEvents = MatchingReads
  BY ReadsAreKnown, FS_Subset
<1>3. PopulationAgrees <=> MatchingReads = TargetEvents
  BY <1>1, <1>2, BlockAndLookup, Zenon DEF PopulationAgrees
<1> QED BY <1>3, SameReads

\* The lookup tool goes on exactly when the traced instruction never read outside
\* the window of the source (v5_1_active_rom_lookup_index_producer.py:497).
THEOREM PopulationIsOneWindow == Spec => []PopulationIsTheSlot
<1>1. TraceInv => PopulationIsTheSlot
  BY Population, Zenon DEF PopulationIsTheSlot, LookupRuns, BlockRuns
<1> QED BY <1>1, TraceInvariant, PTL

-----------------------------------------------------------------------------
(* A picture is no text *)

LEMMA AssetHasNoScript ==
  ASSUME NEW role, NEW block, NEW lookup,
         AnalyzePathScope(role, block, lookup)
            = "repeated-interleaved-renderer-asset-candidate"
  PROVE  role.script + block.script = 0
BY DEF AnalyzePathScope

LEMMA ScriptIsCounted ==
  Role.script = Cardinality({r \in world.records :
                               InPayload(r, Physical(world.bank, LogicalSource))})
              + Cardinality({r \in world.records :
                               r.length = Physical(world.bank, LogicalSource)})
BY Zenon DEF Role, AnalyzeSourceRole

\* A path is given up as a picture only if no byte any traced read touched belongs
\* to a script record (v5_1_active_rom_path_scope.py:146).
THEOREM PicturesHoldNoText == Spec => []PictureIsNoText
<1>1. ASSUME TraceInv, ResetRuns,
             AnalyzePathScope(Role, Block, Lookup)
               = "repeated-interleaved-renderer-asset-candidate",
             NEW i \in TargetEvents, NEW r \in world.records
      PROVE  /\ r.length # Physical(world.bank, trace[i].at)
             /\ ~InPayload(r, Physical(world.bank, trace[i].at))
  <2> DEFINE offsets == {Physical(world.bank, a) : a \in Unique(MatchingReads)}
             records == world.records
  <2>1. Confirmed /\ PopulationAgrees
    BY <1>1, Zenon DEF ResetRuns, LookupRuns, BlockRuns
  <2>2. MatchingReads = TargetEvents
    BY <1>1, <2>1, Population, SameReads
  <2>3. Physical(world.bank, trace[i].at) \in offsets
    BY <1>1, <2>2 DEF Unique
  <2>4. IsFiniteSet(records)
    BY <1>1, WorldsAssumption DEF TraceInv
  <2>5. IsFiniteSet(offsets)
    <3> DEFINE at == [k \in MatchingReads |-> trace[k].at]
               place == [a \in Unique(MatchingReads) |-> Physical(world.bank, a)]
    <3>1. Unique(MatchingReads) = {at[k] : k \in MatchingReads} /\ IsFiniteSet(MatchingReads)
      BY <1>1, ReadsAreKnown DEF Unique
    <3>2. IsFiniteSet(Unique(MatchingReads))
      <4> HIDE DEF at
      <4> QED BY <3>1, Image
    <3>3. offsets = {place[a] : a \in Unique(MatchingReads)}
      OBVIOUS
    <3> HIDE DEF place, offsets
    <3> QED BY <3>2, <3>3, Image
  <2>6. /\ IsFiniteSet(ScriptMatches(offsets))
        /\ Cardinality(ScriptMatches(offsets)) \in Nat
    <3>1. ScriptMatches(offsets) \in SUBSET (offsets \X records)
      BY DEF ScriptMatches
    <3> HIDE DEF offsets, records
    <3> QED BY <2>4, <2>5, <3>1, FS_Product, FS_Subset, FS_CardinalityType
  <2>7. Role.script \in Nat
    <3> DEFINE offset == Physical(world.bank, LogicalSource)
               payload == {q \in records : InPayload(q, offset)}
               length == {q \in records : q.length = offset}
    <3>1. payload \in SUBSET records /\ length \in SUBSET records
      OBVIOUS
    <3>2. Role.script = Cardinality(payload) + Cardinality(length)
      BY ScriptIsCounted, Zenon
    <3> HIDE DEF payload, length, records
    <3>3. Cardinality(payload) \in Nat /\ Cardinality(length) \in Nat
      BY <2>4, <3>1, FS_Subset, FS_CardinalityType
    <3> QED BY <3>2, <3>3
  <2>8. Role.script + Block.script = 0
    BY <1>1, AssetHasNoScript
  <2>9. Block.script = Cardinality(ScriptMatches(offsets))
    BY BlockAndLookup, BlockFields, Zenon
  <2> HIDE DEF offsets
  <2>10. Cardinality(ScriptMatches(offsets)) = 0
    BY <2>6, <2>7, <2>8, <2>9
  <2>11. ScriptMatches(offsets) = {}
    BY <2>6, <2>10, FS_EmptySet
  <2>12. <<Physical(world.bank, trace[i].at), r>> \in offsets \X world.records
    BY <1>1, <2>3
  <2> QED BY <2>11, <2>12 DEF ScriptMatches
<1>2. TraceInv => PictureIsNoText
  BY <1>1, Zenon DEF PictureIsNoText
<1> QED BY <1>2, TraceInvariant, PTL

-----------------------------------------------------------------------------
(* A literal reset *)

Unseen(i) == ~Defines(trace[i].op) /\ trace[i].op # "exchange"

LEMMA UnseenKeeps ==
  ASSUME TraceInv, NEW i \in DOMAIN trace, Unseen(i)
  PROVE  trace[i].value = trace[i].at
<1>1. /\ trace[i].op \in Effects
      /\ trace[i].value = After(trace[i].op, trace[i].at, trace[i].value)
  BY EventFacts DEF TraceInv, Chained
<1> QED BY <1>1 DEF Unseen, Defines, After, Effects

LEMMA CursorMoves ==
  ASSUME TraceInv, NEW i \in DOMAIN trace, trace[i].op \in Cursor
  PROVE  trace[i].value = (trace[i].at + SignedStride(trace[i].op)) % 65536
<1>1. trace[i].value = After(trace[i].op, trace[i].at, trace[i].value)
  BY DEF TraceInv, Chained
<1>2. trace[i].at \in Int
  BY EventFacts, PairIsSmall
<1>3. CASE trace[i].op = "increment"
  BY <1>1, <1>3 DEF After, SignedStride, Loads
<1>4. CASE trace[i].op = "decrement"
  <2>1. trace[i].value = (trace[i].at - 1) % 65536
    BY <1>1, <1>4 DEF After, Loads
  <2>2. trace[i].at - 1 = trace[i].at + SignedStride(trace[i].op)
    BY <1>2, <1>4 DEF SignedStride
  <2> QED BY <2>1, <2>2
<1> QED BY <1>3, <1>4 DEF Cursor

\* The next event starts from what an event left.
LEMMA NextStarts ==
  ASSUME TraceInv, NEW i \in DOMAIN trace, i + 1 \in DOMAIN trace
  PROVE  trace[i + 1].at = trace[i].value
<1>1. i \in Nat /\ i >= 1
  BY EventFacts
<1>2. i + 1 > 1 => trace[i + 1].at = trace[i + 1 - 1].value
  BY DEF TraceInv, Chained
<1>3. i + 1 > 1 /\ i + 1 - 1 = i
  BY <1>1
<1> QED BY <1>2, <1>3

LEMMA NothingBetween ==
  ASSUME TraceInv, NEW p \in DOMAIN trace, NEW i \in DOMAIN trace, p < i,
         \A j \in DOMAIN trace : p < j /\ j < i => Unseen(j)
  PROVE  trace[i].at = trace[p].value
<1> DEFINE Known == {n \in Nat : p + n < i => trace[p + n].value = trace[p].value}
<1>1. DOMAIN trace = 1 .. Len(trace) /\ Len(trace) \in Nat /\ p \in Nat /\ i \in Nat
  BY EventFacts
<1>2. 0 \in Known
  BY <1>1
<1>3. ASSUME NEW n \in Nat, n \in Known PROVE n + 1 \in Known
  <2> SUFFICES ASSUME p + (n + 1) < i
               PROVE  trace[p + (n + 1)].value = trace[p].value
    OBVIOUS
  <2> DEFINE m == p + n
  <2>1. /\ m \in DOMAIN trace /\ m + 1 \in DOMAIN trace /\ m + 1 = p + (n + 1)
        /\ p < m + 1 /\ m + 1 < i /\ m < i
    BY <1>1
  <2>2. trace[m].value = trace[p].value
    BY <1>3, <2>1
  <2> HIDE DEF m
  <2>3. trace[m + 1].at = trace[m].value /\ trace[m + 1].value = trace[m + 1].at
    BY <2>1, NextStarts, UnseenKeeps
  <2> QED BY <2>1, <2>2, <2>3
<1> HIDE DEF Known
<1>4. Nat \subseteq Known
  BY <1>2, <1>3, Induction
<1> DEFINE m == i - 1
<1>5. /\ m \in DOMAIN trace /\ m + 1 = i /\ m - p \in Nat
      /\ p + (m - p) = m /\ m < i
  BY <1>1
<1>6. trace[m].value = trace[p].value
  BY <1>4, <1>5 DEF Known
<1> HIDE DEF m
<1> QED BY <1>5, <1>6, NextStarts

LEMMA RemainderSteps ==
  ASSUME NEW x \in Int, NEW d \in {1, -1}
  PROVE  ((x % 65536) + d) % 65536 = (x + d) % 65536
OBVIOUS

\* The value after a run of steps of one direction
LEMMA StepsAreCounted ==
  ASSUME TraceInv, NEW r \in DOMAIN trace, NEW p \in DOMAIN trace, r < p,
         trace[p].op \in Cursor,
         \A j \in DOMAIN trace : trace[j].op # "exchange",
         \A j \in DOMAIN trace :
            r < j /\ j < p /\ Defines(trace[j].op) => trace[j].op = trace[p].op
  PROVE  trace[p].value
           = (trace[r].value + SignedStride(trace[p].op) * StepsAfter(r, p)) % 65536
<1> DEFINE op == trace[p].op
           d == SignedStride(op)
           Stepped(m) == {j \in r + 1 .. m : trace[j].op = op}
           Moved(m) == trace[r].value + d * Cardinality(Stepped(m))
           Known == {n \in Nat : r + n <= p => trace[r + n].value = Moved(r + n) % 65536}
<1>1. DOMAIN trace = 1 .. Len(trace) /\ Len(trace) \in Nat /\ r \in Nat /\ p \in Nat
  BY EventFacts
<1>2. d \in {1, -1}
  BY DEF SignedStride
<1>3. trace[r].value \in Int /\ trace[r].value >= 0 /\ trace[r].value < 65536
  BY EventFacts, PairIsSmall
<1>4. ASSUME NEW m \in Nat PROVE IsFiniteSet(Stepped(m)) /\ Cardinality(Stepped(m)) \in Nat
  <2>1. IsFiniteSet(r + 1 .. m)
    BY <1>1, FS_Interval
  <2>2. Stepped(m) \in SUBSET (r + 1 .. m)
    OBVIOUS
  <2> HIDE DEF Stepped
  <2> QED BY <2>1, <2>2, FS_Subset, FS_CardinalityType
<1>5. ASSUME NEW m \in Nat PROVE Moved(m) \in Int
  <2> HIDE DEF d, Stepped
  <2>1. d \in Int /\ Cardinality(Stepped(m)) \in Nat
    BY <1>2, <1>4
  <2> QED BY <1>3, <2>1
<1>6. 0 \in Known
  <2>1. Stepped(r + 0) = {}
    BY <1>1
  <2> HIDE DEF d, Stepped
  <2>2. Cardinality(Stepped(r + 0)) = 0
    BY <2>1, FS_EmptySet
  <2>3. Moved(r + 0) = trace[r].value
    BY <1>2, <1>3, <2>2
  <2>4. trace[r].value % 65536 = trace[r].value /\ r + 0 = r
    BY <1>1, <1>3
  <2> QED BY <2>3, <2>4
<1>7. ASSUME NEW n \in Nat, n \in Known PROVE n + 1 \in Known
  <2> SUFFICES ASSUME r + (n + 1) <= p
               PROVE  trace[r + (n + 1)].value = Moved(r + (n + 1)) % 65536
    OBVIOUS
  <2> DEFINE m == r + n
  <2>1. /\ m \in Nat /\ m >= r /\ m \in DOMAIN trace /\ m + 1 \in DOMAIN trace
        /\ m + 1 = r + (n + 1) /\ r < m + 1 /\ m + 1 <= p /\ m <= p
    BY <1>1
  <2>2. trace[m].value = Moved(m) % 65536
    BY <1>7, <2>1
  <2> HIDE DEF m
  <2>3. trace[m + 1].at = Moved(m) % 65536
    BY <2>1, <2>2, NextStarts
  <2>4. CASE trace[m + 1].op = op
    <3>1. trace[m + 1].value = (trace[m + 1].at + d) % 65536
      BY <2>1, <2>4, CursorMoves
    <3>2. Stepped(m + 1) = Stepped(m) \cup {m + 1} /\ m + 1 \notin Stepped(m)
      BY <1>1, <2>1, <2>4
    <3>3. Cardinality(Stepped(m + 1)) = Cardinality(Stepped(m)) + 1
      <4> HIDE DEF Stepped
      <4> QED BY <1>4, <2>1, <3>2, FS_AddElement
    <3>4. Moved(m + 1) = Moved(m) + d
      <4> HIDE DEF d, Stepped
      <4>1. Cardinality(Stepped(m)) \in Nat
        BY <1>4, <2>1
      <4>2. CASE d = 1
        BY <1>3, <3>3, <4>1, <4>2
      <4>3. CASE d = -1
        BY <1>3, <3>3, <4>1, <4>3
      <4> QED BY <1>2, <4>2, <4>3
    <3> HIDE DEF d, Moved, Stepped
    <3>5. Moved(m) \in Int
      BY <1>5, <2>1
    <3>6. ((Moved(m) % 65536) + d) % 65536 = (Moved(m) + d) % 65536
      BY <1>2, <3>5, RemainderSteps
    <3> QED BY <2>1, <2>3, <3>1, <3>4, <3>6
  <2>5. CASE trace[m + 1].op # op
    <3>1. m + 1 # p /\ m + 1 < p
      BY <1>1, <2>1, <2>5
    <3>2. Unseen(m + 1)
      BY <2>1, <2>5, <3>1 DEF Unseen
    <3>3. trace[m + 1].value = trace[m + 1].at
      BY <2>1, <3>2, UnseenKeeps
    <3>4. Stepped(m + 1) = Stepped(m)
      BY <1>1, <2>1, <2>5
    <3>5. Moved(m + 1) = Moved(m)
      BY <3>4
    <3> HIDE DEF d, Moved, Stepped
    <3> QED BY <2>1, <2>3, <3>3, <3>5
  <2> QED BY <2>4, <2>5
<1> HIDE DEF Known
<1>8. Nat \subseteq Known
  BY <1>6, <1>7, Induction
<1>9. p - r \in Nat /\ r + (p - r) = p
  BY <1>1
<1>10. trace[p].value = Moved(p) % 65536
  <2> HIDE DEF Moved
  <2> QED BY <1>1, <1>8, <1>9 DEF Known
<1>11. StepsAfter(r, p) = Cardinality(Stepped(p))
  BY DEF StepsAfter
<1> QED BY <1>10, <1>11

\* The class "literal": every reset was found and is a literal.
LEMMA LiteralClass ==
  ASSUME NEW kinds, IsFiniteSet(kinds), NEW resets \in Nat, NEW targets, NEW strides,
         ResetClass(kinds, resets, targets, strides) = "literal"
  PROVE  kinds = {"literal"}
<1> DEFINE mixed == \/ resets # targets
                    \/ strides # 1
                    \/ Cardinality(kinds) # 1
                    \/ kinds = {"unknown"}
           known == CHOOSE c \in kinds : TRUE
<1> HIDE DEF known
<1>1. ~mixed /\ "literal" = known
  <2>1. CASE resets = 0
    BY <2>1 DEF ResetClass
  <2>2. CASE resets # 0 /\ mixed
    BY <2>2 DEF ResetClass
  <2>3. CASE resets # 0 /\ ~mixed
    BY <2>3 DEF ResetClass, known
  <2> QED BY <2>1, <2>2, <2>3
<1>2. PICK x : kinds = {x}
  BY <1>1, FS_Singleton
<1>3. known = x
  BY <1>2 DEF known
<1> QED BY <1>1, <1>2, <1>3

\* Every reset of the class "literal" predicts the address that was read: nothing
\* but the counted steps moved the pair between the literal and the read.
THEOREM LiteralsPredictReads == Spec => []LiteralResetPredictsReads
<1> DEFINE cursor == {i \in TargetEvents : CursorStep(i) # 0}
           reset == [i \in cursor |-> ResetOf(CursorStep(i))]
           found == {i \in cursor : reset[i] # 0}
           kind == [i \in found |-> IF trace[reset[i]].op \in Cursor THEN "unknown"
                                     ELSE trace[reset[i]].op]
           kinds == {kind[i] : i \in found}
           projected == {i \in found : Projects(i, CursorStep(i), reset[i])}
<1>1. /\ Reset.class = ResetClass(kinds, Cardinality(found), Cardinality(TargetEvents),
                                  Reset.strides)
      /\ Reset.resets = Cardinality(found)
      /\ Reset.projected = Cardinality(projected)
  BY Zenon DEF Reset, AnalyzeCursorReset
<1>2. ASSUME TraceInv, Reset.class = "literal", \A j \in DOMAIN trace : trace[j].op # "exchange"
      PROVE  projected = found
  <2>1. IsFiniteSet(found) /\ Cardinality(found) \in Nat
    <3>1. found \in SUBSET TargetEvents
      OBVIOUS
    <3> HIDE DEF found
    <3> QED BY <1>2, <3>1, ReadsAreKnown, FS_Subset, FS_CardinalityType
  <2>2. kinds = {"literal"}
    <3> HIDE DEF found, kind
    <3>1. IsFiniteSet(kinds)
      BY <2>1, Image
    <3> HIDE DEF kinds
    <3> QED BY <1>1, <1>2, <2>1, <3>1, LiteralClass
  <2> SUFFICES ASSUME NEW i \in found PROVE Projects(i, CursorStep(i), reset[i])
    OBVIOUS
  <2> DEFINE p == CursorStep(i)
             r == ResetOf(p)
  <2>3. i \in TargetEvents /\ p # 0 /\ r # 0 /\ reset[i] = r
    OBVIOUS
  <2>4. trace[r].op = "literal"
    <3>1. kind[i] = "literal"
      BY <2>2
    <3> HIDE DEF r
    <3> QED BY <2>3, <3>1
  <2>5. /\ p \in DOMAIN trace /\ p < i /\ trace[p].op \in Cursor
        /\ \A j \in DOMAIN trace : p < j /\ j < i => ~Defines(trace[j].op)
    BY <1>2, <2>3, CursorStepIsLast
  <2>6. /\ r \in DOMAIN trace /\ r < p
        /\ \A j \in DOMAIN trace :
             r < j /\ j < p /\ Defines(trace[j].op) => trace[j].op = trace[p].op
    BY <1>2, <2>3, <2>5, ResetIsLast
  <2> HIDE DEF p, r
  <2>7. trace[p].value = (trace[r].value + SignedStride(trace[p].op) * StepsAfter(r, p)) % 65536
    BY <1>2, <2>5, <2>6, StepsAreCounted
  <2>8. trace[i].at = trace[p].value
    <3>1. i \in DOMAIN trace
      BY <1>2, <2>3, EventFacts
    <3>2. \A j \in DOMAIN trace : p < j /\ j < i => Unseen(j)
      BY <1>2, <2>5 DEF Unseen
    <3> QED BY <1>2, <2>5, <3>1, <3>2, NothingBetween
  <2>9. (trace[r].value + SignedStride(trace[p].op) * StepsAfter(r, p)) % 65536 = trace[i].at
    <3> HIDE DEF found
    <3> QED BY <2>7, <2>8
  <2>10. Projects(i, p, r)
    <3> HIDE DEF found
    <3> QED BY <2>4, <2>9 DEF Projects
  <2> QED BY <2>3, <2>10 DEF p
<1>3. TraceInv => LiteralResetPredictsReads
  <2> HIDE DEF projected, found
  <2> QED BY <1>1, <1>2 DEF LiteralResetPredictsReads
<1> QED BY <1>3, TraceInvariant, PTL

=============================================================================
