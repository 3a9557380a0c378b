----------------------------- MODULE ImageWrites -----------------------------
(***************************************************************************)
(* Plans of writes to a ROM image (tools/expected_writes.py).  A write says *)
(* the bytes it expects, the bytes it leaves and the range it may touch; a  *)
(* plan is applied only if the image is as every write expects, and the     *)
(* result is compared with the plan byte by byte.                           *)
(*                                                                         *)
(* An image is a function on 0 .. size - 1; a write is                      *)
(* [at, before, after, lo, hi], a plan a sequence of writes.                *)
(***************************************************************************)
EXTENDS Integers, Sequences, FiniteSets

CONSTANTS MaxIpsOffset,   \* 0xFFFFFF
          IpsEofOffset,   \* 0x454F46: the offset whose bytes spell EOF
          MaxIpsRecord    \* 0xFFFF: bytes of one IPS record

ASSUME IpsAssumption == {MaxIpsOffset, IpsEofOffset, MaxIpsRecord} \subseteq Nat

Touched(w) == w.at .. w.at + Len(w.after) - 1

\* validate_expected_writes, for one write
ValidWrite(source, w) ==
    /\ w.before # <<>> /\ Len(w.before) = Len(w.after)
    /\ Touched(w) \subseteq w.lo .. w.hi - 1
    /\ w.lo .. w.hi - 1 \subseteq DOMAIN source
    /\ \A k \in DOMAIN w.before : source[w.at + k - 1] = w.before[k]
    /\ w.before # w.after

\* validate_expected_writes: the plan is not empty and no two writes overlap
ValidPlan(source, plan) ==
    /\ plan # <<>>
    /\ \A i \in DOMAIN plan : ValidWrite(source, plan[i])
    /\ \A i, j \in DOMAIN plan : i # j => Touched(plan[i]) \cap Touched(plan[j]) = {}

Planned(plan) == UNION {Touched(plan[i]) : i \in DOMAIN plan}

\* The byte the plan leaves at a planned offset.
After(plan, o) ==
    LET w == plan[CHOOSE i \in DOMAIN plan : o \in Touched(plan[i])]
    IN  w.after[o - w.at + 1]

\* apply_expected_writes, before it audits what it made
Applied(source, plan) ==
    [o \in DOMAIN source |-> IF o \in Planned(plan) THEN After(plan, o) ELSE source[o]]

\* The offsets audit_expected_writes plans to change: bytes that differ.
PlannedChanges(plan) ==
    UNION {{o \in Touched(plan[i]) :
               plan[i].before[o - plan[i].at + 1] # plan[i].after[o - plan[i].at + 1]} :
           i \in DOMAIN plan}

\* audit_expected_writes: the image changed exactly where the plan says so,
\* and to what it says
AuditPasses(source, target, plan) ==
    /\ DOMAIN target = DOMAIN source
    /\ {o \in DOMAIN source : target[o] # source[o]} = PlannedChanges(plan)
    /\ \A i \in DOMAIN plan : \A k \in DOMAIN plan[i].after :
           target[plan[i].at + k - 1] = plan[i].after[k]

\* expected_writes_to_ips does not raise
IpsCanHold(plan) == \A i \in DOMAIN plan :
    /\ plan[i].at \in 0 .. MaxIpsOffset \ {IpsEofOffset}
    /\ Len(plan[i].after) <= MaxIpsRecord

=============================================================================
