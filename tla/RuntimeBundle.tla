---------------------------- MODULE RuntimeBundle ----------------------------
(***************************************************************************)
(* What publish_runtime_bundle (tools/v5_1_runtime_bundle.py) chooses to   *)
(* publish.  Every artifact that validates by itself is loaded; artifacts  *)
(* that name different targets make the publication raise; then one pass   *)
(* over the derived artifacts, in a fixed order, drops each one that does  *)
(* not match the evidence it was made from; last come the images whose     *)
(* receipt is still in.                                                    *)
(*                                                                         *)
(* Whether the contents of an artifact match those of its evidence on disk *)
(* (target hashes, file hashes, groups, checkpoints) is one bit, `matches`;*)
(* whether the evidence is still in is what the order of the pass decides. *)
(* A rule is a record: the artifact, its alternatives (sets of evidence),  *)
(* and `early`, the evidence that the code looks up in a variable filled   *)
(* before the rule of that evidence has run.                               *)
(***************************************************************************)
EXTENDS Integers, Sequences

CONSTANTS Rules,       \* the rules in the order of the code
          Base,        \* artifacts without a rule
          Pairs,       \* pairs of base artifacts that must agree
          Receipt,     \* function from the images to their receipts
          MaxFaults    \* bound: missing, mismatched or disagreeing artifacts

Derived  == {Rules[i].artifact : i \in DOMAIN Rules}
Artifact == Base \cup Derived
Evidence(r) == UNION r.alternatives
Links == UNION {{r.artifact} \X r.alternatives : r \in {Rules[i] : i \in DOMAIN Rules}}

ASSUME RulesAssumption ==
    /\ Rules \in Seq([artifact : STRING, alternatives : SUBSET SUBSET STRING,
                      early : SUBSET STRING])
    /\ Pairs \subseteq SUBSET Base
    /\ MaxFaults \in Nat

\* No artifact is dropped after it has served as evidence, and none twice.
ASSUME OrderAssumption ==
    /\ \A i, j \in 1..Len(Rules) :
         /\ i <= j => Rules[j].artifact \notin Evidence(Rules[i])
         /\ Rules[i].artifact = Rules[j].artifact => i = j
    /\ Base \cap Derived = {}

VARIABLES loaded,      \* artifacts whose file validates by itself
          matches,     \* links <<artifact, alternative>> whose contents match
          disagreeing, \* pairs that name different targets
          intact,      \* images that have the hash their receipt names
          artifacts,   \* the dictionary the code prunes
          images,      \* the binaries that go into the bundle
          next,        \* number of the next rule
          choice       \* where the choice stands

bundleVars == <<loaded, matches, disagreeing, intact, artifacts, images, next, choice>>
files      == <<loaded, matches, disagreeing, intact>>

BundleTypeOK ==
    /\ loaded \subseteq Artifact
    /\ matches \subseteq Links
    /\ disagreeing \subseteq Pairs
    /\ intact \subseteq DOMAIN Receipt
    /\ artifacts \subseteq loaded
    /\ images \subseteq DOMAIN Receipt
    /\ next \in 1..Len(Rules) + 1
    /\ choice \in {"identities", "rules", "chosen", "raised"}

\* Subsets of S with at most k elements.
AtMost(k, S) == {{}} \cup {{f[i] : i \in 1..k} : f \in [1..k -> S]}

\* Everything is there and consistent, but for MaxFaults faults of any kind; or
\* nothing is there.
BundleInit ==
    /\ \/ \E k \in 0..MaxFaults, l \in 0..MaxFaults :
            /\ k + l <= MaxFaults
            /\ \E missing \in AtMost(k, Artifact) : loaded = Artifact \ missing
            /\ \E wrong \in AtMost(l, Links) : matches = Links \ wrong
            /\ disagreeing \in AtMost(MaxFaults - k - l, Pairs)
       \/ /\ loaded = {}
          /\ matches = {}
          /\ disagreeing = {}
    /\ intact \in {DOMAIN Receipt, {}}
    /\ artifacts = loaded
    /\ images = {}
    /\ next = 1
    /\ choice = "identities"

-----------------------------------------------------------------------------
Clash == \E pair \in disagreeing : pair \subseteq artifacts

Raise ==
    /\ choice = "identities"
    /\ artifacts = {} \/ Clash
    /\ choice' = "raised"
    /\ UNCHANGED <<files, artifacts, images, next>>

Agree ==
    /\ choice = "identities"
    /\ artifacts # {}
    /\ ~Clash
    /\ choice' = "rules"
    /\ UNCHANGED <<files, artifacts, images, next>>

\* Planted faults: presence is always asked of what was loaded; all the
\* alternatives are required.
FoundAsLoaded(r, a) == a \in loaded
SupportedByAll(r) ==
    \A alternative \in r.alternatives :
        /\ <<r.artifact, alternative>> \in matches
        /\ \A a \in alternative : a \in artifacts

\* Is `a` there for rule r?  A variable filled early still holds what was loaded.
Found(r, a) == IF a \in r.early THEN a \in loaded ELSE a \in artifacts

\* One of the alternatives is there and matches.
Supported(r) ==
    \E alternative \in r.alternatives :
        /\ <<r.artifact, alternative>> \in matches
        /\ \A a \in alternative : Found(r, a)

ApplyRule ==
    /\ choice = "rules"
    /\ next <= Len(Rules)
    /\ artifacts' = IF Supported(Rules[next]) THEN artifacts
                                              ELSE artifacts \ {Rules[next].artifact}
    /\ next' = next + 1
    /\ UNCHANGED <<files, images, choice>>

ChooseImages ==
    /\ choice = "rules"
    /\ next > Len(Rules)
    /\ images' = {i \in intact : Receipt[i] \in artifacts}
    /\ choice' = "chosen"
    /\ UNCHANGED <<files, artifacts, next>>

BundleNext == Raise \/ Agree \/ ApplyRule \/ ChooseImages

BundleSpec == BundleInit /\ [][BundleNext]_bundleVars

-----------------------------------------------------------------------------
(* Properties *)

\* Alternatives of r that match and of which everything outside `except` is in.
StandsOn(r, except) ==
    \E alternative \in r.alternatives :
        /\ <<r.artifact, alternative>> \in matches
        /\ alternative \ except \subseteq artifacts

\* What is published rests on evidence that is published with it, but for the
\* evidence that lines 969, 987, 1674 and 1675 look up early: the single pass in
\* the order of the code is enough.
PassIsEnough ==
    choice = "chosen" => \A i \in 1..Len(Rules) :
        Rules[i].artifact \in artifacts => StandsOn(Rules[i], Rules[i].early)

\* What is loaded is held back for two reasons only.  All of it is when two
\* artifacts that the code compares name different targets (lines 839-913), so the
\* comment that a stale artifact "must never block publication" (821) is true of
\* one that does not validate only; one artifact is when none of its alternatives
\* is published and matches.
OnTwoGroundsOnly ==
    /\ choice = "raised" => loaded = {} \/ \E pair \in disagreeing : pair \subseteq loaded
    /\ choice = "chosen" =>
          /\ \A pair \in disagreeing : ~(pair \subseteq artifacts)
          /\ loaded \cap Base \subseteq artifacts
          /\ \A i \in 1..Len(Rules) :
               Rules[i].artifact \in loaded /\ StandsOn(Rules[i], {})
                   => Rules[i].artifact \in artifacts

\* Why PassIsEnough holds: it does for the rules that have run.
RulesRunStand ==
    \A i \in 1..next - 1 :
        Rules[i].artifact \in artifacts => StandsOn(Rules[i], Rules[i].early)
=============================================================================
