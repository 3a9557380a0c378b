---------------------------- MODULE GroupRecords ----------------------------
(***************************************************************************)
(* Script records in the ROM: a length byte and that many payload bytes,   *)
(* one record after the other.  A lookup table holds pointers into the     *)
(* mapped bank, one per selector; a selector and an ordinal name a record.  *)
(* Three tools walk the same records with different bounds: the group of    *)
(* the record on the screen (v5_1_confirmed_group_extract.py), one stream   *)
(* through all pointers (v5_1_target_group_stream_map.py), and what every   *)
(* selector can address (v5_1_target_group_population.py).                  *)
(*                                                                         *)
(* An image is [bytes: 0 .. size-1 -> byte, table: pointers by selector].   *)
(***************************************************************************)
EXTENDS Integers, FiniteSets, SequencesExt, Functions, FiniteSetsExt

CONSTANTS BankSize,      \* 0x4000: bytes of a bank, and first mapped address
          MappedBank,    \* the bank the records lie in
          Addressable,   \* ADDRESSABLE_RECORD_COUNT, 256
          MaxRecords     \* MAX_RECORDS of the stream, 4096

ASSUME RecordsAssumption ==
    /\ {BankSize, Addressable, MaxRecords} \subseteq Nat \ {0}
    /\ MappedBank \in Nat

NoGroup == <<>>          \* the walk raised

BankStart == MappedBank * BankSize
BankEnd == BankStart + BankSize

\* What is asked of an image: the mapped bank lies in it, selectors and pointers
\* are numbers.
IsImage(image) ==
    /\ \A a \in 0 .. BankEnd - 1 : a \in DOMAIN image.bytes /\ image.bytes[a] \in Nat
    /\ \A s \in DOMAIN image.table : s \in Nat /\ image.table[s] \in Nat

RecordAt(bytes, at) ==
    [at |-> at, end |-> at + 1 + bytes[at],
     payload |-> [k \in 1 .. bytes[at] |-> bytes[at + k]]]

\* One record more behind a walk from at, if it ends within limit.
OneMore(bytes, at, limit, walk) ==
    LET start == IF walk = <<>> THEN at ELSE Last(walk).end
        end   == start + 1 + bytes[start]
    IN  IF start >= limit \/ end > limit THEN walk
        ELSE Append(walk, [at |-> start, end |-> end])

\* At most n records from at on, as far as they end within limit.
RecordsFrom(bytes, at, n, limit) ==
    LET first[k \in 0 .. n] == IF k = 0 THEN <<>> ELSE OneMore(bytes, at, limit, first[k - 1])
    IN  first[n]

\* The elements of a sequence that are in keep, in order
Kept(seq, keep) ==
    LET first[n \in 0 .. Len(seq)] ==     \* those among the first n
            IF n = 0 THEN <<>>
            ELSE IF seq[n] \in keep THEN Append(first[n - 1], seq[n]) ELSE first[n - 1]
    IN  first[Len(seq)]

\* _valid_pointer_entries: selectors whose pointer lies in the mapped window,
\* and the byte each one points to.
ValidSelectors(image) ==
    {s \in DOMAIN image.table : BankSize <= image.table[s] /\ image.table[s] < 2 * BankSize}
Physical(image, s) == BankStart + (image.table[s] % BankSize)

\* parse_length_prefixed_group: exactly count records, bounded by the ROM.
ParseGroup(bytes, start, count) ==
    LET size == Cardinality(DOMAIN bytes)
        walk == RecordsFrom(bytes, start, count, size)
    IN  IF start \notin 0 .. size - 1 \/ count < 1 \/ Len(walk) < count THEN NoGroup
        ELSE [o \in 1 .. count |-> RecordAt(bytes, walk[o].at)]

\* The group of a record on the screen: it is the last one of its group
\* (resolve_confirmed_group_layout).
GroupOf(image, seen) ==
    ParseGroup(image.bytes, Physical(image, seen.selector), seen.ordinal + 1)

----------------------------------------------------------------------------
(* v5_1_target_group_stream_map.py.                                         *)

Pointers(image) == {Physical(image, s) : s \in ValidSelectors(image)}

StreamTarget(image, seen) ==
    Max({Max(Pointers(image)) + 1, Last(GroupOf(image, seen)).end})

StreamCrosses(image, seen) == StreamTarget(image, seen) > BankEnd

\* Planted fault: a stream that reached its last pointer counts as aligned.
StreamStatusReached(image, seen) ==
    LET walk == RecordsFrom(image.bytes, Min(Pointers(image)), MaxRecords, BankEnd)
    IN  IF \E k \in DOMAIN walk : walk[k].end >= StreamTarget(image, seen)
        THEN "aligned" ELSE "unaligned"

\* analyze_target_group_stream: the records from the lowest pointer until the
\* target is passed; the walk breaks at the end of the bank.
Stream(image, seen) ==
    LET walk == RecordsFrom(image.bytes, Min(Pointers(image)), MaxRecords, BankEnd)
    IN  Kept(walk, {r \in Range(walk) : r.at < StreamTarget(image, seen)})

StreamStatus(image, seen) ==
    LET stream  == Stream(image, seen)
        starts  == {stream[k].at : k \in DOMAIN stream}
        cursor  == IF stream = <<>> THEN Min(Pointers(image)) ELSE Last(stream).end
        reached == cursor >= StreamTarget(image, seen)
        all     == /\ Pointers(image) \subseteq starts
                   /\ Physical(image, seen.selector) \in starts
                   /\ Last(GroupOf(image, seen)).at \in starts
    IN  IF reached /\ all THEN "aligned"
        ELSE IF reached /\ Pointers(image) \cap starts # {} THEN "partial"
        ELSE "unaligned"

----------------------------------------------------------------------------
(* v5_1_target_group_population.py and the first half of its decode.        *)

\* analyze_target_group_population: the records each selector can address
Addressed(image, s) == RecordsFrom(image.bytes, Physical(image, s), Addressable, BankEnd)

\* deduplicate_population_records: one entry per length byte
Population(image) ==
    {RecordAt(image.bytes, r.at) :
        r \in UNION {Range(Addressed(image, s)) : s \in ValidSelectors(image)}}

=============================================================================
