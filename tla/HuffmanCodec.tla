---------------------------- MODULE HuffmanCodec ----------------------------
(***************************************************************************)
(* The codec of the game's text (sfgfc_huffman.py): every symbol is coded   *)
(* by the tree of the symbol before it.  A tree lies in the ROM as the bits *)
(* of its shape, 1 for a leaf, and the symbols of its leaves in reverse     *)
(* order before them.  Bits are sequences over {0, 1}; an operation that    *)
(* raises returns Error.                                                    *)
(***************************************************************************)
EXTENDS Integers, FiniteSets, SequencesExt, Functions

CONSTANTS End,           \* CANDIDATE_END_SYMBOL, 0xC9
          ByteBits,      \* 8
          MaxSymbols     \* max_symbols, 4096

ASSUME CodecAssumption == /\ End \in Nat /\ ByteBits \in Nat \ {0}
                          /\ MaxSymbols \in Nat /\ MaxSymbols >= 3

Error == <<-1>>

----------------------------------------------------------------------------
(* Trees.                                                                   *)

\* parse_tree, descend: the paths of the leaves below the node at bit at, from
\* left to right, and the bit after the node.
Leaves(shape) ==
    LET below[at \in DOMAIN shape, path \in Seq({0, 1})] ==
            IF shape[at] = 1 THEN [paths |-> <<path>>, next |-> at + 1]
            ELSE LET left  == below[at + 1, Append(path, 0)]
                     right == below[left.next, Append(path, 1)]
                 IN  [paths |-> left.paths \o right.paths, next |-> right.next]
    IN  below[1, <<>>].paths

\* parse_tree: the leaves take the stored symbols from the last to the first.
ParseTree(stored) ==
    LET paths   == Leaves(stored.shape)
        symbols == Reverse(stored.symbols)
    IN  [k \in DOMAIN paths |-> [path |-> paths[k], symbol |-> symbols[k]]]

\* _symbol_codes; two leaves of one symbol raise.
SymbolCodes(tree) ==
    [s \in {leaf.symbol : leaf \in ToSet(tree)} |->
        (CHOOSE leaf \in ToSet(tree) : leaf.symbol = s).path]

\* load_trees_at: contexts whose pointer is 0xFFFF have no tree.
LoadTrees(vector) == [previous \in DOMAIN vector |-> SymbolCodes(ParseTree(vector[previous]))]

\* Trees are binary, and their symbols lie at the leaves: no code begins another.
IsCodec(trees) ==
    \A previous \in DOMAIN trees : \A s \in DOMAIN trees[previous] :
        /\ s \in Nat /\ trees[previous][s] \in Seq({0, 1})
        /\ \A t \in DOMAIN trees[previous] :
              IsPrefix(trees[previous][s], trees[previous][t]) => s = t

\* The context of each symbol is the symbol before it.
Context(previous, symbols, k) == IF k = 1 THEN previous ELSE symbols[k - 1]

Encodable(trees, previous, symbols) ==
    \A k \in DOMAIN symbols :
        /\ Context(previous, symbols, k) \in DOMAIN trees
        /\ symbols[k] \in DOMAIN trees[Context(previous, symbols, k)]

Bits(trees, previous, symbols) ==
    FlattenSeq([k \in DOMAIN symbols |-> trees[Context(previous, symbols, k)][symbols[k]]])

\* _code_lengths, summed up over a sequence as every search does it
Length(trees, previous, symbols) == Len(Bits(trees, previous, symbols))

\* A text as the game stores it: the terminator ends it and is nowhere else.
Terminated(symbols) ==
    symbols # <<>> /\ \A k \in 1 .. Len(symbols) : symbols[k] = End <=> k = Len(symbols)

----------------------------------------------------------------------------
(* Encoding.                                                                *)

Bytes(bits) == (Len(bits) + ByteBits - 1) \div ByteBits

\* Whole bytes, filled up with zeroes.
Pad(bits) == bits \o [k \in 1 .. Bytes(bits) * ByteBits - Len(bits) |-> 0]

EncodeSymbolCount(trees, symbols, initial, maxBits) ==
    IF /\ Len(symbols) <= MaxSymbols /\ Encodable(trees, initial, symbols)
       /\ Length(trees, initial, symbols) <= maxBits
    THEN Bits(trees, initial, symbols) ELSE Error

EncodeSymbols(trees, symbols, initial, maxBits) ==
    IF symbols = <<>> \/ Last(symbols) # End THEN Error
    ELSE IF Encodable(trees, initial, symbols) /\ Length(trees, initial, symbols) <= maxBits
         THEN Bits(trees, initial, symbols) ELSE Error

\* encode_symbol_entries: one bit stream, each entry from the initial context.
EncodeEntries(trees, entries, initial, maxBits) ==
    IF \E e \in DOMAIN entries : EncodeSymbols(trees, entries[e], initial, maxBits) = Error
    THEN Error
    ELSE LET bits == FlattenSeq([e \in DOMAIN entries |-> Bits(trees, initial, entries[e])])
         IN  IF Len(bits) <= maxBits THEN bits ELSE Error

----------------------------------------------------------------------------
(* Decoding.                                                                *)

\* The symbols whose code the bits hold from bit at on, in the tree of previous.
Spelled(trees, previous, bits, at) ==
    {s \in DOMAIN trees[previous] :
        LET code == trees[previous][s]
        IN  at + Len(code) - 1 <= Len(bits)
            /\ SubSeq(bits, at, at + Len(code) - 1) = code}

\* One pass of the loop: walk the tree of the last symbol down to a leaf.  It
\* raises without a tree, and when the bits run out.
Further(trees, bits, read) ==
    IF read.last \notin DOMAIN trees \/ Spelled(trees, read.last, bits, read.next) = {}
    THEN [read EXCEPT !.symbols = Error]
    ELSE LET s == CHOOSE s \in Spelled(trees, read.last, bits, read.next) : TRUE
         IN  [last |-> s, next |-> read.next + Len(trees[read.last][s]),
              symbols |-> Append(read.symbols, s)]

Ended(read) == read.symbols # <<>> /\ read.last = End

\* From bit start on, count symbols, or up to and with a terminator when count
\* is -1: [symbols, next bit], or Error.
Decode(trees, previous, bits, start, count) ==
    LET limit == IF count = -1 THEN MaxSymbols ELSE count
        after[k \in 0 .. limit] ==
            IF k = 0 THEN [last |-> previous, next |-> start, symbols |-> <<>>]
            ELSE LET read == after[k - 1]
                 IN  IF read.symbols = Error \/ (count = -1 /\ Ended(read))
                     THEN read ELSE Further(trees, bits, read)
        read == after[limit]
    IN  [symbols |-> IF count = -1 /\ ~Ended(read) THEN Error ELSE read.symbols,
         next    |-> read.next]

\* decode_symbol_count: exactly count symbols, terminators included.
DecodeSymbolCount(trees, bits, initial, count) ==
    Decode(trees, initial, bits, 1, count)

\* decode_symbols: up to and with the first terminator.
DecodeSymbols(trees, bits, initial) == Decode(trees, initial, bits, 1, -1)

\* One entry more, from the bit at; an entry that does not decode raises.
OneEntry(entries, entry, at) ==
    IF entry.symbols = Error THEN [entries |-> <<Error>>, next |-> at]
    ELSE [entries |-> Append(entries, entry.symbols), next |-> at]

\* Planted fault: every entry starts at a byte of its own.
DecodeFromByte(trees, bits, initial, entries, start) ==
    LET after[k \in 0 .. entries] ==
            IF k = 0 THEN [entries |-> <<>>, next |-> start]
            ELSE LET entry == Decode(trees, initial, bits, after[k - 1].next, -1)
                 IN  IF after[k - 1].entries = <<Error>> THEN after[k - 1]
                     ELSE OneEntry(after[k - 1].entries, entry,
                                   ((entry.next - 2) \div ByteBits + 1) * ByteBits + 1)
    IN  after[entries].entries

\* decode_symbol_entries: the next entry starts at the very next bit, in the
\* initial context.
DecodeFrom(trees, bits, initial, entries, start) ==
    LET after[k \in 0 .. entries] ==
            IF k = 0 THEN [entries |-> <<>>, next |-> start]
            ELSE LET entry == Decode(trees, initial, bits, after[k - 1].next, -1)
                 IN  IF after[k - 1].entries = <<Error>> THEN after[k - 1]
                     ELSE OneEntry(after[k - 1].entries, entry, entry.next)
    IN  after[entries].entries

DecodeEntries(trees, bits, initial, entries) == DecodeFrom(trees, bits, initial, entries, 1)

=============================================================================
