-------------------------------- MODULE Codec --------------------------------
(***************************************************************************)
(* The bytes of the journal and of the snapshot: fixed-width integers,     *)
(* LEB128 varints, the reader and the checksum (codec.rs), and the codes   *)
(* both files share (journal.rs).                                          *)
(*                                                                         *)
(* A byte is a tuple <<n>>.  The checksum is the one thing that is not     *)
(* computed: its four bytes are tuples that name what they are the         *)
(* checksum of, so that different data never have the same one.            *)
(***************************************************************************)
EXTENDS Integers, SequencesExt

CONSTANT WordBits   \* bits of a word; 64 in the code

\* As 64 is, one more than a multiple of 7: the last group holds one bit.
ASSUME WordAssumption == WordBits \in Nat /\ WordBits > 7 /\ WordBits % 7 = 1

Byte(n) == <<n>>
Value(byte) == byte[1]

NoError == "none"

----------------------------------------------------------------------------
(* Writer *)

LittleEndian(n, width) ==
    [i \in 1..width |-> Byte((n \div 256 ^ (i - 1)) % 256)]

U8(n) == LittleEndian(n, 1)
U16(n) == LittleEndian(n, 2)
U32(n) == LittleEndian(n, 4)

WordBytes == (WordBits + 7) \div 8
U64(n) == LittleEndian(n, WordBytes)

\* The most groups of 7 bits a word has: 10 for a word of 64 bits.
MaxGroups == (WordBits + 6) \div 7

Groups(n) == Cardinality({k \in 1..MaxGroups : k = 1 \/ n \div 128 ^ (k - 1) > 0})

\* Seven bits a byte, the lowest first; all but the last byte are marked.
Varint(n) ==
    [i \in 1..Groups(n) |->
        LET group == (n \div 128 ^ (i - 1)) % 128
        IN  Byte(IF i < Groups(n) THEN group + 128 ELSE group)]

Varints(ns) == FlattenSeq([i \in DOMAIN ns |-> Varint(ns[i])])

\* Codes of the journal and the snapshot: places in a list, starting with 0.
TifCodes == <<"Gtc", "Ioc", "Fok", "PostOnly">>
StpCodes == <<"Off", "CancelTaker", "CancelMaker", "CancelBoth">>

Code(codes, name) == (CHOOSE i \in DOMAIN codes : codes[i] = name) - 1

Crc32(data) == [k \in 1..4 |-> <<k, data>>]

\* FoldLeft for an operator that uses its first argument many times, which
\* the choice has TLC evaluate once.
FoldOnce(Op(_, _), base, seq) ==
    FoldLeft(LAMBDA x, y : CHOOSE z \in {Op(v, y) : v \in {x}} : TRUE, base, seq)

----------------------------------------------------------------------------
(* Reader: what is left of the data, the values read so far, and the error  *)
(* that ended the reading.                                                  *)

Reader(data) == [rest |-> data, values |-> <<>>, err |-> NoError]

Fail(r, err) == [r EXCEPT !.err = err]

Took(r, count, value) ==
    [r EXCEPT !.rest = SubSeq(@, count + 1, Len(@)),
              !.values = Append(@, value)]

ReadFixed(r, width) ==
    IF Len(r.rest) < width THEN Fail(r, "UnexpectedEof")
    ELSE Took(r, width,
              MapThenSumSet(LAMBDA i : Value(r.rest[i]) * 256 ^ (i - 1),
                            1..width))

\* A group that reaches past the word loses its upper bits.
GroupBits(i) == Min({7, WordBits - 7 * (i - 1)})

VarintValue(bytes, count) ==
    MapThenSumSet(LAMBDA i : (Value(bytes[i]) % 2 ^ GroupBits(i))
                                 * 2 ^ (7 * (i - 1)),
                  1..count)

ReadVarint(r) ==
    LET last == {i \in 1..Min({Len(r.rest), MaxGroups}) : Value(r.rest[i]) < 128}
    IN  IF last # {} THEN Took(r, Min(last), VarintValue(r.rest, Min(last)))
        ELSE Fail(r, IF Len(r.rest) > MaxGroups THEN "Overflow"
                     ELSE "UnexpectedEof")

ReadField(r, kind) ==
    IF r.err # NoError THEN r
    ELSE CASE kind = "u8" -> ReadFixed(r, 1)
           [] kind = "u32" -> ReadFixed(r, 4)
           [] kind = "u64" -> ReadFixed(r, WordBytes)
           [] kind = "varint" -> ReadVarint(r)

\* One field after the other, up to the first error.
ReadFields(reader, kinds) == FoldOnce(ReadField, reader, kinds)

Varying(count) == [i \in 1..count |-> "varint"]

\* The fields of a record at the reader, without those before it.
ReadRecord(r, kinds) == ReadFields([r EXCEPT !.values = <<>>], kinds)

\* A list is its length and its items.  ReadItem returns an item and the
\* reader behind it.
EncodeList(EncodeItem(_), items) ==
    Varint(Len(items))
      \o FlattenSeq([i \in DOMAIN items |-> EncodeItem(items[i])])

ReadList(ReadItem(_), reader) ==
    LET count == ReadRecord(reader, <<"varint">>)
        next(s, i) ==
            LET got == ReadItem(s.r)
            IN  IF s.r.err # NoError THEN s
                ELSE [r |-> got.r, items |-> Append(s.items, got.item)]
    IN  FoldOnce(next, [r |-> count, items |-> <<>>],
                 [i \in 1..(IF count.err = NoError THEN count.values[1] ELSE 0)
                     |-> i])
==============================================================================
