------------------------------- MODULE EvmRlp --------------------------------
(***************************************************************************)
(* The reader and the writer of RLP, byte by byte, over any layout of the  *)
(* prefix byte: short forms up to Short bytes, length fields of up to      *)
(* LengthBytes bytes, of which SizeBytes fit a size_t.                     *)
(***************************************************************************)
EXTENDS Naturals, SequencesExt

CONSTANTS
    Single,        \* 0x80: a smaller byte is its own encoding
    Short,         \* 55
    LengthBytes,   \* 8
    SizeBytes      \* sizeof(size_t)

ASSUME RlpAssumption ==
    /\ {Single, Short, LengthBytes, SizeBytes} \subseteq Nat \ {0}
    /\ SizeBytes <= LengthBytes

ListBase == Single + Short + LengthBytes + 1       \* 0xc0
ByteBase == ListBase + Short + LengthBytes + 1     \* 0x100
Byte == 0 .. ByteBase - 1

-----------------------------------------------------------------------------
(* Integers, most significant byte first *)

Value(bytes) == FoldLeft(LAMBDA n, byte : n * ByteBase + byte, 0, bytes)

\* ByteBase ^ k, by the recursion the proofs unfold.
Weight[k \in Nat] == IF k = 0 THEN 1 ELSE ByteBase * Weight[k - 1]

Digits(n) == CHOOSE k \in 0 .. n : n < Weight[k] /\ (k = 0 \/ n >= Weight[k - 1])
ToBytes(n) == [i \in 1 .. Digits(n) |-> (n \div Weight[Digits(n) - i]) % ByteBase]

-----------------------------------------------------------------------------
(* Reader: the cursor is what is left to read. *)

Refused == [ok |-> FALSE]
Item(list, data, rest) == [ok |-> TRUE, list |-> list, data |-> data, rest |-> rest]

\* Mutant: a length may have leading zeros.
read_rlp_length_padded(s, n) == n <= SizeBytes /\ n <= Len(s)

\* The n bytes of a length are there, fit a size_t and do not start with zero.
read_rlp_length(s, n) == n <= SizeBytes /\ n <= Len(s) /\ s[1] # 0

\* Mutant: a small byte may be written as a string.
SmallByteApartAnyway(list, data) == TRUE
SmallByteApart(list, data) == ~(~list /\ Len(data) = 1 /\ data[1] < Single)

read_rlp_item(s) ==
    LET prefix == Head(s)
        list == prefix >= ListBase
        short == prefix - IF list THEN ListBase ELSE Single
        n == short - Short
        length == Value(SubSeq(s, 2, n + 1))
        Payload(first, size) ==
            IF /\ size <= Len(s) - first + 1
               /\ SmallByteApart(list, SubSeq(s, first, first + size - 1))
            THEN Item(list, SubSeq(s, first, first + size - 1), SubSeq(s, first + size, Len(s)))
            ELSE Refused
    IN  CASE s = <<>> -> Refused
          [] s # <<>> /\ prefix < Single -> Item(FALSE, <<prefix>>, Tail(s))
          [] s # <<>> /\ prefix >= Single /\ short <= Short -> Payload(2, short)
          [] s # <<>> /\ prefix >= Single /\ short > Short ->
                IF read_rlp_length(Tail(s), n) /\ length > Short
                THEN Payload(n + 2, length) ELSE Refused

\* read_integer into size bytes; read_u64 is the same with eight.
ReadsInteger(item, size) ==
    ~item.list /\ Len(item.data) <= size /\ (item.data = <<>> \/ item.data[1] # 0)

-----------------------------------------------------------------------------
(* Writer *)

write_rlp_prefix(size, list) ==
    LET base == IF list THEN ListBase ELSE Single
    IN  IF size <= Short THEN <<base + size>> ELSE <<base + Short + Digits(size)>> \o ToBytes(size)

write_rlp_bytes(data) ==
    IF Len(data) = 1 /\ data[1] < Single THEN data ELSE write_rlp_prefix(Len(data), FALSE) \o data

\* write_rlp_u64 and write_rlp_uint256: the bytes without leading zeros.
write_rlp_integer(n) == write_rlp_bytes(ToBytes(n))

write_rlp_list(payload) == write_rlp_prefix(Len(payload), TRUE) \o payload
=============================================================================
