------------------------------- MODULE HexText -------------------------------
(***************************************************************************)
(* Bytes in hexadecimal, as commands and answers hold them (WalletCli.cpp) *)
(* and as contracts are written (EvmTransaction.cpp, WalletTokens.cpp).    *)
(***************************************************************************)
EXTENDS Integers, Sequences, SequencesExt

kHex == <<"0", "1", "2", "3", "4", "5", "6", "7", "8", "9", "a", "b", "c", "d", "e", "f">>
kUpperHex == <<"A", "B", "C", "D", "E", "F">>

IsHex(char) == Contains(kHex, char) \/ Contains(kUpperHex, char)
hex_nibble(char) ==
    IF Contains(kHex, char) THEN (CHOOSE i \in DOMAIN kHex : kHex[i] = char) - 1
    ELSE (CHOOSE i \in DOMAIN kUpperHex : kUpperHex[i] = char) + 9

Undecodable == [ok |-> FALSE]
DecodedBytes(text) ==
    [ok |-> TRUE,
     bytes |-> [i \in 1 .. (Len(text) \div 2) |->
                   16 * hex_nibble(text[2 * i - 1]) + hex_nibble(text[2 * i])]]

decode_hex_exact(text, out_size) ==
    IF Len(text) = 2 * out_size /\ \A i \in DOMAIN text : IsHex(text[i])
    THEN DecodedBytes(text) ELSE Undecodable

\* An odd length has no bytes, nor has no text at all.
decode_hex(text, capacity) ==
    IF text = <<>> \/ Len(text) % 2 = 1 \/ Len(text) \div 2 > capacity THEN Undecodable
    ELSE decode_hex_exact(text, Len(text) \div 2)

print_hex(bytes) ==
    FlattenSeq([i \in DOMAIN bytes |-> <<kHex[(bytes[i] \div 16) + 1], kHex[(bytes[i] % 16) + 1]>>])
print_hex_reverse(bytes) == print_hex(Reverse(bytes))

\* decode_contract, valid_erc20_contract: the prefix is in lower case, the digits need not be.
decode_contract(text, account_size) ==
    IF Len(text) # 2 + 2 * account_size \/ SubSeq(text, 1, 2) # <<"0", "x">> THEN Undecodable
    ELSE decode_hex_exact(SubSeq(text, 3, Len(text)), account_size)
valid_erc20_contract(text, account_size) ==
    /\ Len(text) = 2 + 2 * account_size
    /\ SubSeq(text, 1, 2) = <<"0", "x">>
    /\ \A i \in 3 .. Len(text) : IsHex(text[i])

-----------------------------------------------------------------------------
\* The digits of a text in lower case.
LowerHex(text) ==
    [i \in DOMAIN text |-> IF IsHex(text[i]) THEN kHex[hex_nibble(text[i]) + 1] ELSE text[i]]

\* What is decoded is printed as it was written, but for the case; a text is refused only for its
\* length or for a character that is no digit.  The contract of a token that passes the check of
\* the table can be compared with the one of a transaction.
HexIsRead(text, capacity) ==
    LET read == decode_hex(text, capacity)
    IN  /\ read.ok <=>
               /\ Len(text) \in {2 * size : size \in 1 .. capacity}
               /\ LowerHex(text) \in Seq(Range(kHex))
        /\ read.ok =>
               /\ print_hex(read.bytes) = LowerHex(text)
               /\ \A i \in DOMAIN read.bytes : read.bytes[i] \in 0 .. 255
               /\ decode_hex(print_hex_reverse(read.bytes), capacity).bytes = Reverse(read.bytes)
        /\ valid_erc20_contract(text, capacity) <=> decode_contract(text, capacity).ok
=============================================================================
