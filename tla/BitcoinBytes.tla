---------------------------- MODULE BitcoinBytes -----------------------------
(***************************************************************************)
(* The bytes of a Bitcoin transaction (BitcoinTransaction.cpp): what       *)
(* parse_unsigned_transaction takes in, the digest each input is signed    *)
(* for, the DER signature and what bitcoin_sign_request sends back after   *)
(* its validation, which BitcoinRequest models.                            *)
(*                                                                         *)
(* ByteEnd sets how far a number of so many bytes reaches; bytes that are  *)
(* only compared, as opcodes and tags, keep the values of the code.        *)
(***************************************************************************)
EXTENDS Addresses

CONSTANTS
    ByteEnd,                        \* 256
    kBitcoinMaxInputs, kBitcoinMaxOutputs, kBitcoinMaxScriptSize,
    kMaximumBitcoinSupply,
    IntegerSize,                    \* 32, the bytes of r and of s
    EcdsaOrder,                     \* of the curve, as long as they are
    kBitcoinMaxDerSignatureSize,    \* 72, with the byte of the hash type
    DoubleSha256(_),                \* crypto_double_sha256 of a sequence of bytes
    EcdsaSign(_, _)                 \* mbedtls_ecdsa_sign_det_ext of key and digest: <<r, s>>

kSighashAll == 1

\* How far a number of k bytes reaches.
Reach[k \in Nat] == IF k = 0 THEN 1 ELSE ByteEnd * Reach[k - 1]

Byte == 0 .. ByteEnd - 1

\* A byte has room for the three long forms of a length, and a value and a script for their limits.
BytesAssumption ==
    /\ ByteEnd \in Nat /\ ByteEnd > 3
    /\ kBitcoinMaxInputs \in Nat /\ kBitcoinMaxInputs < Reach[8]
    /\ kBitcoinMaxOutputs \in Nat /\ kBitcoinMaxOutputs < Reach[8]
    /\ kBitcoinMaxScriptSize \in Nat /\ kBitcoinMaxScriptSize < Reach[8]
    /\ kMaximumBitcoinSupply \in Nat /\ kMaximumBitcoinSupply < Reach[8]
ASSUME BytesAssumption

-----------------------------------------------------------------------------
(* The cursor is the bytes that are left. *)

NotRead == [ok |-> FALSE]
ReadAs(value, rest) == [ok |-> TRUE, value |-> value, rest |-> rest]
Then(read, Continue(_, _)) == IF read.ok THEN Continue(read.value, read.rest) ELSE NotRead

LittleEndian(value, size) == [i \in 1 .. size |-> (value \div Reach[i - 1]) % ByteEnd]
NumberIn(bytes) == FoldLeft(LAMBDA number, byte : number * ByteEnd + byte, 0, Reverse(bytes))

read_bytes(rest, count) ==
    IF count > Len(rest) THEN NotRead
    ELSE ReadAs(SubSeq(rest, 1, count), SubSeq(rest, count + 1, Len(rest)))

ReadNumber(rest, size) ==
    Then(read_bytes(rest, size), LAMBDA bytes, after : ReadAs(NumberIn(bytes), after))
read_u32(rest) == ReadNumber(rest, 4)
read_u64(rest) == ReadNumber(rest, 8)

\* Two, four or eight bytes follow a first byte that is one of the last three.
LongForms == [first \in (ByteEnd - 3) .. (ByteEnd - 1) |-> <<2, 4, 8>>[first - (ByteEnd - 4)]]

\* The least number a form is for.
LeastOf(size) == IF size = 2 THEN ByteEnd - 3 ELSE Reach[size \div 2]

read_compact_size(rest) ==
    Then(read_bytes(rest, 1), LAMBDA first, after :
        IF first[1] \notin DOMAIN LongForms THEN ReadAs(first[1], after)
        ELSE LET size == LongForms[first[1]]
             IN  Then(ReadNumber(after, size), LAMBDA value, left :
                     IF value < LeastOf(size) THEN NotRead ELSE ReadAs(value, left)))

write_u32(value) == LittleEndian(value, 4)
write_u64(value) == LittleEndian(value, 8)

LongForm(first, value) == <<first>> \o LittleEndian(value, LongForms[first])

write_compact_size(value) ==
    IF value < ByteEnd - 3 THEN <<value>>
    ELSE IF value < Reach[2] THEN LongForm(ByteEnd - 3, value)
    ELSE IF value < Reach[4] THEN LongForm(ByteEnd - 2, value)
    ELSE LongForm(ByteEnd - 1, value)

\* Items one after another; then the next number of them.
ReadItems(rest, count, ReadItem(_)) ==
    LET Upto[i \in 0 .. count] ==
            IF i = 0 THEN ReadAs(<<>>, rest)
            ELSE Then(Upto[i - 1], LAMBDA items, after :
                     Then(ReadItem(after), LAMBDA item, left : ReadAs(Append(items, item), left)))
    IN  Upto[count]

ReadCounted(rest, limit, ReadItem(_)) ==
    Then(read_compact_size(rest), LAMBDA count, after :
        IF count \in 1 .. limit THEN ReadItems(after, count, ReadItem) ELSE NotRead)

-----------------------------------------------------------------------------
\* An input has no script before it is signed.
ReadInput(rest) ==
    Then(read_bytes(rest, 32), LAMBDA txid, r1 :
    Then(read_u32(r1), LAMBDA previous_index, r2 :
    Then(read_compact_size(r2), LAMBDA script_size, r3 :
        IF script_size # 0 THEN NotRead
        ELSE Then(read_u32(r3), LAMBDA sequence, r4 :
                 ReadAs([previous_txid |-> txid, previous_index |-> previous_index,
                         sequence |-> sequence], r4)))))

ReadOutput(rest) ==
    Then(read_u64(rest), LAMBDA value, r1 :
        IF value > kMaximumBitcoinSupply THEN NotRead
        ELSE Then(read_compact_size(r1), LAMBDA script_size, r2 :
             IF script_size > kBitcoinMaxScriptSize THEN NotRead
             ELSE Then(read_bytes(r2, script_size), LAMBDA script, r3 :
                  IF address_from_script(kBitcoinMainnet, script) = NoText THEN NotRead
                  ELSE ReadAs([value |-> value, script |-> script], r3))))

parse_unsigned_transaction(bytes) ==
    Then(read_u32(bytes), LAMBDA version, r1 :
        IF version \notin {1, 2} THEN NotRead
        ELSE Then(ReadCounted(r1, kBitcoinMaxInputs, ReadInput), LAMBDA inputs, r2 :
             Then(ReadCounted(r2, kBitcoinMaxOutputs, ReadOutput), LAMBDA outputs, r3 :
             Then(read_u32(r3), LAMBDA lock_time, left :
                 IF left # <<>> THEN NotRead
                 ELSE ReadAs([version |-> version, inputs |-> inputs, outputs |-> outputs,
                              lock_time |-> lock_time], left)))))

-----------------------------------------------------------------------------
\* What the input maps add to an input: its kind, its key and the value it spends.
Spending(tx, spends) ==
    [tx EXCEPT !.inputs = [i \in DOMAIN tx.inputs |-> tx.inputs[i] @@ spends[i]]]

OutPoint(input) == input.previous_txid \o write_u32(input.previous_index)

serialize_outputs(outputs) ==
    FlattenSeq([i \in DOMAIN outputs |->
        write_u64(outputs[i].value) \o write_compact_size(Len(outputs[i].script)) \o outputs[i].script])

bip143_preimage(request, index) ==
    LET inputs == request.inputs
        input == inputs[index]
    IN  write_u32(request.version)
        \o DoubleSha256(FlattenSeq([i \in DOMAIN inputs |-> OutPoint(inputs[i])]))
        \o DoubleSha256(FlattenSeq([i \in DOMAIN inputs |-> write_u32(inputs[i].sequence)]))
        \o OutPoint(input)
        \o <<25, OP_DUP, OP_HASH160, 20>> \o Hash160(Compressed(input.key))
        \o <<OP_EQUALVERIFY, OP_CHECKSIG>>
        \o write_u64(input.value) \o write_u32(input.sequence)
        \o DoubleSha256(serialize_outputs(request.outputs))
        \o write_u32(request.lock_time) \o write_u32(kSighashAll)

\* The writer of the preimage has exactly these bytes.
kPreimageSize == 182
DigestOf(preimage) ==
    IF Len(preimage) > kPreimageSize THEN NotRead ELSE ReadAs(DoubleSha256(preimage), <<>>)

bip143_digest(request, index) == DigestOf(bip143_preimage(request, index))

-----------------------------------------------------------------------------
\* The bytes of a scalar from its first one that is not zero; zero itself is one byte.
Magnitude(value) ==
    LET raw == Reverse(LittleEndian(value, IntegerSize))
        first == CHOOSE i \in DOMAIN raw :
                     /\ \A j \in 1 .. (i - 1) : raw[j] = 0
                     /\ raw[i] # 0 \/ i = IntegerSize
    IN  SubSeq(raw, first, IntegerSize)

\* A first byte with the high bit set would make the integer negative.
DerContent(raw) == IF raw[1] >= ByteEnd \div 2 THEN <<0>> \o raw ELSE raw
DerTagged(content) == <<2, Len(content)>> \o content

\* Mutant: a first byte with the high bit set makes the integer negative.
der_integer_signed(value) == DerTagged(Magnitude(value))

der_integer(value) == DerTagged(DerContent(Magnitude(value)))

LowHalf(s) == IF s > EcdsaOrder \div 2 THEN EcdsaOrder - s ELSE s

\* One byte of the buffer is kept for the hash type.
DerSequence(integers) ==
    IF kBitcoinMaxDerSignatureSize - 1 < Len(integers) + 2 THEN NotRead
    ELSE ReadAs(<<48, Len(integers)>> \o integers, <<>>)

DerPair(signature) == DerSequence(der_integer(signature[1]) \o der_integer(LowHalf(signature[2])))
sign_digest(key, digest) == DerPair(EcdsaSign(key, digest))

\* The digest of an input, its signature and the byte of the hash type.
InputSignature(request, index) ==
    Then(bip143_digest(request, index), LAMBDA digest, none :
    Then(sign_digest(request.inputs[index].key, digest), LAMBDA der, none_ :
        ReadAs(Append(der, kSighashAll), <<>>)))

Sized(bytes) == write_compact_size(Len(bytes)) \o bytes

\* A native input has no script, a nested one pushes its redeem script.
SignatureScript(input) ==
    LET redeem_script == RedeemScript(Compressed(input.key))
    IN  IF input.nested THEN <<Len(redeem_script)>> \o redeem_script ELSE <<>>

\* The transaction with its witnesses (BIP 144).
SignedBytes(request, signatures) ==
    LET inputs == request.inputs
    IN  write_u32(request.version) \o <<0, 1>> \o write_compact_size(Len(inputs))
        \o FlattenSeq([i \in DOMAIN inputs |->
               OutPoint(inputs[i]) \o Sized(SignatureScript(inputs[i]))
               \o write_u32(inputs[i].sequence)])
        \o write_compact_size(Len(request.outputs)) \o serialize_outputs(request.outputs)
        \o FlattenSeq([i \in DOMAIN inputs |->
               write_compact_size(2) \o Sized(signatures[i].value)
               \o Sized(Compressed(inputs[i].key))])
        \o write_u32(request.lock_time)

IfItFits(bytes, size) == IF Len(bytes) <= size THEN ReadAs(bytes, <<>>) ELSE NotRead

Sent(request, signatures, out_size) ==
    IF \A i \in DOMAIN signatures : signatures[i].ok
    THEN IfItFits(SignedBytes(request, signatures), out_size) ELSE NotRead

\* bitcoin_sign_request from the signatures on.
signed_transaction(request, out_size) ==
    Sent(request, [i \in DOMAIN request.inputs |-> InputSignature(request, i)], out_size)

-----------------------------------------------------------------------------
(* What a node reads. *)

UnsignedBytes(tx) ==
    write_u32(tx.version) \o write_compact_size(Len(tx.inputs))
    \o FlattenSeq([i \in DOMAIN tx.inputs |->
           OutPoint(tx.inputs[i]) \o <<0>> \o write_u32(tx.inputs[i].sequence)])
    \o write_compact_size(Len(tx.outputs)) \o serialize_outputs(tx.outputs)
    \o write_u32(tx.lock_time)

ReadSized(rest) == Then(read_compact_size(rest), LAMBDA size, after : read_bytes(after, size))

ReadSignedInput(rest) ==
    Then(read_bytes(rest, 32), LAMBDA txid, r1 :
    Then(read_u32(r1), LAMBDA previous_index, r2 :
    Then(ReadSized(r2), LAMBDA script, r3 :
    Then(read_u32(r3), LAMBDA sequence, r4 :
        ReadAs([previous_txid |-> txid, previous_index |-> previous_index,
                script |-> script, sequence |-> sequence], r4)))))

ReadWitness(rest) == ReadCounted(rest, ByteEnd, ReadSized)

\* A transaction with witnesses (BIP 144).
ReadSigned(bytes) ==
    Then(read_u32(bytes), LAMBDA version, r1 :
    Then(read_bytes(r1, 2), LAMBDA marker_flag, r2 :
    Then(ReadCounted(r2, kBitcoinMaxInputs, ReadSignedInput), LAMBDA inputs, r3 :
    Then(ReadCounted(r3, kBitcoinMaxOutputs, ReadOutput), LAMBDA outputs, r4 :
    Then(ReadItems(r4, Len(inputs), ReadWitness), LAMBDA witnesses, r5 :
    Then(read_u32(r5), LAMBDA lock_time, left :
        IF marker_flag # <<0, 1>> \/ left # <<>> THEN NotRead
        ELSE ReadAs([version |-> version, inputs |-> inputs, outputs |-> outputs,
                     witnesses |-> witnesses, lock_time |-> lock_time], left)))))))

\* A DER integer that is positive and as short as it can be (BIP 66).
ReadDerInteger(rest) ==
    IF Len(rest) < 2 \/ rest[1] # 2 THEN NotRead
    ELSE Then(read_bytes(Tail(Tail(rest)), rest[2]), LAMBDA content, after :
             IF /\ content # <<>> /\ content[1] < ByteEnd \div 2
                /\ Len(content) > 1 /\ content[1] = 0 => content[2] >= ByteEnd \div 2
             THEN ReadAs(NumberIn(Reverse(content)), after) ELSE NotRead)

ReadDer(bytes) ==
    IF Len(bytes) < 2 \/ bytes[1] # 48 \/ bytes[2] # Len(bytes) - 2 THEN NotRead
    ELSE Then(ReadDerInteger(SubSeq(bytes, 3, Len(bytes))), LAMBDA r, after :
         Then(ReadDerInteger(after), LAMBDA s, left :
             IF left = <<>> THEN ReadAs(<<r, s>>, left) ELSE NotRead))

\* A length reads back from what is written for it, whatever follows, and is written as it was.
LengthReadsBack(value, tail) ==
    read_compact_size(write_compact_size(value) \o tail) = ReadAs(value, tail)
WrittenAs(bytes, read) == read.ok => bytes = write_compact_size(read.value) \o read.rest
LengthIsCanonical(bytes) == WrittenAs(bytes, read_compact_size(bytes))

\* What was read is the signature of the key for this digest, in the low-S form.
IsSignatureOf(read, key, digest) ==
    LET signature == EcdsaSign(key, digest)
    IN  /\ read.ok /\ read.value[1] = signature[1]
        /\ read.value[2] \in {signature[2], EcdsaOrder - signature[2]}
        /\ read.value[2] \in 1 .. (EcdsaOrder \div 2)
Carries(bytes, key, digest) == IsSignatureOf(ReadDer(bytes), key, digest)

\* Every signature fits its buffer, and reads back.
DerCarries(der, key, digest) == der.ok /\ Carries(der.value, key, digest)
SignatureIsDer(key, digest) == DerCarries(sign_digest(key, digest), key, digest)

\* The transactions that differ from a request in one thing an input signs for.
OtherRequests(request, index) ==
    {[request EXCEPT !.version = 3 - @], [request EXCEPT !.lock_time = @ + 1],
     [request EXCEPT !.inputs[index].value = @ + 1],
     [request EXCEPT !.outputs = @ \o @], [request EXCEPT !.inputs = @ \o @]}
    \cup {[request EXCEPT !.inputs[i].sequence = @ + 1] : i \in DOMAIN request.inputs}
    \cup {[request EXCEPT !.inputs[i].previous_index = @ + 1] : i \in DOMAIN request.inputs}
    \cup {[request EXCEPT !.inputs[i].previous_txid = Reverse(@)] : i \in DOMAIN request.inputs}
    \cup {[request EXCEPT !.outputs[i].value = @ + 1] : i \in DOMAIN request.outputs}
    \cup {[request EXCEPT !.outputs[i].script[5] = @ + 1] : i \in DOMAIN request.outputs}

\* What is accepted is the one encoding of what it is taken for.
EncodedAs(bytes, read) == read.ok => UnsignedBytes(read.value) = bytes
UnsignedIsCanonical(bytes) == EncodedAs(bytes, parse_unsigned_transaction(bytes))

\* A nested input names its redeem script, a native one has none.
NamesItsScript(script, input) ==
    LET redeem_script == Tail(script)
    IN  IF input.nested
        THEN /\ script[1] = Len(redeem_script)
             /\ <<OP_HASH160, 20>> \o Hash160(redeem_script) \o <<OP_EQUAL>>
                    = ScriptTo("P2shP2wpkh", Compressed(input.key))
        ELSE script = <<>>

\* An input carries a signature of its key for a digest, next to that key, and no other
\* transaction has the digest.
InputIsSigned(request, i, witness, digest) ==
    /\ digest.ok
    /\ witness = <<witness[1], Compressed(request.inputs[i].key)>>
    /\ Last(witness[1]) = kSighashAll
    /\ Carries(Front(witness[1]), request.inputs[i].key, digest.value)
    /\ \A other \in OtherRequests(request, i) : bip143_digest(other, i) # digest

\* What is sent together with the keys and the values that only the wallet knows.
WithSpends(sent, request) ==
    [version |-> sent.version, lock_time |-> sent.lock_time, outputs |-> sent.outputs,
     inputs |-> [i \in DOMAIN sent.inputs |->
         sent.inputs[i] @@ [key |-> request.inputs[i].key, value |-> request.inputs[i].value]]]

SentIsTheRequest(sent, request) ==
    /\ UnsignedBytes(sent) = UnsignedBytes(request)
    /\ \A i \in DOMAIN request.inputs :
           /\ InputIsSigned(request, i, sent.witnesses[i],
                            bip143_digest(WithSpends(sent, request), i))
           /\ NamesItsScript(sent.inputs[i].script, request.inputs[i])

\* The bytes that are sent hold the transaction of the request and, for each input, a
\* signature of its key that covers this transaction and the value spent and no other.
ReadsAsRequest(read, request) == read.ok /\ SentIsTheRequest(read.value, request)
SignedIsTheRequest(request, out_size) ==
    \A signed \in {signed_transaction(request, out_size)} :
        signed.ok /\ ReadsAsRequest(ReadSigned(signed.value), request)
=============================================================================
