------------------------------ MODULE CryptoNote -----------------------------
(***************************************************************************)
(* Monero and Masari addresses (CryptoNoteAddress.cpp): the public key of  *)
(* a scalar by the firmware's own Edwards arithmetic, and the block-wise   *)
(* Base58 text of prefix, keys and checksum.  The curve is a parameter;    *)
(* mbedtls_mpi numbers are numbers, field elements are below prime.        *)
(***************************************************************************)
EXTENDS Base58

CONSTANTS
    prime,              \* 2^255 - 19
    edwards_d,
    order,              \* 2^252 + 27742317777372353535851937790883648493
    BaseX, BaseY,       \* the base point
    ScalarBits,         \* 253
    ScalarBytesEnd,     \* 2^256
    Keccak(_),          \* crypto_keccak256 of a scalar's bytes, read as a number
    KeccakChecksum(_),  \* the first four bytes of crypto_keccak256 of bytes
    KeyBytes(_)         \* 32 bytes for [y, sign]: y little-endian, the sign in the last bit

ASSUME FieldAssumption ==
    /\ order > 1 /\ 2 ^ (ScalarBits - 1) < order /\ order < 2 ^ ScalarBits
    /\ order <= ScalarBytesEnd

Modulo(value) == value % prime
Inverse_p == [a \in 1 .. (prime - 1) |-> CHOOSE b \in 1 .. (prime - 1) : (a * b) % prime = 1]

-----------------------------------------------------------------------------
point_identity == [x |-> 0, y |-> 1, z |-> 1, t |-> 0]
point_base == [x |-> BaseX, y |-> BaseY, z |-> 1, t |-> Modulo(BaseX * BaseY)]

Extended(e, f, g, h) ==
    [x |-> Modulo(e * f), y |-> Modulo(g * h), t |-> Modulo(e * h), z |-> Modulo(f * g)]

point_add(left, right) ==
    LET a == Modulo(Modulo(left.y - left.x) * Modulo(right.y - right.x))
        b == Modulo(Modulo(left.y + left.x) * Modulo(right.y + right.x))
        c == Modulo(2 * Modulo(Modulo(left.t * right.t) * edwards_d))
        d == Modulo(2 * Modulo(left.z * right.z))
    IN  Extended(Modulo(b - a), Modulo(d - c), Modulo(d + c), Modulo(b + a))

\* d is prime - a, which is prime itself for a = 0.
point_double(point) ==
    LET a == Modulo(point.x * point.x)
        b == Modulo(point.y * point.y)
        c == Modulo(2 * Modulo(point.z * point.z))
        d == prime - a
        sum == Modulo(point.x + point.y)
        e == Modulo(Modulo(Modulo(sum * sum) - a) - b)
        g == Modulo(d + b)
    IN  Extended(e, Modulo(g - c), g, Modulo(d - b))

\* Mutant: the highest bit of the scalar is not looked at.
LadderShort(scalar) ==
    LET Turn(state, bit) ==
            [result |-> IF (scalar \div (2 ^ bit)) % 2 = 1 THEN point_add(state.result, state.addend)
                        ELSE state.result,
             addend |-> point_double(state.addend)]
    IN  FoldLeft(Turn, [result |-> point_identity, addend |-> point_base],
                 [i \in 1 .. (ScalarBits - 1) |-> i - 1]).result

\* The loop over the bits, the lowest first; added is computed in every turn and taken when the
\* bit is set.
Ladder(scalar) ==
    LET Turn(state, bit) ==
            [result |-> IF (scalar \div (2 ^ bit)) % 2 = 1 THEN point_add(state.result, state.addend)
                        ELSE state.result,
             addend |-> point_double(state.addend)]
    IN  FoldLeft(Turn, [result |-> point_identity, addend |-> point_base],
                 [i \in 1 .. ScalarBits |-> i - 1]).result

Affine(point) == [x |-> Modulo(point.x * Inverse_p[point.z]), y |-> Modulo(point.y * Inverse_p[point.z])]

\* y, and the parity of x in the highest bit.
cryptonote_public_key_from_scalar(scalar) ==
    LET affine == Affine(Ladder(scalar))
    IN  IF scalar > 0 /\ scalar < order
        THEN [ok |-> TRUE, y |-> affine.y, sign |-> affine.x % 2]
        ELSE [ok |-> FALSE, y |-> 0, sign |-> 0]

\* A hash is brought below the order; zero is refused.
scalar_reduce(number) == [ok |-> number % order # 0, scalar |-> number % order]

cryptonote_private_keys_from_seed(seed) ==
    LET spend == scalar_reduce(Keccak(seed))
        view == scalar_reduce(Keccak(spend.scalar))
    IN  [ok |-> spend.ok /\ view.ok, spend |-> spend.scalar, view |-> view.scalar]

-----------------------------------------------------------------------------
kFullBlockSize == 8
kFullEncodedBlockSize == 11
kEncodedBlockSizes == [size \in 0 .. 8 |-> <<0, 2, 3, 5, 6, 7, 9, 10, 11>>[size + 1]]
kMaximumPrefixSize == 10
kCryptoNoteStandardAddressSize == 96

\* Seven bits a byte, the lowest first, with the top bit while there are more.
write_varint(value) ==
    LET groups == CHOOSE n \in 1 .. kMaximumPrefixSize :
                      value < 128 ^ n /\ (n = 1 \/ value >= 128 ^ (n - 1))
    IN  [i \in 1 .. groups |->
            ((value \div (128 ^ (i - 1))) % 128) + (IF i < groups THEN 128 ELSE 0)]

\* value / 58 for a 64-bit value held as its bytes, the highest first.
Divided(bytes) ==
    FoldLeft(LAMBDA state, byte :
                 [quotient |-> Append(state.quotient, (256 * state.remainder + byte) \div 58),
                  remainder |-> (256 * state.remainder + byte) % 58],
             [quotient |-> <<>>, remainder |-> 0], bytes)

\* One digit per place, from the last place of the block to the first; ok when nothing is left
\* of the value.
encode_block(input, output_size) ==
    LET Place(state, position) ==
            LET division == Divided(state.value)
            IN  [value |-> division.quotient, text |-> <<division.remainder>> \o state.text]
        last == FoldLeft(Place, [value |-> input, text |-> <<>>],
                         Reverse([position \in 1 .. output_size |-> position]))
    IN  [ok |-> Range(last.value) \subseteq {0}, text |-> last.text]

Blocks(input) ==
    LET full == Len(input) \div kFullBlockSize
        rest == SubSeq(input, full * kFullBlockSize + 1, Len(input))
        whole == [i \in 1 .. full |-> SubSeq(input, (i - 1) * kFullBlockSize + 1, i * kFullBlockSize)]
    IN  IF rest = <<>> THEN whole ELSE Append(whole, rest)

cryptonote_base58(input, out_size) ==
    LET blocks == Blocks(input)
        coded == [i \in DOMAIN blocks |-> encode_block(blocks[i], kEncodedBlockSizes[Len(blocks[i])])]
        text == FlattenSeq([i \in DOMAIN coded |-> coded[i].text])
    IN  IF Len(text) + 1 > out_size \/ \E i \in DOMAIN coded : ~coded[i].ok
        THEN [ok |-> FALSE, text |-> <<>>]
        ELSE [ok |-> TRUE, text |-> text]

AddressPayload(prefix, spend, view) == write_varint(prefix) \o KeyBytes(spend) \o KeyBytes(view)

cryptonote_standard_address(prefix, spend, view, out_size) ==
    LET payload == AddressPayload(prefix, spend, view)
    IN  IF prefix = 0 THEN [ok |-> FALSE, text |-> <<>>]
        ELSE cryptonote_base58(payload \o KeccakChecksum(payload), out_size)

cryptonote_address_from_seed(prefix, seed, out_size) ==
    LET keys == cryptonote_private_keys_from_seed(seed)
        spend == cryptonote_public_key_from_scalar(keys.spend)
        view == cryptonote_public_key_from_scalar(keys.view)
    IN  IF keys.ok /\ spend.ok /\ view.ok
        THEN cryptonote_standard_address(prefix, spend, view, out_size)
        ELSE [ok |-> FALSE, text |-> <<>>]

-----------------------------------------------------------------------------
(* The curve without projective coordinates, and the reader of another wallet. *)

\* -x^2 + y^2 = 1 + d x^2 y^2 and its addition.
CurveSum(p, q) ==
    LET product == Modulo(edwards_d * Modulo(p.x * q.x) * Modulo(p.y * q.y))
    IN  [x |-> Modulo(Modulo(p.x * q.y + p.y * q.x) * Inverse_p[Modulo(1 + product)]),
         y |-> Modulo(Modulo(p.y * q.y + p.x * q.x) * Inverse_p[Modulo(1 - product)])]

BaseMultiple == [k \in 0 .. order |->
    LET sum[j \in 0 .. k] == IF j = 0 THEN [x |-> 0, y |-> 1]
                             ELSE CurveSum(sum[j - 1], [x |-> BaseX, y |-> BaseY])
    IN  sum[k]]

\* The public key is that multiple of the base point, for every scalar from 1 to order - 1, and
\* no two scalars share one; zero and what is not below the order have none.
KeyIsMultiple(scalar) ==
    LET key == cryptonote_public_key_from_scalar(scalar)
        point == BaseMultiple[scalar % order]
    IN  IF scalar = 0 \/ scalar >= order THEN ~key.ok
        ELSE /\ key = [ok |-> TRUE, y |-> point.y, sign |-> point.x % 2]
             /\ \A other \in 1 .. (order - 1) :
                    other # scalar => cryptonote_public_key_from_scalar(other) # key

\* A block back to its bytes: its digits as one number, in as many bytes as its size tells.
DecodedBlock(text) ==
    LET size == CHOOSE n \in 1 .. 8 : kEncodedBlockSizes[n] = Len(text)
        number == NumberOfDigits(text)
    IN  Zeros(size - Len(number)) \o Reverse(number)

DecodedText(text) ==
    LET full == Len(text) \div kFullEncodedBlockSize
        rest == SubSeq(text, full * kFullEncodedBlockSize + 1, Len(text))
    IN  FlattenSeq([i \in 1 .. full |->
                       DecodedBlock(SubSeq(text, (i - 1) * kFullEncodedBlockSize + 1,
                                           i * kFullEncodedBlockSize))])
        \o IF rest = <<>> THEN <<>> ELSE DecodedBlock(rest)

\* Bytes of any number and value, also of zeros, are encoded and decoded to themselves.
BlocksReadBack(input) ==
    LET coded == cryptonote_base58(input, Len(input) * 2 + 2)
    IN  coded.ok /\ DecodedText(coded.text) = input

\* Every seed gives an address that fits its buffer and decodes to the prefix, the public keys of
\* the spend key and of the view key the hash of the spend key gives, and the checksum - or none,
\* when a key would be zero, or the prefix is zero or too long for the callers' buffer.
SeedReadsBack(prefix, seed) ==
    LET address == cryptonote_address_from_seed(prefix, seed, kCryptoNoteStandardAddressSize)
        spend == Keccak(seed) % order
        view == Keccak(spend) % order
        payload == AddressPayload(prefix, cryptonote_public_key_from_scalar(spend),
                                  cryptonote_public_key_from_scalar(view))
    IN  IF spend = 0 \/ view = 0 \/ prefix \notin 1 .. 127 THEN ~address.ok
        ELSE /\ address.ok
             /\ Len(address.text) + 1 = kCryptoNoteStandardAddressSize
             /\ DecodedText(address.text) = payload \o KeccakChecksum(payload)
=============================================================================
