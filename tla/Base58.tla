-------------------------------- MODULE Base58 -------------------------------
(***************************************************************************)
(* base58.cpp and base58check of WalletAddresses.cpp: encode_base58 works  *)
(* in a buffer of a guessed size and skips its leading zeros; b58check_dec *)
(* goes the other way with its own buffers and checks the checksum.        *)
(* Bytes are numbers below 256, characters their places in the alphabet    *)
(* (the Bitcoin and the Ripple one differ in nothing else), and what is in *)
(* no alphabet is NoDigit.                                                 *)
(***************************************************************************)
EXTENDS Integers, Sequences, SequencesExt

CONSTANTS
    Checksum(_),        \* the first bytes of the double SHA-256
    kChecksumSize,      \* 4
    kMaximumEncodedSize,\* 120
    kDecodeBufferSize   \* 128

NoDigit == -1

Leading(zero, seq) ==
    LET others == {i \in DOMAIN seq : seq[i] # zero}
    IN  IF others = {} THEN Len(seq) ELSE (CHOOSE i \in others : \A j \in others : i <= j) - 1

Zeros(count) == [i \in 1 .. count |-> 0]

-----------------------------------------------------------------------------
\* Mutant: rounded down.
work_size_short(input_size, zeroes) == ((input_size - zeroes) * 138) \div 100

\* (input_size - zeroes) * 138 / 100 + 1
work_size(input_size, zeroes) == ((input_size - zeroes) * 138) \div 100 + 1

\* The digits so far and how many places at the front none has reached; inside the inner loop
\* also the place it is at and what it carries there.
Buffers == [work : Seq(Nat), high : Nat]
Carrying == [work : Seq(Nat), high : Nat, j : Nat, carry : Nat]

\* The inner loop goes on while there is a carry, and at least down to the place the last byte
\* ended at.
Carried(state) == state.j = 0 \/ (state.j <= state.high /\ state.carry = 0)
CarryStep(state) ==
    LET total == state.carry + 256 * state.work[state.j]
    IN  [state EXCEPT !.work[state.j] = total % 58, !.carry = total \div 58, !.j = @ - 1]

\* Up to so many turns of it, in halves, so that they do not nest as deep as the text is long.
CarryDown[turns \in Nat, state \in Carrying] ==
    IF turns = 0 \/ Carried(state) THEN state
    ELSE IF turns = 1 THEN CarryStep(state)
    ELSE CarryDown[turns - turns \div 2, CarryDown[turns \div 2, state]]

\* The place it stops at is high for the next byte; it does not leave the first one.
Stopped(state) == [work |-> state.work, high |-> IF state.j = 0 THEN 1 ELSE state.j]
TakeByte(state, byte) ==
    LET size == Len(state.work)
    IN  Stopped(CarryDown[size, [work |-> state.work, high |-> state.high, j |-> size, carry |-> byte]])

\* The loop over the bytes, in halves as well.
WorkOf[input \in Seq(Nat), state \in Buffers] ==
    LET half == Len(input) \div 2
    IN  IF input = <<>> THEN state
        ELSE IF half = 0 THEN TakeByte(state, input[1])
        ELSE WorkOf[SubSeq(input, half + 1, Len(input)), WorkOf[SubSeq(input, 1, half), state]]

\* The digits, and the size they need with the final zero byte; ok when out_size has room.
encode_base58(out_size, input) ==
    LET zeroes == Leading(0, input)
        size == work_size(Len(input), zeroes)
        work == WorkOf[SubSeq(input, zeroes + 1, Len(input)),
                       [work |-> Zeros(size), high |-> size]].work
        first == Leading(0, work)
        required == zeroes + size - first + 1
    IN  IF out_size < required THEN [ok |-> FALSE, size |-> required, text |-> <<>>]
        ELSE [ok |-> TRUE, size |-> required,
              text |-> Zeros(zeroes) \o SubSeq(work, first + 1, size)]

kMaximumBase58PayloadSize == 78

base58check(payload, out_size) ==
    IF Len(payload) > kMaximumBase58PayloadSize
    THEN [ok |-> FALSE, size |-> out_size, text |-> <<>>]
    ELSE encode_base58(out_size, payload \o Checksum(payload))

-----------------------------------------------------------------------------
\* The two inner loops of b58check_dec: a digit is added to 58 times the number, and what is
\* carried out of it lengthens it.
RECURSIVE Lengthened(_, _)
Lengthened(number, carry) ==
    IF carry = 0 \/ Len(number) > kDecodeBufferSize THEN number
    ELSE Lengthened(Append(number, carry % 256), carry \div 256)

RECURSIVE AddDigit(_, _, _)
AddDigit(little_endian, j, carry) ==
    IF j > Len(little_endian) THEN Lengthened(little_endian, carry)
    ELSE LET total == carry + 58 * little_endian[j]
         IN  AddDigit([little_endian EXCEPT ![j] = total % 256], j + 1, total \div 256)

\* The loop over the digits, in halves as well.
NumberFrom[number \in Seq(Nat), text \in Seq(Int)] ==
    LET half == Len(text) \div 2
    IN  IF text = <<>> THEN number
        ELSE IF half = 0 THEN AddDigit(number, 1, text[1])
        ELSE NumberFrom[NumberFrom[number, SubSeq(text, 1, half)],
                        SubSeq(text, half + 1, Len(text))]

NumberOfDigits(text) == NumberFrom[<<>>, text]

b58check_dec(text, out_size) ==
    LET number == NumberOfDigits(text)
        decoded == Zeros(Leading(0, text)) \o Reverse(number)
        payload_size == Len(decoded) - kChecksumSize
        payload == SubSeq(decoded, 1, payload_size)
    IN  IF \/ text = <<>> \/ Len(text) > kMaximumEncodedSize
           \/ NoDigit \in Range(text)
           \/ Len(number) > kDecodeBufferSize
           \/ payload_size < 0 \/ out_size < payload_size
           \/ SubSeq(decoded, payload_size + 1, Len(decoded)) # Checksum(payload)
        THEN [ok |-> FALSE, payload |-> <<>>]
        ELSE [ok |-> TRUE, payload |-> payload]

-----------------------------------------------------------------------------
\* Every payload, also one of zeros or with zeros in front, is encoded within the buffer and
\* decoded to itself; a buffer one byte short is refused and told the size it needs.
PayloadReadsBack(payload) ==
    LET coded == base58check(payload, kMaximumEncodedSize)
        short == base58check(payload, coded.size - 1)
    IN  /\ coded.ok
        /\ b58check_dec(coded.text, Len(payload)) = [ok |-> TRUE, payload |-> payload]
        /\ payload # <<>> => ~b58check_dec(coded.text, Len(payload) - 1).ok
        /\ ~short.ok /\ short.size = Len(coded.text) + 1

\* A text that is taken is the one and only text of its payload.
TextIsCanonical(text) ==
    LET read == b58check_dec(text, kDecodeBufferSize)
    IN  read.ok => base58check(read.payload, kMaximumEncodedSize).text = text
=============================================================================
