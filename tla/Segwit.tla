-------------------------------- MODULE Segwit -------------------------------
(***************************************************************************)
(* Native SegWit addresses: bech32 and bech32m (local_bech32.cpp) and the  *)
(* programs in them (local_segwit.cpp), with the real checksum.            *)
(* A text is a sequence of character codes, data a sequence of numbers     *)
(* below 32, a program a sequence of bytes.                                *)
(***************************************************************************)
EXTENDS Integers, Sequences, SequencesExt, Bitwise

kMaximumTextLength == 90
kChecksumLength == 6
One == 49                       \* '1'

\* "qpzry9x8gf2tvdw0s3jn54khce6mua7l"
kCharset ==
    <<113, 112, 122, 114, 121, 57, 120, 56, 103, 102, 50, 116, 118, 100, 119, 48,
      115, 51, 106, 110, 53, 52, 107, 104, 99, 101, 54, 109, 117, 97, 55, 108>>

\* 0x3b6a57b2, 0x26508e6d, 0x1ea119fa, 0x3d4233dd, 0x2a1462b3
kGenerator == <<996825010, 642813549, 513874426, 1027748829, 705979059>>

encoding_constant == [BECH32 |-> 1, BECH32M |-> 734539939]      \* 0x2bc830a3

Lower == 97 .. 122
Upper == 65 .. 90
lc(c) == IF c \in Upper THEN c + 32 ELSE c
uc(c) == IF c \in Lower THEN c - 32 ELSE c

-----------------------------------------------------------------------------
\* One value more: the top five bits choose the generators, the rest moves up.
PolymodStep(c, value) ==
    LET top == c \div (2 ^ 25)
        Taken(sum, bit) == IF (top \div 2 ^ (bit - 1)) % 2 = 1 THEN sum ^^ kGenerator[bit] ELSE sum
    IN  FoldLeft(Taken, ((c % (2 ^ 25)) * 32) ^^ value, <<1, 2, 3, 4, 5>>)

\* The loop over the values, in halves, so that it does not nest as deep as the text is long.
PolymodFrom[c \in Nat, values \in Seq(Nat)] ==
    LET half == Len(values) \div 2
    IN  IF values = <<>> THEN c
        ELSE IF half = 0 THEN PolymodStep(c, values[1])
        ELSE PolymodFrom[PolymodFrom[c, SubSeq(values, 1, half)],
                         SubSeq(values, half + 1, Len(values))]

polymod(values) == PolymodFrom[1, values]

expand_hrp(hrp) ==
    [i \in DOMAIN hrp |-> hrp[i] \div 32] \o <<0>> \o [i \in DOMAIN hrp |-> hrp[i] % 32]

EncodingOf(check) ==
    IF check \in Range(encoding_constant)
    THEN CHOOSE encoding \in DOMAIN encoding_constant : encoding_constant[encoding] = check
    ELSE "INVALID"

verify_checksum(hrp, values) == EncodingOf(polymod(expand_hrp(hrp) \o values))

create_checksum(hrp, values, encoding) ==
    LET zeros == [i \in 1 .. kChecksumLength |-> 0]
        mod == polymod(expand_hrp(hrp) \o values \o zeros) ^^ encoding_constant[encoding]
    IN  [i \in 1 .. kChecksumLength |-> (mod \div 32 ^ (kChecksumLength - i)) % 32]

\* bech32::encode; the empty text is its refusal.
bech32_encode(hrp, values, encoding) ==
    LET combined == values \o create_checksum(hrp, values, encoding)
    IN  IF hrp = <<>> \/ (\E c \in Range(hrp) : c < 33 \/ c > 126 \/ c \in Upper)
           \/ (\E value \in Range(values) : value >= 32)
        THEN <<>>
        ELSE hrp \o <<One>> \o [i \in DOMAIN combined |-> kCharset[combined[i] + 1]]

Undecoded == [encoding |-> "INVALID", hrp |-> <<>>, data |-> <<>>]

Decoded(encoding, hrp, values) ==
    IF encoding = "INVALID" THEN Undecoded
    ELSE [encoding |-> encoding, hrp |-> hrp,
          data |-> SubSeq(values, 1, Len(values) - kChecksumLength)]

\* The data behind the prefix of a text that may have both.
DecodedFrom(hrp, values) == Decoded(verify_checksum(hrp, values), hrp, values)

\* bech32::decode: one case throughout, the last 1 ends the prefix, six values of checksum.
bech32_decode(text) ==
    LET ones == {i \in DOMAIN text : text[i] = One}
        pos == IF ones = {} THEN 0 ELSE CHOOSE i \in ones : \A j \in ones : j <= i
        symbols == [i \in 1 .. (Len(text) - pos) |-> lc(text[pos + i])]
    IN  IF \/ (Range(text) \cap Lower # {} /\ Range(text) \cap Upper # {})
           \/ (\E c \in Range(text) : c < 33 \/ c > 126)
           \/ Len(text) > kMaximumTextLength \/ pos <= 1 \/ pos + kChecksumLength > Len(text)
           \/ ~(Range(symbols) \subseteq Range(kCharset))
        THEN Undecoded
        ELSE DecodedFrom([i \in 1 .. (pos - 1) |-> lc(text[i])],
                         [i \in DOMAIN symbols |->
                             (CHOOSE v \in DOMAIN kCharset : kCharset[v] = symbols[i]) - 1])

-----------------------------------------------------------------------------
\* convertbits: the accumulator keeps frombits + tobits - 1 bits; whole groups are put out as
\* they fill, highest first.
TakeBits(frombits, tobits, state, value) ==
    LET acc == (state.acc * (2 ^ frombits) + value) % (2 ^ (frombits + tobits - 1))
        bits == state.bits + frombits
        groups == bits \div tobits
    IN  [acc |-> acc, bits |-> bits % tobits,
         out |-> state.out \o
                 [g \in 1 .. groups |-> (acc \div 2 ^ (bits - g * tobits)) % (2 ^ tobits)]]

Regroup(frombits, tobits, in) ==
    LET From[state \in [acc : Nat, bits : Nat, out : Seq(Nat)], values \in Seq(Nat)] ==
            LET half == Len(values) \div 2
            IN  IF values = <<>> THEN state
                ELSE IF half = 0 THEN TakeBits(frombits, tobits, state, values[1])
                ELSE From[From[state, SubSeq(values, 1, half)],
                          SubSeq(values, half + 1, Len(values))]
    IN  From[[acc |-> 0, bits |-> 0, out |-> <<>>], in]

\* convertbits<8, 5, true>: what is left is filled up with zeros.
FilledUp(last) ==
    IF last.bits = 0 THEN last.out
    ELSE Append(last.out, (last.acc * 2 ^ (5 - last.bits)) % 32)

ToValues(program) == FilledUp(Regroup(8, 5, program))

\* Mutant: the bits left over may be set.
PaddingIsShort(last) == last.bits < 5

\* convertbits<5, 8, false>: what is left must be less than a value, and zero.
PaddingIsZero(last) == last.bits < 5 /\ (last.acc * 2 ^ (8 - last.bits)) % 256 = 0

Unpadded(last) == [ok |-> PaddingIsZero(last), program |-> last.out]

ToProgram(values) == Unpadded(Regroup(5, 8, values))

NoProgram == [witver |-> -1, program |-> <<>>]

\* The limits of a program, and the checksum its version asks for.
ProgramOf(encoding, witver, conv) ==
    LET size == Len(conv.program)
    IN  IF \/ ~conv.ok \/ size < 2 \/ size > 40 \/ witver > 16
           \/ (witver = 0 /\ size \notin {20, 32})
           \/ encoding # (IF witver = 0 THEN "BECH32" ELSE "BECH32M")
        THEN NoProgram
        ELSE [witver |-> witver, program |-> conv.program]

ProgramIn(hrp, dec) ==
    IF dec.hrp # hrp \/ Len(dec.data) < 1 THEN NoProgram
    ELSE ProgramOf(dec.encoding, Head(dec.data), ToProgram(Tail(dec.data)))

\* segwit_address::decode
segwit_decode(hrp, addr) == ProgramIn(hrp, bech32_decode(addr))

\* segwit_address::encode gives the text only when it decodes.
IfItDecodes(hrp, text) == IF segwit_decode(hrp, text) = NoProgram THEN <<>> ELSE text

segwit_encode(hrp, witver, program) ==
    IfItDecodes(hrp, bech32_encode(hrp, <<witver>> \o ToValues(program),
                                   IF witver > 0 THEN "BECH32M" ELSE "BECH32"))

-----------------------------------------------------------------------------
IsProgram(witver, program) ==
    /\ witver \in 0 .. 16 /\ Len(program) \in 2 .. 40
    /\ witver = 0 => Len(program) \in {20, 32}

UpperCase(text) == [i \in DOMAIN text |-> uc(text[i])]

\* Another symbol of the alphabet at place i.
Changed(text, i) ==
    LET v == CHOOSE v \in DOMAIN kCharset : kCharset[v] = text[i]
    IN  [text EXCEPT ![i] = kCharset[1 + (v % 32)]]

\* The text is the one of the program, in both cases but not in a mix of them, under no
\* other prefix and not after the change of one symbol.
LeadsBack(text, hrp, other, found) ==
    LET mixed == [text EXCEPT ![1] = uc(text[1])]
        data == (Len(hrp) + 2) .. Len(text)
        Attempts == {<<hrp, text, found>>, <<hrp, UpperCase(text), found>>,
                     <<other, text, NoProgram>>, <<hrp, mixed, NoProgram>>}
                    \cup {<<hrp, Changed(text, i), NoProgram>> : i \in data}
    IN  /\ text # <<>> /\ Len(text) <= kMaximumTextLength
        /\ \A attempt \in Attempts : segwit_decode(attempt[1], attempt[2]) = attempt[3]

\* A program SegWit knows gets a text that leads back to it; any other gets none.
ProgramReadsBack(hrp, other, witver, program) ==
    IF IsProgram(witver, program)
    THEN LeadsBack(segwit_encode(hrp, witver, program), hrp, other,
                   [witver |-> witver, program |-> program])
    ELSE segwit_encode(hrp, witver, program) = <<>>

\* A text of values that decodes is the text of its program: padding and encoding are checked.
IsTextOf(text, hrp, read) ==
    read # NoProgram => segwit_encode(hrp, read.witver, read.program) = text
ValuesAreCanonical(hrp, values, encoding) ==
    \A text \in {bech32_encode(hrp, values, encoding)} :
        IsTextOf(text, hrp, segwit_decode(hrp, text))
=============================================================================
