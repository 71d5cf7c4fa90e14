------------------------------ MODULE Mnemonic -------------------------------
(***************************************************************************)
(* BIP-39 in WalletSecurity.cpp: bip39_generate_english_24 packs entropy   *)
(* and the first bits of its hash into words, and bip39_validate_english,  *)
(* separate code, takes a text apart, unpacks it and checks those bits.    *)
(* The list has 2^WordBits words; three words carry one bit of checksum    *)
(* and the rest of entropy, as 33 bits carry 32 + 1 with the real list.    *)
(* A text is a sequence of pieces: words and the space " ".                *)
(***************************************************************************)
EXTENDS Integers, Sequences, SequencesExt

CONSTANTS
    english_word_list,  \* the words, in order
    WordBits,           \* 11
    WordCounts,         \* {12, 15, 18, 21, 24}
    MaxWords,           \* 24
    DigestByte(_),      \* the first byte of SHA-256 of a sequence of bytes
    MnemonicTextSize    \* kMnemonicTextSize, with a piece for a character

Space == " "
Bit == {0, 1}

ASSUME WordListAssumption ==
    /\ Len(english_word_list) = 2 ^ WordBits
    /\ \A i, j \in DOMAIN english_word_list :
           english_word_list[i] = english_word_list[j] => i = j
    /\ Space \notin Range(english_word_list)
    /\ MaxWords \in WordCounts
    /\ \A count \in WordCounts : count % 3 = 0 /\ count <= MaxWords

EnglishWords == Range(english_word_list)

\* The bits of a number, the highest first.
BitsOf(number, width) == [i \in 1 .. width |-> (number \div 2 ^ (width - i)) % 2]
NumberOf(bits) == FoldLeft(LAMBDA n, bit : 2 * n + bit, 0, bits)

ByteBits(bytes) == FlattenSeq([i \in DOMAIN bytes |-> BitsOf(bytes[i], 8)])
BytesOf(bits) == [i \in 1 .. (Len(bits) \div 8) |-> NumberOf(SubSeq(bits, 8 * i - 7, 8 * i))]

\* word_count * 11 * 32 / 33 and entropy_bits / 32.
checksum_bits(count) == count \div 3
entropy_bits(count) == count * WordBits - checksum_bits(count)

-----------------------------------------------------------------------------
\* The words the bits of the entropy, with the digest's first byte behind it, name.
GeneratedWords(entropy, count) ==
    LET bits == ByteBits(entropy) \o BitsOf(DigestByte(entropy), 8)
    IN  [w \in 1 .. count |->
            english_word_list[1 + NumberOf(SubSeq(bits, (w - 1) * WordBits + 1, w * WordBits))]]

Sentence(words) ==
    FlattenSeq([w \in DOMAIN words |-> IF w = 1 THEN <<words[w]>> ELSE <<Space, words[w]>>])

\* With MaxWords words, for any entropy of that size: nothing when the text does not fit.
bip39_generate_english_24(entropy) ==
    LET text == Sentence(GeneratedWords(entropy, MaxWords))
    IN  IF Len(text) + 1 > MnemonicTextSize THEN <<>> ELSE text

-----------------------------------------------------------------------------
\* word_index: two pieces without a space between them spell no word of the list.
IsWord(pieces) == Len(pieces) = 1 /\ Head(pieces) \in EnglishWords
word_index(pieces) == (CHOOSE i \in DOMAIN english_word_list :
                           english_word_list[i] = Head(pieces)) - 1

\* One turn of the loop: the text up to the next space, or to its end, must be a word, and its
\* bits follow those of the words before it.
ReadWord(reader, pieces) ==
    IF ~IsWord(pieces) \/ reader.word_count = MaxWords
    THEN [reader EXCEPT !.ok = FALSE]
    ELSE [reader EXCEPT !.word_count = reader.word_count + 1,
                        !.bits = reader.bits \o BitsOf(word_index(pieces), WordBits)]

\* The loop runs while there is text behind the last space.
WordsRead(text) ==
    LET Reader[from \in 1 .. (Len(text) + 1)] ==
            \* the reader after the text before from, which a space ends
            LET spaces == {i \in 1 .. (from - 2) : text[i] = Space}
                start == IF spaces = {} THEN 1 ELSE 1 + CHOOSE i \in spaces : \A j \in spaces : j <= i
            IN  IF from = 1 THEN [ok |-> TRUE, word_count |-> 0, bits |-> <<>>]
                ELSE IF ~Reader[start].ok THEN Reader[start]
                ELSE ReadWord(Reader[start], SubSeq(text, start, from - 2))
        spaces == {i \in DOMAIN text : text[i] = Space}
        rest == IF spaces = {} THEN 1 ELSE 1 + CHOOSE i \in spaces : \A j \in spaces : j <= i
    IN  IF rest > Len(text) \/ ~Reader[rest].ok THEN Reader[rest]
        ELSE ReadWord(Reader[rest], SubSeq(text, rest, Len(text)))

\* Mutant: one bit of the checksum is compared.
ChecksumMatchesFirst(bits, count) ==
    LET entropy == BytesOf(SubSeq(bits, 1, entropy_bits(count)))
    IN  bits[entropy_bits(count) + 1] = BitsOf(DigestByte(entropy), 8)[1]

\* The bits behind the entropy are the first ones of its digest.
ChecksumMatches(bits, count) ==
    LET entropy == BytesOf(SubSeq(bits, 1, entropy_bits(count)))
    IN  SubSeq(bits, entropy_bits(count) + 1, Len(bits))
            = SubSeq(BitsOf(DigestByte(entropy), 8), 1, checksum_bits(count))

bip39_validate_english(text) ==
    IF Len(text) = 0 \/ Len(text) >= MnemonicTextSize THEN FALSE
    ELSE LET reader == WordsRead(text)
         IN  /\ reader.ok
             /\ reader.word_count \in WordCounts
             /\ ChecksumMatches(reader.bits, reader.word_count)

-----------------------------------------------------------------------------
\* The sentence of some entropy of a size BIP-39 has.
WordPieces(text) == SelectSeq(text, LAMBDA piece : piece # Space)
IsSentence(text) ==
    LET words == WordPieces(text)
        count == Len(words)
        bits == FlattenSeq([w \in DOMAIN words |-> BitsOf(word_index(<<words[w]>>), WordBits)])
        entropy == BytesOf(SubSeq(bits, 1, entropy_bits(count)))
    IN  /\ text = Sentence(words)
        /\ Range(words) \subseteq EnglishWords
        /\ count \in WordCounts
        /\ words = GeneratedWords(entropy, count)

\* A text is taken for a wallet exactly when it is the sentence of some entropy, one space
\* behind it or none: no other word, count, order, spacing or checksum.
MnemonicIsChecked(text) ==
    bip39_validate_english(text)
        <=> /\ text # <<>> /\ Len(text) < MnemonicTextSize
            /\ IsSentence(IF Last(text) = Space THEN Front(text) ELSE text)

\* What the device generates it takes back, with the entropy it was made of, and after any
\* change of its last word or its length it takes only what is the sentence of other entropy.
GeneratedIsTaken(entropy) ==
    LET text == bip39_generate_english_24(entropy)
    IN  /\ text # <<>> /\ bip39_validate_english(text)
        /\ BytesOf(SubSeq(WordsRead(text).bits, 1, entropy_bits(MaxWords))) = entropy
        /\ \A word \in EnglishWords :
               /\ MnemonicIsChecked(Append(Front(text), word))
               /\ MnemonicIsChecked(text \o <<Space, word>>)
        /\ MnemonicIsChecked(Append(text, Space)) /\ MnemonicIsChecked(Front(text))
        /\ MnemonicIsChecked(Front(Front(text)))
=============================================================================
