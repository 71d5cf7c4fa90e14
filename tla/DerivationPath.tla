--------------------------- MODULE DerivationPath ----------------------------
(***************************************************************************)
(* Numbers read from text: the BIP-32 path hd_private_derive_path walks    *)
(* (WalletSecurity.cpp), the path text derive_address prints for it        *)
(* (WalletEngine.cpp), and the address index of a wallet command           *)
(* (parse_index, WalletCli.cpp).  A text is a sequence of characters, a    *)
(* character a string of length one.  The 32-bit word and the offset of    *)
(* hardened indices are parameters.                                        *)
(***************************************************************************)
EXTENDS Integers, Sequences, SequencesExt

CONSTANTS
    HardenedOffset,     \* kHardenedOffset, 2^31
    WordEnd,            \* 2^32
    Derivable(_),       \* whether hd_private_derive has a child for an index
    PathTextSize        \* kDerivationPathTextSize

ASSUME WordAssumption == HardenedOffset > 10 /\ WordEnd = 2 * HardenedOffset

DigitValue == [c \in {"0", "1", "2", "3", "4", "5", "6", "7", "8", "9"} |->
    CASE c = "0" -> 0 [] c = "1" -> 1 [] c = "2" -> 2 [] c = "3" -> 3 [] c = "4" -> 4
      [] c = "5" -> 5 [] c = "6" -> 6 [] c = "7" -> 7 [] c = "8" -> 8 [] c = "9" -> 9]
Digits == DOMAIN DigitValue
HardenedMarks == {"'", "h", "H"}

\* The literals 214748364 and '7' of the two parsers: what is left of the last index below
\* kHardenedOffset, and its last digit.
LimitTens == (HardenedOffset - 1) \div 10
LimitOnes == (HardenedOffset - 1) % 10

\* uint32_t arithmetic.
Shifted(value, char) == (value * 10 + DigitValue[char]) % WordEnd

-----------------------------------------------------------------------------
(* hd_private_derive_path reads the text once, a character at a time. at says what it *)
(* may find next; children are the indices of the nodes derived so far.               *)

PathOverflows(index, char) ==
    index > LimitTens \/ (index = LimitTens /\ DigitValue[char] > LimitOnes)

StillReading == {"number", "digits", "marked"}

InvalidPath(reader) == [reader EXCEPT !.at = "InvalidPath"]

DeriveChild(reader) ==
    IF Derivable(reader.index)
    THEN [at |-> "number", index |-> 0, children |-> Append(reader.children, reader.index)]
    ELSE [reader EXCEPT !.at = "InvalidChild"]

ReadDigit(reader, char) ==
    IF PathOverflows(reader.index, char) THEN InvalidPath(reader)
    ELSE [reader EXCEPT !.at = "digits", !.index = Shifted(reader.index, char)]

ReadChar(reader, char) ==
    CASE reader.at \notin StillReading -> reader
      [] reader.at \in {"number", "digits"} /\ char \in Digits -> ReadDigit(reader, char)
      [] reader.at = "digits" /\ char \in HardenedMarks ->
             [reader EXCEPT !.at = "marked", !.index = reader.index + HardenedOffset]
      [] reader.at \in {"digits", "marked"} /\ char = "/" -> DeriveChild(reader)
      [] OTHER -> InvalidPath(reader)

\* The children that were derived, or none; an error ends the walk where it is met.
hd_private_derive_path(path) ==
    LET start == [at |-> "number", index |-> 0, children |-> <<>>]
        last  == FoldLeft(ReadChar, start, SubSeq(path, 3, Len(path)))
        end   == IF last.at \in {"digits", "marked"} THEN DeriveChild(last)
                 ELSE InvalidPath(last)
    IN  IF path = <<>> \/ Head(path) # "m" THEN InvalidPath(start)
        ELSE IF Len(path) = 1 THEN [start EXCEPT !.at = "derived"]
        ELSE IF path[2] # "/" THEN InvalidPath(start)
        ELSE IF last.at \notin StillReading THEN last
        ELSE IF end.at = "number" THEN [end EXCEPT !.at = "derived"]
        ELSE end

-----------------------------------------------------------------------------
\* snprintf with %lu
DecimalText == [n \in 0 .. (WordEnd - 1) |->
    LET text[k \in 0 .. n] ==
            LET one == CHOOSE c \in Digits : DigitValue[c] = k % 10
            IN  IF k < 10 THEN <<one>> ELSE Append(text[k \div 10], one)
    IN  text[n]]

\* derive_address: m/purpose'/coin'/account'/change/index, or nothing when a number is too
\* large or the text does not fit.
PathText(purpose, coin, account, change, index) ==
    <<"m", "/">> \o DecimalText[purpose] \o <<"'", "/">> \o DecimalText[coin] \o <<"'", "/">>
    \o DecimalText[account] \o <<"'", "/">> \o DecimalText[change] \o <<"/">> \o DecimalText[index]

PathFits(text) == Len(text) < PathTextSize

derive_address(numbers) ==
    LET path == PathText(numbers[1], numbers[2], numbers[3], numbers[4], numbers[5])
    IN  IF \E i \in DOMAIN numbers : numbers[i] >= HardenedOffset THEN [at |-> "InvalidArgument"]
        ELSE IF ~PathFits(path) THEN [at |-> "BufferTooSmall"]
        ELSE hd_private_derive_path(path)

-----------------------------------------------------------------------------
\* Mutant: the digits are multiplied without a guard.
IndexNeverOverflows(value) == FALSE

\* parse_index stops at the first character it cannot take.
IndexOverflows(value) == value > LimitTens

parse_index(text) ==
    LET Read(result, char) ==
            IF ~result.ok \/ char \notin Digits \/ IndexOverflows(result.value)
            THEN [ok |-> FALSE, value |-> 0]
            ELSE LET value == Shifted(result.value, char)
                 IN  IF value >= HardenedOffset THEN [ok |-> FALSE, value |-> 0]
                     ELSE [ok |-> TRUE, value |-> value]
    IN  FoldLeft(Read, [ok |-> TRUE, value |-> 0], text)

-----------------------------------------------------------------------------
(* What the texts mean, without a reader and without a word size. *)

Decimal(digits) == FoldLeft(LAMBDA n, c : 10 * n + DigitValue[c], 0, digits)

IsNumber(text) == text # <<>> /\ Range(text) \subseteq Digits

Unmarked(part) == IF part # <<>> /\ Last(part) \in HardenedMarks THEN Front(part) ELSE part

IsComponent(part) == IsNumber(Unmarked(part)) /\ Decimal(Unmarked(part)) < HardenedOffset

ComponentIndex(part) ==
    Decimal(Unmarked(part)) + IF Unmarked(part) = part THEN 0 ELSE HardenedOffset

\* The parts of a text between its slashes.
Parts(text) ==
    LET cuts == <<0>> \o SelectSeq([i \in DOMAIN text |-> i], LAMBDA i : text[i] = "/")
                \o <<Len(text) + 1>>
    IN  [k \in 1 .. (Len(cuts) - 1) |-> SubSeq(text, cuts[k] + 1, cuts[k + 1] - 1)]

\* A path is m and components that are numbers below kHardenedOffset, each with at most one
\* mark; it is walked to the children these name and anything else is refused, however long its
\* numbers are - or the walk ends at the first child that does not exist.
PathIsRead(path) ==
    LET components == Tail(Parts(path))
        indices == [i \in DOMAIN components |-> ComponentIndex(components[i])]
        result == hd_private_derive_path(path)
        isPath == /\ Head(Parts(path)) = <<"m">>
                  /\ \A i \in DOMAIN components : IsComponent(components[i])
    IN  IF isPath
        THEN IF \A i \in DOMAIN indices : Derivable(indices[i])
             THEN result.at = "derived" /\ result.children = indices
             ELSE result.at = "InvalidChild"
        ELSE result.at \in {"InvalidPath", "InvalidChild"}

\* The text derive_address prints is read back as the five numbers it was made of, the first
\* three hardened; it is cut short never.
AddressPathIsRead(numbers) ==
    LET result == derive_address(numbers)
        indices == [i \in DOMAIN numbers |-> numbers[i] + IF i <= 3 THEN HardenedOffset ELSE 0]
    IN  /\ result.at = "derived" => result.children = indices
        /\ result.at = "InvalidArgument" <=> \E i \in DOMAIN numbers : numbers[i] >= HardenedOffset
        /\ result.at # "InvalidPath"
        /\ result.at = "InvalidChild" => \E i \in DOMAIN indices : ~Derivable(indices[i])

\* The index of a wallet command is the number its digits write, or is refused when that is not
\* below kHardenedOffset; no digits mean the first address.
IndexTextIsRead(text) ==
    LET result == parse_index(text)
        isIndex == Range(text) \subseteq Digits /\ Decimal(text) < HardenedOffset
    IN  result = IF isIndex THEN [ok |-> TRUE, value |-> Decimal(text)] ELSE [ok |-> FALSE, value |-> 0]
=============================================================================
