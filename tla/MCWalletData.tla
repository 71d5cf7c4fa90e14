----------------------------- MODULE MCWalletData ----------------------------
(***************************************************************************)
(* Bounded instance of the modules about keys, texts and tables.  A run    *)
(* picks a subject; the keys walk through the HD tree and sign, any other  *)
(* takes an input that grows one symbol at a time, so that each invariant  *)
(* is checked on every input up to the length its subject has.             *)
(***************************************************************************)
EXTENDS Ecdsa, Mnemonic, ExtendedKey, Segwit, CryptoNote, Hashes, BitcoinBytes,
        KeccakF, HexText

VARIABLES
    subject,            \* what the input is for
    input               \* the symbols so far

(* The curve y^2 = x^3 + 7 over the field of 43 elements: 31 points, 14 of them with an *)
(* abscissa that is not below the order, so that both refusals of a signature happen.   *)
Field == 43
Infinity == <<>>
MCAdd(p, q) ==
    LET Reciprocal(a) == CHOOSE b \in 1 .. (Field - 1) : (a * b) % Field = 1
        Over(a, b) == ((a % Field) * Reciprocal(b % Field)) % Field
        slope == IF p = q THEN Over(3 * p[1] * p[1], 2 * p[2])
                 ELSE Over(q[2] - p[2] + Field, q[1] - p[1] + Field)
        x == (slope * slope - p[1] - q[1] + 2 * Field) % Field
    IN  CASE p = Infinity -> q
          [] p # Infinity /\ q = Infinity -> p
          [] p # Infinity /\ q # Infinity /\ p[1] = q[1] /\ p[2] # q[2] -> Infinity
          [] OTHER -> <<x, (slope * (p[1] - x + Field) - p[2] + Field) % Field>>
MCGenerator == <<2, 12>>
MCX(p) == p[1]
MCY(p) == p[2]

(* HMAC, fingerprint and digests: any function does; these spread their values. *)
Mixed(a, b, c) == (7 * a + 11 * b + 5 * c + a * c + 3 * b * c + 1) % 34
Coordinates(key) == IF key = Infinity THEN 0 ELSE key[1] + 3 * key[2]
MCHmac(key, data) ==
    IF key = kBip32Key THEN [left |-> data, chain_code |-> 1]
    ELSE LET k == IF data.form = "private" THEN data.key ELSE Coordinates(data.key)
         IN  [left |-> Mixed(k, data.index, key), chain_code |-> (k + data.index + key) % 3]
MCFingerprint(public_key) == Coordinates(public_key)
MCSeeds == {0, 23, 33}
MCChainCodes == 0 .. 2
MCDerivable(index) == index # 6

MCWordList == <<"w0", "w1", "w2", "w3", "w4", "w5", "w6", "w7">>
\* A number made of bytes.
Stirred(times, start, bytes) ==
    LET From[number \in Nat, rest \in Seq(Nat)] ==
            LET half == Len(rest) \div 2
            IN  IF rest = <<>> THEN number
                ELSE IF half = 0 THEN (times * number + 5 * rest[1] + 77) % 65521
                ELSE From[From[number, SubSeq(rest, 1, half)], SubSeq(rest, half + 1, Len(rest))]
    IN  From[start, bytes]

MCDigestByte(bytes) == Stirred(3, 11, bytes) % 256
MCChecksum(bytes) == <<0, 0, 0, Stirred(3, 57 * Len(bytes), bytes) % 4>>

bc == <<98, 99>>
tb == <<116, 98>>

(* CryptoNote on -x^2 + y^2 = 1 + 26 x^2 y^2 over the field of 53 elements, with a base point *)
(* of order 17.                                                                               *)
MCKeccak(n) == (7 * n * n + 3 * n + 5) % 40
MCKeyBytes(key) == [i \in 1 .. 32 |-> IF i = 1 THEN key.y ELSE IF i = 32 THEN 128 * key.sign ELSE 0]
MCKeccakChecksum(bytes) ==
    LET sum == Stirred(5, 1, bytes)
    IN  <<sum % 256, sum \div 256, 255, 0>>

(* Addresses: keys are numbers, a hash spreads the bytes it is given over twenty. *)
Spread(bytes) ==
    LET sum == Stirred(31, Len(bytes), bytes)
    IN  [i \in 1 .. 20 |-> (sum \div i + sum) % 256]
MCCompressed(key) == <<2, key>>
MCUncompressed(key) == <<key, key + 1>>
MCSpendKey(seed) == seed + 100
MCViewKey(spend_key) == 2 * spend_key + 1
MCEdwardsKey(scalar) == <<scalar>>

(* Transactions in bytes of three bits, so that every form of a length occurs. *)
MCDoubleSha256(bytes) ==
    LET sum == Stirred(31, Len(bytes), bytes)
    IN  [i \in 1 .. 32 |-> (sum \div (8 ^ ((i - 1) % 6))) % 8]
MCEcdsaSign(key, digest) ==
    <<1 + (Stirred(3, key, digest) % 508), 1 + (Stirred(7, key, digest) % 508)>>
Lengths == {0, 1, 4, 5, 6, 63, 64, 65, 4095, 4096, 4097, 8 ^ 8 - 1}

\* Version, inputs, whether they are nested, outputs, their script and their value.
SampleScript(encoding) ==
    IF encoding = "none" THEN [i \in 1 .. 22 |-> 0] ELSE ScriptTo(encoding, Compressed(3))
SampleTransaction(choice) ==
    [version |-> choice[1], lock_time |-> 4095,
     inputs |-> [i \in 1 .. choice[2] |->
         [previous_txid |-> [j \in 1 .. 32 |-> (3 * i + j) % 8], previous_index |-> i,
          sequence |-> 4090 + i]],
     outputs |-> [i \in 1 .. choice[4] |->
         [value |-> choice[6] * i, script |-> SampleScript(choice[5])]]]
SampleSpends(choice) ==
    [i \in 1 .. choice[2] |-> [key |-> i, value |-> 5000 * i, nested |-> choice[3] # (i = 2)]]
MayBeRead(choice) ==
    /\ choice[1] \in {1, 2} /\ choice[2] \in 1 .. kBitcoinMaxInputs
    /\ choice[4] \in 1 .. kBitcoinMaxOutputs /\ choice[5] # "none"
    /\ choice[6] * choice[4] <= kMaximumBitcoinSupply

kBufferSize == 700

CoinWords == {kCatalog[i].id : i \in DOMAIN kCatalog} \cup {"arb-usdc", "sol-usdc", "nocoin"}

Subjects == {"keys", "path", "account", "index", "mnemonic", "entropy", "base58",
             "base58 text", "extended key", "segwit", "values", "scalar", "seed", "block",
             "updates", "ripemd", "coin", "address", "length", "length bytes", "digest",
             "transaction", "hex", "round"}

\* The symbols an input of a subject may have at a place; none ends it.
Symbols(what, place) ==
    CASE what = "path" -> IF place = 1 THEN {"m", "/"}
                          ELSE IF place <= 6 THEN {"m", "/", "h", "0", "1", "6"} ELSE {}
      [] what = "account" -> IF place <= 5 THEN {0, 11, 16} ELSE {}
      [] what = "index" -> IF place <= 5 THEN {"0", "1", "6", "9", " "} ELSE {}
      [] what = "mnemonic" -> IF place <= 7 THEN {"w0", "w5", "w6", Space} ELSE {}
      [] what = "entropy" -> IF place <= 2 THEN {0, 1, 90, 255} ELSE {}
      [] what = "base58" -> IF place <= 4 THEN {0, 1, 57, 58, 255} ELSE {}
      [] what = "base58 text" -> IF place <= 5 THEN {NoDigit, 0, 1, 57} ELSE {}
      [] what = "extended key" -> CASE place = 1 -> ExtendedKeyFormat
                                    [] place = 2 -> BOOLEAN
                                    [] place = 3 -> {"zero", "least", "greatest", "order", "full"}
                                    [] OTHER -> {}
      [] what = "segwit" -> CASE place = 1 -> {0, 1, 16, 17}
                              [] place = 2 -> {1, 2, 20, 32, 40, 41}
                              [] place = 3 -> {90}
                              [] OTHER -> {}
      [] what = "values" -> IF place <= 4 THEN {0, 1, 16, 31} ELSE {}
      [] what = "scalar" -> IF place = 1 THEN 0 .. (ScalarBytesEnd - 1) ELSE {}
      [] what = "seed" -> CASE place = 1 -> {0, 18, 28, 127, 128}
                            [] place = 2 -> 0 .. 16
                            [] OTHER -> {}
      [] what = "block" -> IF place <= 9 THEN {0, 255} ELSE {}
      [] what = "updates" -> IF place <= 4 THEN {0, 1, 3, 4, 5, 9} ELSE {}
      [] what = "ripemd" -> IF place = 1 THEN 0 .. 40 ELSE {}
      [] what = "coin" -> CASE place = 1 -> CoinWords
                            [] place = 2 -> BOOLEAN
                            [] place <= 4 -> {"1", "6", " "}
                            [] OTHER -> {}
      [] what = "address" -> CASE place = 1 -> 1 .. Len(kNetworkProfiles)
                               [] place = 2 -> {1, 7, 200}
                               [] place = 3 -> Steps
                               [] OTHER -> {}
      [] what = "length" -> IF place = 1 THEN Lengths ELSE {}
      [] what = "length bytes" -> IF place <= 3 THEN {0, 1, 5, 6, 7} ELSE {}
      [] what = "digest" -> CASE place = 1 -> 1 .. 3
                              [] place = 2 -> 0 .. 255
                              [] OTHER -> {}
      [] what = "transaction" -> CASE place = 1 -> 1 .. 3
                                   [] place \in {2, 4} -> 0 .. 3
                                   [] place = 3 -> BOOLEAN
                                   [] place = 5 -> UtxoEncodings \cup {"none"}
                                   [] place = 6 -> {0, 777, 9000}
                                   [] OTHER -> {}
      [] what = "hex" -> IF place <= 6 THEN {"0", "9", "a", "F", "x"} ELSE {}
      [] what = "round" -> IF place = 1 THEN 1 .. 24 ELSE {}
      [] OTHER -> {}

Init ==
    /\ EcInit
    /\ subject \in Subjects
    /\ input = <<>>

UseKeys ==
    /\ subject = "keys"
    /\ EcNext
    /\ UNCHANGED <<subject, input>>

Extend ==
    /\ \E symbol \in Symbols(subject, Len(input) + 1) : input' = Append(input, symbol)
    /\ UNCHANGED <<subject, node, out_signature>>

Next == UseKeys \/ Extend

Spec == Init /\ [][Next]_<<node, out_signature, subject, input>>

-----------------------------------------------------------------------------
Complete(what, length) == subject = what /\ Len(input) = length

\* Paths, the path text of an address, the index and the bytes of a command mean what they write.
NumbersAreRead ==
    /\ subject = "path" /\ input # <<>> => PathIsRead(input)
    /\ Complete("account", 5) => AddressPathIsRead(input)
    /\ subject = "index" => IndexTextIsRead(input)
    /\ subject = "hex" => HexIsRead(input, 2)

\* Generated and imported mnemonics: what is accepted, and that what is generated is.
MnemonicsAreChecked ==
    /\ subject = "mnemonic" => MnemonicIsChecked(input)
    /\ Complete("entropy", 2) => GeneratedIsTaken(input)

\* Base58Check: every payload reads back, every accepted text is the text of its payload.
Base58ReadsBack ==
    /\ subject = "base58" =>
           LET text == base58check(input, kMaximumEncodedSize).text
           IN  /\ PayloadReadsBack(input)
               /\ \A i \in DOMAIN text, digit \in {0, 33, 57, NoDigit} :
                      TextIsCanonical([text EXCEPT ![i] = digit])
               /\ TextIsCanonical(Append(text, 0)) /\ TextIsCanonical(<<0>> \o text)
    /\ subject = "base58 text" => TextIsCanonical(input)

Filled(length, byte) == [i \in 1 .. length |-> byte]
\* 32 bytes at the ends of what a private key may be, and just beyond; the public keys around them.
SampleKey(which) ==
    CASE which = "zero" -> Filled(32, 0)
      [] which = "least" -> Append(Filled(31, 0), 1)
      [] which = "greatest" -> Append(Front(CurveOrder), Last(CurveOrder) - 1)
      [] which = "order" -> CurveOrder
      [] which = "full" -> Filled(32, 255)
SampleNode(private_key, which) ==
    LET byte == IF which \in {"zero", "least"} THEN 0 ELSE 255
    IN  [key |-> IF private_key THEN SampleKey(which)
                 ELSE <<IF byte = 0 THEN 2 ELSE 3>> \o SampleKey(which),
         chain_code |-> Filled(32, byte), parent_fingerprint |-> Filled(4, byte),
         child_number |-> Filled(4, byte), depth |-> byte]

\* Extended keys begin with the name of their format, for the least and the greatest node, and
\* what is no private key is not written as one.
ExtendedKeysNameThemselves ==
    Complete("extended key", 3)
        => KeyNamesItself(SampleNode(input[2], input[3]), input[1], input[2],
                          input[3] \in {"least", "greatest"})

\* SegWit addresses read back, and nothing near them does.
SegwitReadsBack ==
    /\ Complete("segwit", 3) =>
           ProgramReadsBack(bc, tb, input[1], [i \in 1 .. input[2] |-> (input[3] * i + i) % 256])
    /\ subject = "values" =>
           \A encoding \in {"BECH32", "BECH32M"} :
               ValuesAreCanonical(bc, <<1>> \o input, encoding)

\* CryptoNote keys are multiples of the base point, and what is made of them reads back.
CryptonoteReadsBack ==
    /\ Complete("scalar", 1) => KeyIsMultiple(input[1])
    /\ Complete("seed", 2) => SeedReadsBack(input[1], input[2])
    /\ subject = "block" => BlocksReadBack(input)

Numbered(length) == [i \in 1 .. length |-> i]

\* A state of the permutation with about half of its bits set, another one for each round.
SampleState(n) ==
    Grid(LAMBDA x, y : load_le64([i \in 1 .. 8 |-> (37 * n + 11 * x * i + 101 * y * i + i * i * n) % 256]))

\* Both hashes take in a message whole, however it is cut and wherever it ends, and every round of
\* the permutation is the one of Keccak-f.
HashesAbsorbAll ==
    /\ subject = "updates" =>
           SpongeAbsorbsAll([i \in DOMAIN input |-> [j \in 1 .. input[i] |-> 16 * i + j]])
    /\ Complete("ripemd", 1) => RipemdAbsorbsAll(Numbered(input[1]))
    /\ Complete("round", 1) => RoundIsKeccakF(SampleState(input[1]), input[1])

\* Bytes that differ from others in one byte, in their end, or not at all.
Near(bytes) ==
    {[bytes EXCEPT ![i] = byte] : i \in DOMAIN bytes, byte \in {0, 5, 7}}
    \cup {SubSeq(bytes, 1, size) : size \in 0 .. Len(bytes)} \cup {Append(bytes, 0)}

TransactionIsTaken(tx, may_be_read, spends) ==
    \A bytes \in {UnsignedBytes(tx)} :
        /\ parse_unsigned_transaction(bytes) = IF may_be_read THEN ReadAs(tx, <<>>) ELSE NotRead
        /\ may_be_read => /\ \A near \in Near(bytes) : UnsignedIsCanonical(near)
                          /\ SignedIsTheRequest(Spending(tx, spends), kBufferSize)

\* What is signed is the transaction that was read, in the bytes a node reads.
TransactionReadsBack ==
    /\ Complete("length", 1) =>
           LengthReadsBack(input[1], <<>>) /\ LengthReadsBack(input[1], <<7, 7, 7>>)
    /\ subject = "length bytes" =>
           \A more \in {<<>>, Filled(8, 0), <<0, 0, 0, 1, 0, 0, 0, 0>>} :
               LengthIsCanonical(input \o more)
    /\ Complete("digest", 2) => SignatureIsDer(input[1], <<input[2]>>)
    /\ Complete("transaction", 6) =>
           TransactionIsTaken(SampleTransaction(input), MayBeRead(input), SampleSpends(input))

\* The tables agree with each other and with themselves, and names lead to what they promise.
CoinsAreFound ==
    /\ subject = "coin" /\ input = <<>> =>
           /\ run_network_profile_self_tests /\ run_token_profile_self_tests
           /\ \A i \in DOMAIN kTokenProfiles : TokenIsTrue(kTokenProfiles[i])
           /\ \A id \in Ids : EntryIsTrue(id)
    /\ subject = "coin" /\ Len(input) > 1 =>
           CommandIsAnswered([word |-> input[1], small |-> input[2]],
                             SubSeq(input, 3, Len(input)))

\* Addresses belong to the keys shown with them, to one network and to one script.
AddressesMatchScripts ==
    /\ Complete("address", 3) =>
           AddressIsOwned(kNetworkProfiles[input[1]], input[2], input[3])
    /\ subject = "address" /\ input = <<>> =>
           \A key \in {1, 7, 200} :
               /\ AddressesDiffer(key)
               /\ \A encoding \in UtxoEncodings :
                      ScriptsAreNamed(ScriptTo(encoding, Compressed(key)))
=============================================================================
