--------------------------- MODULE EvmTransaction ---------------------------
(***************************************************************************)
(* EVM transactions: parsing for the review, binding to the account that   *)
(* reviews, the second parse before the signature, the signed bytes.       *)
(*                                                                         *)
(* Bytes are those of EvmRlp's layout; an address is its bytes, an amount  *)
(* is a number.  A digest is known by the bytes that were hashed.          *)
(***************************************************************************)
EXTENDS EvmRlp

CONSTANTS
    Wallets, Indexes,     \* address indexes below kHardenedOffset
    Networks,             \* [chain_id, coin]: what find_network_profile returns
    Tokens,               \* [network, contract, decimals, signing]: kTokenProfiles
    Transactions,         \* byte strings the host sends
    Transfers,            \* transfers as people speak of them, see TransferSet
    Signatures,           \* [y_parity, r, s]: what signing may yield
    Selector,             \* kErc20TransferSelector
    AddressSize, Uint256Size, U64Size, NativeDecimals,
    MaxUnsigned,          \* kEvmMaxUnsignedTransactionSize
    MaxSigned,            \* kEvmMaxSignedTransactionSize
    MinGas, MaxGas, MaxFee,
    None

Types == {"Eip1559", "LegacyEip155"}
Accounts == [wallet : Wallets, coin : {network.coin : network \in Networks}, index : Indexes]
Inputs == [transaction : Transactions, network : Networks, wallet : Wallets, index : Indexes]
Requests == [type : Types, network : Networks, token : Tokens \cup {None}, address_index : Indexes,
             nonce : Nat, gas_limit : Nat, gas_price_or_max_fee : Nat, max_priority_fee : Nat,
             maximum_fee : Nat, contract : Seq(Nat), recipient : Seq(Nat), amount : Nat, data : Seq(Nat),
             amount_text : Seq(Nat), unsigned_transaction : Transactions, from_address : Accounts]
Results == [bytes : Seq(Nat), digest : Transactions, signature : Signatures, key : Accounts]
ASSUME NoneAssumption ==
    /\ None \notin Inputs /\ None \notin Requests /\ None \notin Results
    /\ None \notin Signatures /\ None \notin Tokens

WordMod == Weight[U64Size]

ASSUME SizeAssumption ==
    /\ {AddressSize, Uint256Size, U64Size, MaxUnsigned, MaxSigned, MinGas, MaxGas, MaxFee,
        NativeDecimals} \subseteq Nat
    /\ MinGas > 0                         \* 21000
    /\ U64Size > 0 /\ AddressSize <= Uint256Size
    /\ MaxFee < WordMod                   \* HEXWALLET_MAX_EVM_FEE_WEI fills a uint64_t

ASSUME ByteAssumption ==
    /\ Transactions \subseteq Seq(Byte) /\ Selector \in Seq(Byte)
    /\ \A token \in Tokens : token.decimals \in Nat /\ token.contract \in [1 .. AddressSize -> Byte]
    /\ \A network \in Networks : network.chain_id \in Nat /\ network.chain_id < WordMod
    /\ Signatures \subseteq [y_parity : 0 .. 1, r : 0 .. Weight[Uint256Size] - 1,
                              s : 0 .. Weight[Uint256Size] - 1]

\* The reserve of the sign handler's buffer holds the recovery byte, which is a
\* little more than a chain id, the two halves and a longer length of the list.
ASSUME RoomAssumption ==
    /\ U64Size + 1 <= Short /\ Uint256Size <= Short
    /\ MaxSigned < Weight[SizeBytes]
    /\ MaxUnsigned + SizeBytes + (1 + U64Size + 1) + 2 * (1 + Uint256Size) <= MaxSigned

\* What a transfer is before anyone looks at its policy: of a coin or of a known token.
TransferSet == [type : Types, chain_id : Nat, nonce : Nat, priority : Nat, price : Nat, gas : Nat,
                token : Tokens \cup {None}, recipient : [1 .. AddressSize -> Byte],
                amount : 0 .. Weight[Uint256Size] - 1]
ASSUME TransferAssumption == Transfers \subseteq TransferSet

MaxDataSize == Len(Selector) + 2 * Uint256Size

\* The longest call of a token, its numbers as large as their types, fits the buffer.
ASSUME TransferRoomAssumption ==
    1 + (1 + SizeBytes) + 5 * (1 + U64Size) + (1 + AddressSize) + 1 + (1 + SizeBytes + MaxDataSize) + 1
        <= MaxUnsigned

VARIABLES
    received,             \* what evm_parse_transaction was last called with
    request,              \* what it returned: the review, or None
    signed                \* what evm_sign_transaction made of it, or None
vars == <<received, request, signed>>

Eip1559Type == 2

\* The key and the address of an account.
derive_address(w, network, index) == [wallet |-> w, coin |-> network.coin, index |-> index]

-----------------------------------------------------------------------------
(* Amounts as text: digits and a point *)

Point == 10
\* 10 ^ k, by the recursion the proofs unfold.
TenTo[k \in Nat] == IF k = 0 THEN 1 ELSE 10 * TenTo[k - 1]

DecimalDigits(n) == CHOOSE k \in 1 .. n + 1 : n < TenTo[k] /\ (k = 1 \/ n >= TenTo[k - 1])
Decimal(n) == [i \in 1 .. DecimalDigits(n) |-> (n \div TenTo[DecimalDigits(n) - i]) % 10]

LastOther(text, symbol) == {i \in DOMAIN text : \A j \in i .. Len(text) : text[j] = symbol}
Without(text, symbol) == SubSeq(text, 1, Len(text) - Cardinality(LastOther(text, symbol)))

\* Mutant: zeros are dropped from whole numbers too.
TrimAlways(text, decimals) == Without(Without(text, 0), Point)
Trim(text, decimals) == IF decimals = 0 THEN text ELSE Without(Without(text, 0), Point)

uint256_to_text(n, decimals) ==
    LET plain == Decimal(n)
        whole == Len(plain) - decimals
    IN  Trim(CASE decimals = 0 -> plain
               [] decimals # 0 /\ whole <= 0 ->
                      <<0, Point>> \o [i \in 1 .. 0 - whole |-> 0] \o plain
               [] decimals # 0 /\ whole > 0 ->
                      SubSeq(plain, 1, whole) \o <<Point>> \o SubSeq(plain, whole + 1, Len(plain)),
             decimals)

-----------------------------------------------------------------------------
(* Writer *)

\* The fields that are signed; a token call carries no coin.
SignedFields(r) ==
    LET fees == IF r.type = "Eip1559" THEN <<r.max_priority_fee, r.gas_price_or_max_fee>>
                                      ELSE <<r.gas_price_or_max_fee>>
        numbers == (IF r.type = "Eip1559" THEN <<r.network.chain_id>> ELSE <<>>)
                   \o <<r.nonce>> \o fees \o <<r.gas_limit>>
    IN  FlattenSeq([i \in DOMAIN numbers |-> write_rlp_integer(numbers[i])])
        \o write_rlp_bytes(r.contract)
        \o write_rlp_integer(IF r.token = None THEN r.amount ELSE 0)
        \o write_rlp_bytes(r.data)
        \o IF r.type = "Eip1559" THEN write_rlp_list(<<>>) ELSE <<>>

\* Mutant: the recovery byte of the time before EIP-155.
RecoveryUnprotected(r, signature) == 27 + signature.y_parity
RecoveryByte(r, signature) ==
    IF r.type = "Eip1559" THEN signature.y_parity
    ELSE 2 * r.network.chain_id + 35 + signature.y_parity

SignatureFields(r, signature) ==
    CASE signature # None ->
            write_rlp_integer(RecoveryByte(r, signature))
            \o write_rlp_integer(signature.r) \o write_rlp_integer(signature.s)
      [] signature = None /\ r.type = "LegacyEip155" ->
            write_rlp_integer(r.network.chain_id) \o write_rlp_integer(0) \o write_rlp_integer(0)
      [] OTHER -> <<>>

serialize_transaction(r, signature) ==
    (IF r.type = "Eip1559" THEN <<Eip1559Type>> ELSE <<>>)
    \o write_rlp_list(SignedFields(r) \o SignatureFields(r, signature))

-----------------------------------------------------------------------------
(* Parser *)

\* The items of a list, up to n of them; the next one is refused.
ReadItems(s, n) ==
    FoldLeft(LAMBDA read, i :
                 LET item == IF read.ok THEN read_rlp_item(read.rest) ELSE Refused
                 IN  IF item.ok THEN [ok |-> TRUE, items |-> Append(read.items, item), rest |-> item.rest]
                                ELSE [ok |-> FALSE, items |-> read.items, rest |-> read.rest],
             [ok |-> TRUE, items |-> <<>>, rest |-> s], [i \in 1 .. n |-> i])

TypeOf(tx) == IF tx[1] = Eip1559Type THEN "Eip1559" ELSE "LegacyEip155"

FieldsOf(type, items) ==
    IF type = "Eip1559"
    THEN [chain_id |-> items[1], nonce |-> items[2], priority |-> items[3], price |-> items[4],
          gas |-> items[5], to |-> items[6], value |-> items[7], data |-> items[8]]
    ELSE [nonce |-> items[1], price |-> items[2], gas |-> items[3], to |-> items[4],
          value |-> items[5], data |-> items[6], chain_id |-> items[7],
          priority |-> Item(FALSE, <<>>, <<>>)]

ClosesWell(type, items) ==
    IF type = "Eip1559"
    THEN items[9].list /\ items[9].data = <<>>
    ELSE \A i \in {8, 9} : ~items[i].list /\ items[i].data = <<>>

\* Mutant: the limit is held against the product in its own width.
FeeAcceptedWrapped(gas, price) ==
    gas \in MinGas .. MaxGas /\ price # 0 /\ (gas * price) % WordMod <= MaxFee
\* Mutant: the very limit is refused.
FeeAcceptedBelow(gas, price) ==
    gas \in MinGas .. MaxGas /\ price # 0 /\ gas < MaxFee \div price
FeeAccepted(gas, price) ==
    gas \in MinGas .. MaxGas /\ price # 0 /\ gas <= MaxFee \div price

\* Mutant: whatever comes before the recipient in its word is taken.
IsTransferUnpadded(data) == Len(data) = MaxDataSize /\ IsPrefix(Selector, data)

\* The call transfer(recipient, amount), its recipient padded to a word.
IsTransfer(data) ==
    /\ Len(data) = MaxDataSize /\ IsPrefix(Selector, data)
    /\ \A i \in 1 .. Uint256Size - AddressSize : data[Len(Selector) + i] = 0

find_token(network, contract) ==
    LET found == {t \in Tokens : t.network = network /\ t.signing /\ t.contract = contract}
    IN  IF found = {} THEN None ELSE CHOOSE t \in found : TRUE

ParsedRequest(tx, f, network, w, index) ==
    LET data == f.data.data
        token == IF data = <<>> THEN None ELSE find_token(network, f.to.data)
        word == Len(Selector) + Uint256Size
        amount == IF data = <<>> THEN Value(f.value.data)
                                 ELSE Value(SubSeq(data, word + 1, MaxDataSize))
        decimals == IF token = None THEN NativeDecimals ELSE token.decimals
    IN  [type |-> TypeOf(tx), network |-> network, token |-> token, address_index |-> index,
         nonce |-> Value(f.nonce.data), gas_limit |-> Value(f.gas.data),
         gas_price_or_max_fee |-> Value(f.price.data), max_priority_fee |-> Value(f.priority.data),
         maximum_fee |-> (Value(f.gas.data) * Value(f.price.data)) % WordMod,
         contract |-> f.to.data,
         recipient |-> IF data = <<>> THEN f.to.data ELSE SubSeq(data, word - AddressSize + 1, word),
         amount |-> amount, data |-> data,
         amount_text |-> uint256_to_text(amount, decimals),
         unsigned_transaction |-> tx,
         from_address |-> derive_address(w, network, index)]

\* The fields make sense one by one and for this network.
FieldsAccepted(f, network) ==
    /\ \A number \in {f.chain_id, f.nonce, f.priority, f.price, f.gas} : ReadsInteger(number, U64Size)
    /\ Value(f.priority.data) <= Value(f.price.data)
    /\ Value(f.chain_id.data) = network.chain_id
    /\ ~f.to.list /\ Len(f.to.data) = AddressSize
    /\ ~f.data.list /\ Len(f.data.data) <= MaxDataSize
    /\ ReadsInteger(f.value, Uint256Size)
    /\ FeeAccepted(Value(f.gas.data), Value(f.price.data))

\* Either a plain payment or a transfer of a token that is known here.
TransferAccepted(f, network) ==
    IF f.data.data = <<>>
    THEN Value(f.value.data) # 0
    ELSE /\ IsTransfer(f.data.data) /\ Value(f.value.data) = 0
         /\ find_token(network, f.to.data) # None
         /\ Value(SubSeq(f.data.data, Len(Selector) + Uint256Size + 1, MaxDataSize)) # 0

evm_parse_transaction(tx, network, w, index) ==
    LET outer == read_rlp_item(IF TypeOf(tx) = "Eip1559" THEN Tail(tx) ELSE tx)
        read == ReadItems(outer.data, 9)
        f == FieldsOf(TypeOf(tx), read.items)
        parsed == ParsedRequest(tx, f, network, w, index)
    IN  IF /\ tx # <<>> /\ Len(tx) <= MaxUnsigned
           /\ outer.ok /\ outer.list /\ outer.rest = <<>>
           /\ read.ok /\ read.rest = <<>>
           /\ ClosesWell(TypeOf(tx), read.items)
           /\ FieldsAccepted(f, network) /\ TransferAccepted(f, network)
           /\ serialize_transaction(parsed, None) = tx
        THEN parsed ELSE None

-----------------------------------------------------------------------------
\* Mutant: the account that signs is not compared with the reviewed one.
SameRequestBytes(validated, r) == validated.unsigned_transaction = r.unsigned_transaction

\* request_hash covers the digest, the sender and the index.
SameRequest(validated, r) ==
    /\ validated.unsigned_transaction = r.unsigned_transaction
    /\ validated.from_address = r.from_address /\ validated.address_index = r.address_index

\* Mutant: the signed bytes go where the unsigned ones were.
FitsUnsigned(bytes) == Len(bytes) <= MaxUnsigned
Fits(bytes) == Len(bytes) <= MaxSigned

evm_sign_transaction(r, w, signature) ==
    LET validated == evm_parse_transaction(r.unsigned_transaction, r.network, w, r.address_index)
        bytes == serialize_transaction(validated, signature)
    IN  IF validated # None /\ SameRequest(validated, r) /\ Fits(bytes)
        THEN [bytes |-> bytes, digest |-> validated.unsigned_transaction, signature |-> signature,
              key |-> derive_address(w, validated.network, validated.address_index)]
        ELSE None

-----------------------------------------------------------------------------
Init == received = None /\ request = None /\ signed = None

\* The caller clears its buffer before every parse and after every signature.
clear_evm_request ==
    received # None /\ received' = None /\ request' = None /\ signed' = None

Inspect(tx, network, w, index) ==
    /\ received = None
    /\ received' = [transaction |-> tx, network |-> network, wallet |-> w, index |-> index]
    /\ request' = evm_parse_transaction(tx, network, w, index)
    /\ UNCHANGED signed

\* The wallet in RAM may have been replaced since the review.
Sign(w, signature) ==
    /\ request # None /\ signed = None
    /\ signed' = evm_sign_transaction(request, w, signature)
    /\ UNCHANGED <<received, request>>

Next ==
    \/ clear_evm_request
    \/ \E tx \in Transactions, network \in Networks, w \in Wallets, index \in Indexes :
           Inspect(tx, network, w, index)
    \/ \E w \in Wallets, signature \in Signatures : Sign(w, signature)

Spec == Init /\ [][Next]_vars

-----------------------------------------------------------------------------
(* Properties *)

\* A transfer as people speak of it, and its one encoding.
Encoding(t) ==
    LET word(bytes) == [i \in 1 .. Uint256Size - Len(bytes) |-> 0] \o bytes
        body == <<write_rlp_integer(t.gas)>> \o
                IF t.token = None
                THEN <<write_rlp_bytes(t.recipient), write_rlp_integer(t.amount), write_rlp_bytes(<<>>)>>
                ELSE <<write_rlp_bytes(t.token.contract), write_rlp_integer(0),
                       write_rlp_bytes(Selector \o word(t.recipient) \o word(ToBytes(t.amount)))>>
        N(n) == write_rlp_integer(n)
    IN  IF t.type = "Eip1559"
        THEN <<Eip1559Type>> \o write_rlp_list(FlattenSeq(
                 <<N(t.chain_id), N(t.nonce), N(t.priority), N(t.price)>> \o body \o <<write_rlp_list(<<>>)>>))
        ELSE write_rlp_list(FlattenSeq(
                 <<N(t.nonce), N(t.price)>> \o body \o <<N(t.chain_id), N(0), N(0)>>))

\* What the wallet is willing to sign on a network.
KeepsPolicy(t, network) ==
    /\ t.chain_id = network.chain_id /\ t.nonce < WordMod /\ t.amount # 0
    /\ t.token = None \/ (t.token \in Tokens /\ t.token.network = network /\ t.token.signing)
    /\ t.gas \in MinGas .. MaxGas /\ t.price # 0 /\ t.gas * t.price <= MaxFee
    /\ t.priority <= t.price

\* The number an amount's text stands for, in the smallest unit.
Denotes(text, decimals) ==
    LET point == {i \in DOMAIN text : text[i] = Point}
        whole == IF point = {} THEN Len(text) ELSE (CHOOSE i \in point : TRUE) - 1
        fraction == SubSeq(text, whole + 2, Len(text))
        digits == SubSeq(text, 1, whole) \o fraction
                  \o [i \in 1 .. decimals - Len(fraction) |-> 0]
    IN  FoldLeft(LAMBDA n, digit : n * 10 + digit, 0, digits)

\* What the review prints - network, type, asset, recipient, amount as text, nonce,
\* gas and the largest fee - leaves no choice of the bytes that are signed, but for
\* the tip, which the fee includes, and keeps the policy: no byte of a call is left
\* that the user was not told of.
Shown(r) ==
    [type |-> r.type, chain_id |-> r.network.chain_id, nonce |-> r.nonce, gas |-> r.gas_limit,
     price |-> r.maximum_fee \div r.gas_limit, priority |-> r.max_priority_fee,
     token |-> r.token, recipient |-> r.recipient,
     amount |-> Denotes(r.amount_text, IF r.token = None THEN NativeDecimals ELSE r.token.decimals)]
ReviewDeterminesBytes ==
    request # None =>
        /\ Encoding(Shown(request)) = request.unsigned_transaction
        /\ KeepsPolicy(Shown(request), request.network)

\* The chain can take no more than the fee that was shown, and that is within the
\* limit, for every gas limit and price: the product does not wrap.
FeeIsBounded ==
    request # None =>
        /\ request.gas_limit * request.gas_price_or_max_fee = request.maximum_fee
        /\ request.maximum_fee <= MaxFee
        /\ request.max_priority_fee <= request.gas_price_or_max_fee

\* Only the account the review showed signs, and what it signs is what was received:
\* a wallet that took its place after the review is turned away.
SignedByReviewer ==
    signed # None => signed.key = request.from_address /\ signed.digest = received.transaction

\* And that account always can: the second parse and the size of the signed bytes
\* never turn away what was shown for confirmation.
ReviewerCanSign ==
    request # None => \A signature \in Signatures :
        evm_sign_transaction(request, received.wallet, signature) # None

\* A chain that reads the signed bytes finds the fields that were reviewed, its own
\* chain id and the signature.
SignedFieldsRead ==
    LET typed == request.type = "Eip1559"
        kept == IF typed THEN 9 ELSE 6
        Body(bytes) == read_rlp_item(IF typed THEN Tail(bytes) ELSE bytes).data
        before == ReadItems(Body(request.unsigned_transaction), 9).items
        after == ReadItems(Body(signed.bytes), kept + 3)
        Number(i) == Value(after.items[kept + i].data)
        v == Number(1)
    IN  /\ after.ok /\ after.rest = <<>>
        /\ \A i \in 1 .. kept : after.items[i].data = before[i].data
        /\ Number(2) = signed.signature.r /\ Number(3) = signed.signature.s
        /\ IF typed THEN v = signed.signature.y_parity
                    ELSE /\ v >= 35 /\ (v - 35) \div 2 = request.network.chain_id
                         /\ (v - 35) % 2 = signed.signature.y_parity
SignedIsReviewed == signed # None => SignedFieldsRead

\* A transfer that keeps the policy is accepted in its one encoding: none of the
\* reader's refusals, nor the comparison with the canonical bytes, hits it.
Due == [network \in Networks |-> {Encoding(t) : t \in {u \in Transfers : KeepsPolicy(u, network)}}]
AcceptsTransfers ==
    received # None /\ received.transaction \in Due[received.network] => request # None
=============================================================================
