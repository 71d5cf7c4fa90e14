----------------------------- MODULE BitcoinPsbt -----------------------------
(***************************************************************************)
(* bitcoin_parse_psbt: the parser of a PSBT, one item of one map per step. *)
(* The host chooses every item, so that all orders, repetitions, omissions *)
(* and mixtures occur; the request that comes out is what the user reviews *)
(* and bitcoin_sign_request later signs.                                   *)
(***************************************************************************)
EXTENDS BitcoinRequest, FiniteSets

CONSTANTS
    Fingerprint,    \* master_fingerprint of each wallet; four bytes may collide
    UnsignedTxs,    \* values of the global record, parsed or not
    InputItems,     \* records of an input map
    OutputItems     \* records of an output map

VARIABLES
    master,         \* the wallet the PSBT is parsed for
    stage,          \* which map the cursor is in
    index,          \* and of which input or output
    seen,           \* records read of this map, a refused one included
    redeem_script,  \* the local of parse_input_map
    inputs, outputs, input_total, output_total, fee, estimated_vbytes,  \* parsed
    verdict

requestVars == <<inputs, outputs, input_total, output_total, fee, estimated_vbytes>>
vars == <<master, stage, index, seen, redeem_script, requestVars, verdict>>

request == [inputs |-> inputs, outputs |-> outputs, input_total |-> input_total,
            output_total |-> output_total, fee |-> fee, estimated_vbytes |-> estimated_vbytes]

Scripts == [kind: {"P2wpkh", "P2pkh", "Bare"}, hash: Keys]
           \cup [kind: {"P2sh"}, hash: [kind: {"P2wpkh"}, hash: Keys]]

Inputs == [value: Nat, spend_type: {"NativeP2wpkh", "NestedP2shP2wpkh"},
           public_key: Keys \cup {None}, witness_key_hash: Keys \cup {None},
           p2sh_hash: {P2wpkh(k) : k \in Keys} \cup {None}, path: Paths \cup {None}]
TxOutputs == [value: Nat, script: Scripts]
Outputs == [value: Nat, script: Scripts, wallet_owned: BOOLEAN, change: BOOLEAN]

ASSUME PsbtAssumption ==
    /\ Wallets \subseteq DOMAIN Fingerprint
    /\ \A tx \in UnsignedTxs :
           tx.inputs \in Nat /\ tx.outputs \in Seq(TxOutputs)
    /\ \A item \in InputItems \cup OutputItems :
           /\ item.type = "Derivation" => item.path \in Paths
           /\ item.type = "Utxo" => item.value \in Nat /\ item.script \in Scripts
           /\ item.type = "Redeem" => item.script \in Scripts

ClearInput == [value |-> 0, spend_type |-> "NativeP2wpkh", public_key |-> None,
               witness_key_hash |-> None, p2sh_hash |-> None, path |-> None]

TypeOK ==
    /\ master \in Wallets
    /\ stage \in {"global", "input", "output", "end"}
    /\ index \in Nat \ {0}
    /\ redeem_script \in {P2wpkh(k) : k \in Keys} \cup {None}
    /\ inputs \in Seq(Inputs) /\ outputs \in Seq(Outputs)
    /\ input_total \in Nat /\ input_total < WordMod
    /\ output_total < WordMod
    /\ verdict \in {"Reading", "Ok", "Refused"}

-----------------------------------------------------------------------------
Reading(where) == verdict = "Reading" /\ stage = where
Has(type) == \E i \in DOMAIN seen : seen[i].type = type

Refuse(read) ==
    /\ verdict' = "Refused" /\ seen' = seen \o read
    /\ UNCHANGED <<master, stage, index, redeem_script, requestVars>>

Enter(where, i) == stage' = where /\ index' = i /\ seen' = <<>> /\ redeem_script' = None

Init ==
    /\ master \in Wallets
    /\ stage = "global" /\ index = 1 /\ seen = <<>> /\ redeem_script = None
    /\ inputs = <<>> /\ outputs = <<>>
    /\ input_total = 0 /\ output_total = 0 /\ fee = 0 /\ estimated_vbytes = 0
    /\ verdict = "Refused"

clear_bitcoin_request ==
    /\ inputs' = <<>> /\ outputs' = <<>>
    /\ input_total' = 0 /\ output_total' = 0 /\ fee' = 0 /\ estimated_vbytes' = 0

\* The next call: everything the parser fills in starts from zero.
bitcoin_parse_psbt(w) ==
    /\ verdict # "Reading" /\ verdict' = "Reading"
    /\ master' = w
    /\ Enter("global", 1)
    /\ clear_bitcoin_request

-----------------------------------------------------------------------------
\* parse_unsigned_transaction: empty input scripts and a supported version are
\* tx.supported.
TxAccepted(tx) ==
    /\ tx.supported
    /\ tx.inputs \in 1 .. MaxInputs /\ Len(tx.outputs) \in 1 .. MaxOutputs
    /\ \A i \in DOMAIN tx.outputs :
           tx.outputs[i].value <= MaxSupply /\ HasAddress(tx.outputs[i].script)
    /\ Total(tx.outputs) < WordMod

UnsignedTx(tx) ==
    /\ Reading("global")
    /\ IF ~Has("UnsignedTx") /\ TxAccepted(tx)
       THEN /\ inputs' = [i \in 1 .. tx.inputs |-> ClearInput]
            /\ outputs' = [i \in DOMAIN tx.outputs |->
                   [value |-> tx.outputs[i].value, script |-> tx.outputs[i].script,
                    wallet_owned |-> FALSE, change |-> FALSE]]
            /\ output_total' = Total(tx.outputs)
            /\ UNCHANGED <<input_total, fee, estimated_vbytes>>
            /\ seen' = Append(seen, [type |-> "UnsignedTx"])
            /\ UNCHANGED <<master, stage, index, redeem_script, verdict>>
       ELSE Refuse(<<[type |-> "UnsignedTx"]>>)

\* A record of another type, a length that is not canonical, bytes that end too soon.
GlobalOther == Reading("global") /\ Refuse(<<[type |-> "Other"]>>)

GlobalEnd ==
    /\ Reading("global")
    /\ IF Has("UnsignedTx")
       THEN Enter("input", 1) /\ UNCHANGED <<master, requestVars, verdict>>
       ELSE Refuse(<<>>)

-----------------------------------------------------------------------------
\* parse_derivation: the path is one of this wallet's and leads to this key.
DerivationAccepted(item) ==
    /\ item.fingerprint = Fingerprint[master]
    /\ valid_bitcoin_single_sig_path(item.path)
    /\ item.key = derive(master, item.path)

\* Mutant: a record may follow another one of its type.
InputItemAcceptedTwice(item) ==
    \/ item.type = "Utxo" /\ item.value <= MaxSupply /\ item.script.kind \in {"P2wpkh", "P2sh"}
    \/ item.type = "Derivation" /\ DerivationAccepted(item)
    \/ item.type = "Sighash" /\ item.all
    \/ item.type = "Redeem" /\ item.script.kind = "P2wpkh"

InputItemAccepted(item) ==
    /\ ~Has(item.type)
    /\ \/ item.type = "Utxo" /\ item.value <= MaxSupply /\ item.script.kind \in {"P2wpkh", "P2sh"}
       \/ item.type = "Derivation" /\ DerivationAccepted(item)
       \/ item.type = "Sighash" /\ item.all
       \/ item.type = "Redeem" /\ item.script.kind = "P2wpkh"

InputWith(input, item) ==
    CASE item.type = "Utxo" /\ item.script.kind = "P2wpkh" ->
            [input EXCEPT !.value = item.value, !.spend_type = "NativeP2wpkh",
                          !.witness_key_hash = item.script.hash]
      [] item.type = "Utxo" /\ item.script.kind = "P2sh" ->
            [input EXCEPT !.value = item.value, !.spend_type = "NestedP2shP2wpkh",
                          !.p2sh_hash = item.script.hash]
      [] item.type = "Derivation" ->
            [input EXCEPT !.path = item.path, !.public_key = item.key]
      [] OTHER -> input

\* One record of parse_input_map.
InputItem(item) ==
    /\ Reading("input")
    /\ IF InputItemAccepted(item)
       THEN /\ inputs' = [inputs EXCEPT ![index] = InputWith(inputs[index], item)]
            /\ UNCHANGED <<outputs, input_total, output_total, fee, estimated_vbytes>>
            /\ redeem_script' = IF item.type = "Redeem" THEN item.script ELSE redeem_script
            /\ seen' = Append(seen, item)
            /\ UNCHANGED <<master, stage, index, verdict>>
       ELSE Refuse(<<item>>)

\* What the end of parse_input_map leaves in the input.
Closed(input) ==
    IF input.spend_type = "NestedP2shP2wpkh"
    THEN [input EXCEPT !.witness_key_hash = redeem_script.hash] ELSE input

RedeemFits(input) ==
    IF input.spend_type = "NativeP2wpkh"
    THEN redeem_script = None
    ELSE redeem_script # None /\ input.p2sh_hash = redeem_script

\* Mutant: the key of the derivation is not held against the script.
verify_input_path(input) == path_matches_spend_type(input)

verify_input_script(input) ==
    input.witness_key_hash = input.public_key /\ path_matches_spend_type(input)

\* The end of an input map and the checks that follow it.
InputEnd ==
    LET input == inputs[index]
        total == input_total + input.value
    IN  /\ Reading("input")
        /\ IF /\ Has("Utxo") /\ Has("Derivation")
              /\ RedeemFits(input)
              /\ verify_input_script(Closed(input))
              /\ total < WordMod
           THEN /\ inputs' = [inputs EXCEPT ![index] = Closed(input)]
                /\ input_total' = total
                /\ UNCHANGED <<outputs, output_total, fee, estimated_vbytes>>
                /\ IF index < Len(inputs) THEN Enter("input", index + 1)
                                                  ELSE Enter("output", 1)
                /\ UNCHANGED <<master, verdict>>
           ELSE Refuse(<<>>)

-----------------------------------------------------------------------------
\* The script the wallet itself would make for this path.
PaysTo(output, path) ==
    output.script = IF path.purpose = 84 THEN P2wpkh(derive(master, path))
                                         ELSE NestedScript(derive(master, path))

\* Mutant: a derivation of this wallet is enough for any script.
OutputItemOfKey(item) ==
    item.type = "Derivation" /\ ~Has("Derivation") /\ DerivationAccepted(item)

OutputItemAccepted(item) ==
    /\ item.type = "Derivation" /\ ~Has("Derivation")
    /\ DerivationAccepted(item)
    /\ PaysTo(outputs[index], item.path)

OutputItem(item) ==
    /\ Reading("output")
    /\ IF OutputItemAccepted(item)
       THEN /\ outputs' = [outputs EXCEPT ![index] =
                   [@ EXCEPT !.wallet_owned = TRUE, !.change = (item.path.branch = 1)]]
            /\ UNCHANGED <<inputs, input_total, output_total, fee, estimated_vbytes>>
            /\ seen' = Append(seen, item)
            /\ UNCHANGED <<master, stage, index, redeem_script, verdict>>
       ELSE Refuse(<<item>>)

OutputEnd ==
    /\ Reading("output")
    /\ IF index < Len(outputs) THEN Enter("output", index + 1) ELSE Enter("end", index)
    /\ UNCHANGED <<master, requestVars, verdict>>

\* Bytes left over, then the totals, the fee and its policy.
Finish(trailing) ==
    LET balance == input_total - output_total
        vbytes == EstimatedVbytes(inputs, outputs)
    IN  /\ Reading("end")
        /\ IF ~trailing /\ input_total >= output_total /\ FeePolicy(balance, vbytes)
           THEN /\ fee' = balance /\ estimated_vbytes' = vbytes
                /\ verdict' = "Ok"
                /\ UNCHANGED <<master, stage, index, seen, redeem_script,
                               inputs, outputs, input_total, output_total>>
           ELSE Refuse(<<>>)

Next ==
    \/ \E w \in Wallets : bitcoin_parse_psbt(w)
    \/ \E tx \in UnsignedTxs : UnsignedTx(tx)
    \/ GlobalOther \/ GlobalEnd
    \/ \E item \in InputItems : InputItem(item)
    \/ InputEnd
    \/ \E item \in OutputItems : OutputItem(item)
    \/ OutputEnd
    \/ \E trailing \in BOOLEAN : Finish(trailing)

Spec == Init /\ [][Next]_vars

-----------------------------------------------------------------------------
(* Properties *)

\* A request the user is shown can be signed by the wallet it was parsed for: what
\* the parser checks item by item, in any order, is at least what the second
\* validation asks for before the signature.
SignableByItsWallet == verdict = "Ok" => bitcoin_sign_request(request, master)

\* And by no other one, even where the fingerprints collide: a wallet that is
\* replaced under the review cannot sign it.
NoOtherWalletSigns ==
    verdict = "Ok" => \A w \in Wallets : bitcoin_sign_request(request, w) => w = master

\* What the review says of money is so: the fee is what the inputs exceed the
\* outputs by, within both limits, with no sum wrapped.
ReviewIsTrue ==
    verdict = "Ok" =>
        /\ fee + Total(outputs) = Total(inputs)
        /\ fee <= MaxFee /\ fee <= MaxFeeRate * estimated_vbytes

\* An output is shown as the wallet's, or as change, only where a key of the wallet
\* on such a path can spend it.
ShownAsItIs(output) ==
    output.wallet_owned \/ output.change =>
        \E p \in Paths :
            /\ output.script \in {P2wpkh(derive(master, p)), NestedScript(derive(master, p))}
            /\ output.change => p.branch = 1
ChangeIsOwn == verdict = "Ok" => \A i \in DOMAIN outputs : ShownAsItIs(outputs[i])

\* The size the fee rate is computed from is never less than the size of the
\* signed transaction, which fits the buffer of the sign handler.
EstimateCovers ==
    verdict = "Ok" =>
        estimated_vbytes >= SignedVsize(inputs, outputs)

\* What an input map says, whatever the order of its records: one output being
\* spent, one derivation of this wallet's key for it, a redeem script exactly
\* where it is nested, nothing twice and nothing else.
WellFormedInput(items, w) ==
    LET Of(type) == {i \in DOMAIN items : items[i].type = type}
    IN  /\ \A i \in DOMAIN items : items[i].type \in {"Utxo", "Derivation", "Sighash", "Redeem"}
        /\ Cardinality(Of("Utxo")) = 1 /\ Cardinality(Of("Derivation")) = 1
        /\ Cardinality(Of("Sighash")) <= 1 /\ Cardinality(Of("Redeem")) <= 1
        /\ \A i \in Of("Sighash") : items[i].all
        /\ \A u \in Of("Utxo"), d \in Of("Derivation") :
               LET key == derive(w, items[d].path)
               IN  /\ items[u].value <= MaxSupply
                   /\ items[d].key = key /\ items[d].fingerprint = Fingerprint[w]
                   /\ items[d].path.shape /\ items[d].path.branch <= 1
                   /\ \/ /\ items[d].path.purpose = 84
                         /\ items[u].script = P2wpkh(key) /\ Of("Redeem") = {}
                      \/ /\ items[d].path.purpose = 49
                         /\ items[u].script = NestedScript(key)
                         /\ \E r \in Of("Redeem") : items[r].script = P2wpkh(key)

\* An input map is accepted exactly when it is well-formed, in every order.
AcceptsWellFormedInputs ==
    [][Reading("input") =>
           /\ <<stage, index>>' # <<stage, index>> => WellFormedInput(seen, master)
           /\ verdict' = "Refused" => ~WellFormedInput(seen', master)]_vars
=============================================================================
