--------------------------- MODULE BitcoinRequest ----------------------------
(***************************************************************************)
(* A Bitcoin signing request: what bitcoin_parse_psbt fills in and         *)
(* bitcoin_sign_request looks at again before it signs.                    *)
(*                                                                         *)
(* A public key is the pair of wallet and path it is derived from, and the *)
(* hash of a key or of a redeem script is known by what was hashed: two    *)
(* hashes are equal exactly when that is.                                  *)
(***************************************************************************)
EXTENDS Naturals, Sequences, Functions

CONSTANTS
    Wallets,
    Paths,                \* derivation paths, see PathType
    None,                 \* the zero bytes of a cleared field
    MaxSupply,            \* kMaximumBitcoinSupply
    WordMod,              \* 2^64
    MaxFee,               \* HEXWALLET_MAX_BITCOIN_FEE_SATS
    MaxFeeRate,           \* HEXWALLET_MAX_BITCOIN_FEE_RATE
    MaxInputs,            \* kBitcoinMaxInputs
    MaxOutputs,           \* kBitcoinMaxOutputs
    MaxTransactionBytes   \* HEXWALLET_MAX_PSBT_BYTES, the buffer of the signed bytes

\* purpose' / coin' / account' / branch / index; shape says that the rest of the
\* path is what the wallet derives: five parts, coin 0', a hardened account, an
\* index that is not hardened.
PathType == [purpose: Nat, branch: Nat, shape: BOOLEAN]

ASSUME RequestAssumption ==
    /\ Paths \subseteq PathType
    /\ None \notin [wallet: Wallets, path: Paths]
    /\ None \notin Paths \cup [kind: {"P2wpkh"}, hash: [wallet: Wallets, path: Paths]]
    /\ {MaxSupply, WordMod, MaxFee, MaxFeeRate, MaxInputs, MaxOutputs,
        MaxTransactionBytes} \subseteq Nat
    /\ WordMod # 0
    /\ MaxInputs * MaxSupply < WordMod    \* 8 times 21 million coins in 64 bits

-----------------------------------------------------------------------------
derive(w, path) == [wallet |-> w, path |-> path]
Keys == [wallet: Wallets, path: Paths]

P2wpkh(key) == [kind |-> "P2wpkh", hash |-> key]
P2sh(redeem) == [kind |-> "P2sh", hash |-> redeem]

\* Scripts address_from_script finds an address for, with their sizes.
ScriptSize == [P2wpkh |-> 22, P2sh |-> 23, P2pkh |-> 25]
HasAddress(script) == script.kind \in DOMAIN ScriptSize

\* A nested script is spent through the redeem script of its key.
NestedScript(key) == P2sh(P2wpkh(key))

valid_bitcoin_single_sig_path(path) ==
    path.shape /\ path.purpose \in {49, 84} /\ path.branch <= 1

path_matches_spend_type(input) ==
    /\ input.path # None /\ valid_bitcoin_single_sig_path(input.path)
    /\ \/ input.spend_type = "NativeP2wpkh" /\ input.path.purpose = 84
       \/ input.spend_type = "NestedP2shP2wpkh" /\ input.path.purpose = 49

-----------------------------------------------------------------------------
Total(items) == SumFunction([i \in DOMAIN items |-> items[i].value])

InputSize(input) == 41 + IF input.spend_type = "NestedP2shP2wpkh" THEN 23 ELSE 0

\* Mutant: every input counts as a native one.
stripped_size_native(inputs, outputs) ==
    10 + 41 * Len(inputs)
       + SumFunction([i \in DOMAIN outputs |-> 9 + ScriptSize[outputs[i].script.kind]])

stripped_size(inputs, outputs) ==
    10 + SumFunction([i \in DOMAIN inputs |-> InputSize(inputs[i])])
       + SumFunction([i \in DOMAIN outputs |-> 9 + ScriptSize[outputs[i].script.kind]])

EstimatedVbytes(inputs, outputs) ==
    (4 * stripped_size(inputs, outputs) + 2 + 109 * Len(inputs) + 3) \div 4

\* Mutant: the fee is limited, its rate is not.
FeeLimit(fee, vbytes) == fee <= MaxFee /\ vbytes # 0

FeePolicy(fee, vbytes) ==
    /\ fee <= MaxFee /\ vbytes # 0
    /\ fee <= MaxFeeRate * vbytes

-----------------------------------------------------------------------------
\* Bytes of the signed transaction as bitcoin_sign_request writes them: version,
\* marker and flag, counts, inputs with the push of a redeem script, outputs,
\* two witness items per input, lock time.  A DER signature with its type byte
\* has at most kBitcoinMaxDerSignatureSize bytes.
MaxSignature == 72
SignedBase(inputs, outputs) ==
    4 + 1 + 1 + 4
    + SumFunction([i \in DOMAIN inputs |->
          32 + 4 + 1 + 4 + IF inputs[i].spend_type = "NestedP2shP2wpkh" THEN 1 + 22 ELSE 0])
    + SumFunction([i \in DOMAIN outputs |-> 8 + 1 + ScriptSize[outputs[i].script.kind]])
SignedWitness(inputs) == 2 + Len(inputs) * (1 + 1 + MaxSignature + 1 + 33)
\* The counts are limited so that every signed transaction fits its buffer.
ASSUME BufferAssumption ==
    4 + 1 + 1 + 4 + MaxInputs * (32 + 4 + 1 + 4 + 1 + 22) + MaxOutputs * (8 + 1 + 25)
    + 2 + MaxInputs * (1 + 1 + MaxSignature + 1 + 33) <= MaxTransactionBytes

SignedVsize(inputs, outputs) ==
    (4 * SignedBase(inputs, outputs) + SignedWitness(inputs) + 3) \div 4

-----------------------------------------------------------------------------
\* Mutant: the derived key is not compared with the reviewed one.
AnyKeySigns(input, w) == input.path # None

KeyMatches(input, w) == input.path # None /\ derive(w, input.path) = input.public_key

SpendsByKey(input) ==
    /\ input.witness_key_hash = input.public_key
    /\ \/ input.spend_type = "NativeP2wpkh"
       \/ input.spend_type = "NestedP2shP2wpkh" /\ input.p2sh_hash = P2wpkh(input.witness_key_hash)

\* bitcoin_sign_request signs the request with wallet w: the second validation.
bitcoin_sign_request(request, w) ==
    LET inputs == request.inputs
        outputs == request.outputs
    IN  /\ inputs # <<>> /\ outputs # <<>>
        /\ Len(inputs) <= MaxInputs /\ Len(outputs) <= MaxOutputs
        /\ \A i \in DOMAIN inputs :
               /\ inputs[i].value <= MaxSupply
               /\ path_matches_spend_type(inputs[i])
               /\ SpendsByKey(inputs[i])
        /\ Total(inputs) < WordMod
        /\ \A i \in DOMAIN outputs :
               outputs[i].value <= MaxSupply /\ HasAddress(outputs[i].script)
        /\ Total(outputs) < WordMod
        /\ Total(inputs) >= Total(outputs)
        /\ request.input_total = Total(inputs) /\ request.output_total = Total(outputs)
        /\ request.fee = Total(inputs) - Total(outputs)
        /\ request.estimated_vbytes = EstimatedVbytes(inputs, outputs)
        /\ FeePolicy(request.fee, request.estimated_vbytes)
        /\ \A i \in DOMAIN inputs : KeyMatches(inputs[i], w)
        /\ SignedBase(inputs, outputs) + SignedWitness(inputs) <= MaxTransactionBytes
=============================================================================
