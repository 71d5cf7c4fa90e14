-------------------------- MODULE BitcoinPsbtProof ---------------------------
(***************************************************************************)
(* Proofs about BitcoinPsbt for every number of inputs and outputs and     *)
(* every stream of records: types, that no wallet but the one a PSBT was   *)
(* parsed for can sign it, that outputs shown as the wallet's are,         *)
(* that the inputs of an accepted request are spent by the wallet's keys,  *)
(* that totals, fee and sizes are what they say, and which input maps are  *)
(* accepted. Then about BitcoinBytes: what parse_unsigned_transaction      *)
(* takes in has one encoding, for every sequence of bytes.                 *)
(***************************************************************************)
EXTENDS BitcoinPsbt, BitcoinBytes, FoldFacts, SequenceTheorems

\* Where the parser stands, and that there is an input and an output from the end
\* of the global map on.
PlaceInv ==
    /\ verdict = "Ok" => stage = "end"
    /\ stage # "global" \/ (Reading("global") /\ Has("UnsignedTx"))
           => Len(inputs) > 0 /\ Len(outputs) > 0
    /\ stage = "input" => index <= Len(inputs)
    /\ stage = "output" => index <= Len(outputs)

\* A key is stored together with the path it was derived on, and every input
\* whose map has been closed has one.
Past(i) == (stage = "input" /\ i < index) \/ stage \in {"output", "end"}
KeyInv ==
    \A i \in DOMAIN inputs :
        /\ inputs[i].path # None => inputs[i].public_key = derive(master, inputs[i].path)
        /\ Past(i) => inputs[i].path # None

OwnInv == \A i \in DOMAIN outputs : ShownAsItIs(outputs[i])

PsbtInv == TypeOK /\ PlaceInv /\ KeyInv /\ OwnInv

-----------------------------------------------------------------------------
\* A field of an input record that is replaced by another of its type.
LEMMA InputWithType ==
    ASSUME NEW input \in Inputs, NEW item \in InputItems, master \in Wallets,
           InputItemAccepted(item)
    PROVE  InputWith(input, item) \in Inputs
  <1> USE PsbtAssumption DEF Inputs
  <1>1. CASE item.type = "Utxo"
    <2>1. item.value \in Nat /\ item.script \in Scripts /\ item.script.kind \in {"P2wpkh", "P2sh"}
      BY <1>1 DEF InputItemAccepted
    <2>2. CASE item.script.kind = "P2wpkh"
      <3>1. item.script.hash \in Keys  BY <2>1, <2>2 DEF Scripts
      <3>2. InputWith(input, item) = [input EXCEPT !.value = item.value,
               !.spend_type = "NativeP2wpkh", !.witness_key_hash = item.script.hash]
        BY <1>1, <2>2 DEF InputWith
      <3> QED  BY <2>1, <3>1, <3>2
    <2>3. CASE item.script.kind = "P2sh"
      <3>1. item.script.hash \in {P2wpkh(k) : k \in Keys}
        BY <2>1, <2>3 DEF Scripts, P2wpkh
      <3>2. InputWith(input, item) = [input EXCEPT !.value = item.value,
               !.spend_type = "NestedP2shP2wpkh", !.p2sh_hash = item.script.hash]
        BY <1>1, <2>3 DEF InputWith
      <3> QED  BY <2>1, <3>1, <3>2
    <2> QED  BY <2>1, <2>2, <2>3
  <1>2. CASE item.type = "Derivation"
    <2>1. item.path \in Paths /\ item.key \in Keys
      BY <1>2 DEF InputItemAccepted, DerivationAccepted, derive, Keys
    <2>2. InputWith(input, item) = [input EXCEPT !.path = item.path, !.public_key = item.key]
      BY <1>2 DEF InputWith
    <2> QED  BY <2>1, <2>2
  <1>3. CASE item.type \notin {"Utxo", "Derivation"}
    <2>1. InputWith(input, item) = input  BY <1>3 DEF InputWith
    <2> QED  BY <2>1
  <1> QED  BY <1>1, <1>2, <1>3

\* Reading a record keeps path and key together.
LEMMA InputWithKey ==
    ASSUME NEW input \in Inputs, NEW item \in InputItems, InputItemAccepted(item),
           input.path # None => input.public_key = derive(master, input.path)
    PROVE  LET new == InputWith(input, item)
           IN  new.path # None => new.public_key = derive(master, new.path)
  <1> USE DEF Inputs
  <1>1. CASE item.type = "Derivation"
    <2>1. item.key = derive(master, item.path)  BY <1>1 DEF InputItemAccepted, DerivationAccepted
    <2>2. InputWith(input, item) = [input EXCEPT !.path = item.path, !.public_key = item.key]
      BY <1>1 DEF InputWith
    <2> QED  BY <2>1, <2>2
  <1>2. CASE item.type # "Derivation"
    <2>1. /\ InputWith(input, item).path = input.path
          /\ InputWith(input, item).public_key = input.public_key
      BY <1>2 DEF InputWith
    <2> QED  BY <2>1
  <1> QED  BY <1>1, <1>2

\* The end of a map keeps path and key and fills in the witness key hash.
LEMMA ClosedType ==
    ASSUME NEW input \in Inputs, redeem_script \in {P2wpkh(k) : k \in Keys} \cup {None},
           RedeemFits(input)
    PROVE  /\ Closed(input) \in Inputs
           /\ Closed(input).path = input.path
           /\ Closed(input).public_key = input.public_key
  <1>1. CASE input.spend_type = "NestedP2shP2wpkh"
    <2>1. redeem_script \in {P2wpkh(k) : k \in Keys}  BY <1>1 DEF RedeemFits
    <2>2. redeem_script.hash \in Keys  BY <2>1 DEF P2wpkh
    <2> QED  BY <1>1, <2>2 DEF Closed, Inputs
  <1>2. CASE input.spend_type # "NestedP2shP2wpkh"
    BY <1>2 DEF Closed
  <1> QED  BY <1>1, <1>2

\* A record that is refused changes nothing but the verdict.
LEMMA RefuseKeeps ==
    ASSUME PsbtInv, NEW read, Refuse(read), verdict = "Reading"
    PROVE  PsbtInv'
  <1> USE DEF Refuse, requestVars
  <1>1. TypeOK'  BY DEF PsbtInv, TypeOK
  <1>2. PlaceInv'  BY DEF PsbtInv, PlaceInv, Reading
  <1>3. KeyInv'  BY DEF PsbtInv, KeyInv, Past
  <1>4. OwnInv'  BY DEF PsbtInv, OwnInv, ShownAsItIs
  <1> QED  BY <1>1, <1>2, <1>3, <1>4 DEF PsbtInv

-----------------------------------------------------------------------------
\* The first record that is accepted creates the inputs and outputs.
LEMMA UnsignedTxKeeps ==
    ASSUME PsbtInv, NEW tx \in UnsignedTxs, UnsignedTx(tx)
    PROVE  PsbtInv'
  <1>1. CASE Refuse(<<[type |-> "UnsignedTx"]>>)
    BY <1>1, RefuseKeeps DEF UnsignedTx, Reading
  <1>2. CASE TxAccepted(tx) /\ ~Refuse(<<[type |-> "UnsignedTx"]>>)
    <2>1. /\ inputs' = [i \in 1 .. tx.inputs |-> ClearInput]
          /\ outputs' = [i \in DOMAIN tx.outputs |->
                 [value |-> tx.outputs[i].value, script |-> tx.outputs[i].script,
                  wallet_owned |-> FALSE, change |-> FALSE]]
          /\ output_total' = Total(tx.outputs)
          /\ UNCHANGED <<input_total, fee, estimated_vbytes>>
          /\ UNCHANGED <<master, stage, index, redeem_script, verdict>>
          /\ stage = "global" /\ verdict = "Reading"
      BY <1>2 DEF UnsignedTx, Reading
    <2>2. tx.inputs \in Nat /\ tx.outputs \in Seq(TxOutputs)
      BY PsbtAssumption
    <2>3. tx.inputs # 0 /\ tx.outputs # <<>> /\ Total(tx.outputs) < WordMod
      <3>1. tx.inputs \in 1 .. MaxInputs /\ Len(tx.outputs) \in 1 .. MaxOutputs
        BY <1>2 DEF TxAccepted
      <3>2. Len(<<>>) = 0  OBVIOUS
      <3> QED  BY <1>2, <3>1, <3>2 DEF TxAccepted
    <2>4. ClearInput \in Inputs  BY DEF ClearInput, Inputs
    <2>5. inputs' \in Seq(Inputs) /\ Len(inputs') = tx.inputs
      BY <2>1, <2>2, <2>4
    <2>6. outputs' \in Seq(Outputs) /\ Len(outputs') = Len(tx.outputs)
      <3>1. DOMAIN tx.outputs = 1 .. Len(tx.outputs) /\ Len(tx.outputs) \in Nat
        BY <2>2
      <3>2. \A i \in DOMAIN tx.outputs : tx.outputs[i] \in TxOutputs
        BY <2>2
      <3>3. \A i \in 1 .. Len(tx.outputs) :
                [value |-> tx.outputs[i].value, script |-> tx.outputs[i].script,
                 wallet_owned |-> FALSE, change |-> FALSE] \in Outputs
        BY <3>1, <3>2 DEF Outputs, TxOutputs
      <3>4. outputs' \in [1 .. Len(tx.outputs) -> Outputs]
        BY <2>1, <3>1, <3>3
      <3> QED  BY <3>1, <3>4
    <2>7. Len(inputs') > 0 /\ Len(outputs') > 0
      BY <2>2, <2>3, <2>5, <2>6
    <2>8. TypeOK'
      BY <2>1, <2>3, <2>5, <2>6 DEF PsbtInv, TypeOK
    <2>9. PlaceInv'
      BY <2>1, <2>7 DEF PlaceInv
    <2>10. KeyInv'
      BY <2>1 DEF KeyInv, Past, ClearInput
    <2>11. OwnInv'
      BY <2>1 DEF OwnInv, ShownAsItIs
    <2> QED  BY <2>8, <2>9, <2>10, <2>11 DEF PsbtInv
  <1> QED  BY <1>1, <1>2 DEF UnsignedTx

\* The next call starts from an empty request.
LEMMA ParseKeeps ==
    ASSUME PsbtInv, NEW w \in Wallets, bitcoin_parse_psbt(w)
    PROVE  PsbtInv'
  <1> USE DEF bitcoin_parse_psbt, clear_bitcoin_request, Enter
  <1>1. TypeOK'
    <2>1. input_total' \in Nat /\ input_total' < WordMod /\ output_total' < WordMod
      <3>1. input_total \in Nat /\ input_total < WordMod /\ WordMod \in Nat
        BY RequestAssumption DEF PsbtInv, TypeOK
      <3> QED  BY <3>1
    <2> QED  BY <2>1 DEF PsbtInv, TypeOK
  <1>2. PlaceInv'  BY DEF PlaceInv, Reading, Has
  <1>3. KeyInv'  BY DEF KeyInv
  <1>4. OwnInv'  BY DEF OwnInv
  <1> QED  BY <1>1, <1>2, <1>3, <1>4 DEF PsbtInv

\* The end of the global map keeps PsbtInv: the maps begin, or the request is refused and empty.
LEMMA GlobalEndKeeps ==
    ASSUME PsbtInv, GlobalEnd
    PROVE  PsbtInv'
  <1>1. CASE ~Has("UnsignedTx")
    BY <1>1, RefuseKeeps DEF GlobalEnd, Reading
  <1>2. CASE Has("UnsignedTx")
    <2> USE <1>2 DEF GlobalEnd, Enter, requestVars
    <2>1. TypeOK'  BY DEF PsbtInv, TypeOK
    <2>2. PlaceInv'
      <3>1. Len(inputs) > 0 /\ Len(outputs) > 0  BY DEF PsbtInv, PlaceInv
      <3>2. Len(inputs) \in Nat  BY DEF PsbtInv, TypeOK
      <3> QED  BY <3>1, <3>2 DEF PlaceInv, Reading
    <2>3. KeyInv'
      <3>1. \A i \in DOMAIN inputs : ~(i < 1)  BY DEF PsbtInv, TypeOK
      <3> QED  BY <3>1 DEF PsbtInv, KeyInv, Past, derive
    <2>4. OwnInv'  BY DEF PsbtInv, OwnInv, ShownAsItIs
    <2> QED  BY <2>1, <2>2, <2>3, <2>4 DEF PsbtInv
  <1> QED  BY <1>1, <1>2

\* A record of an input map keeps PsbtInv.
LEMMA InputItemKeeps ==
    ASSUME PsbtInv, NEW item \in InputItems, InputItem(item)
    PROVE  PsbtInv'
  <1>1. CASE ~InputItemAccepted(item)
    BY <1>1, RefuseKeeps DEF InputItem, Reading
  <1>2. CASE InputItemAccepted(item)
    <2>1. /\ inputs' = [inputs EXCEPT ![index] = InputWith(inputs[index], item)]
          /\ UNCHANGED <<outputs, input_total, output_total, fee, estimated_vbytes>>
          /\ redeem_script' = IF item.type = "Redeem" THEN item.script ELSE redeem_script
          /\ UNCHANGED <<master, stage, index, verdict>>
          /\ stage = "input" /\ verdict = "Reading"
      BY <1>2 DEF InputItem, Reading
    <2>2. index \in DOMAIN inputs /\ inputs \in Seq(Inputs) /\ master \in Wallets
      BY <2>1 DEF PsbtInv, TypeOK, PlaceInv
    <2>3. InputWith(inputs[index], item) \in Inputs
      BY <1>2, <2>2, InputWithType
    <2>4. inputs' \in Seq(Inputs) /\ Len(inputs') = Len(inputs) /\ DOMAIN inputs' = DOMAIN inputs
      BY <2>1, <2>2, <2>3
    <2>5. redeem_script' \in {P2wpkh(k) : k \in Keys} \cup {None}
      <3>1. CASE item.type = "Redeem"
        <4>1. item.script.kind = "P2wpkh"  BY <1>2, <3>1 DEF InputItemAccepted
        <4>2. item.script \in Scripts  BY <3>1, PsbtAssumption
        <4>3. item.script \in {P2wpkh(k) : k \in Keys}  BY <4>1, <4>2 DEF Scripts, P2wpkh
        <4> QED  BY <2>1, <3>1, <4>3
      <3>2. CASE item.type # "Redeem"
        BY <2>1, <3>2 DEF PsbtInv, TypeOK
      <3> QED  BY <3>1, <3>2
    <2>6. TypeOK'  BY <2>1, <2>4, <2>5 DEF PsbtInv, TypeOK
    <2>7. PlaceInv'  BY <2>1, <2>4 DEF PsbtInv, PlaceInv, Reading
    <2>8. KeyInv'
      <3> SUFFICES ASSUME NEW i \in DOMAIN inputs
                   PROVE  /\ inputs'[i].path # None =>
                                inputs'[i].public_key = derive(master, inputs'[i].path)
                          /\ i < index => inputs'[i].path # None
        BY <2>1, <2>4 DEF KeyInv, Past, derive
      <3>1. /\ inputs[i].path # None => inputs[i].public_key = derive(master, inputs[i].path)
            /\ i < index => inputs[i].path # None
        BY <2>1 DEF PsbtInv, KeyInv, Past
      <3>2. CASE i = index
        <4>1. inputs'[i] = InputWith(inputs[i], item)  BY <2>1, <2>2, <3>2
        <4>2. ~(i < index)  BY <2>2, <3>2
        <4>3. inputs[i] \in Inputs  BY <2>2
        <4>4. InputWith(inputs[i], item).path # None =>
                 InputWith(inputs[i], item).public_key
                     = derive(master, InputWith(inputs[i], item).path)
          BY <1>2, <3>1, <4>3, InputWithKey
        <4> QED  BY <4>1, <4>2, <4>4
      <3>3. CASE i # index
        <4>1. inputs'[i] = inputs[i]  BY <2>1, <2>2, <3>3
        <4> QED  BY <3>1, <4>1
      <3> QED  BY <3>2, <3>3
    <2>9. OwnInv'  BY <2>1 DEF PsbtInv, OwnInv, ShownAsItIs
    <2> QED  BY <2>6, <2>7, <2>8, <2>9 DEF PsbtInv
  <1> QED  BY <1>1, <1>2

\* The end of an input map, which checks the input's script and value, keeps PsbtInv.
LEMMA InputEndKeeps ==
    ASSUME PsbtInv, InputEnd
    PROVE  PsbtInv'
  <1> DEFINE input == inputs[index]
  <1> DEFINE fits == /\ Has("Utxo") /\ Has("Derivation") /\ RedeemFits(input)
                     /\ verify_input_script(Closed(input))
                     /\ input_total + input.value < WordMod
  <1>1. CASE ~fits
    <2>1. Refuse(<<>>) /\ verdict = "Reading"  BY <1>1 DEF InputEnd, Reading
    <2> QED  BY <2>1, RefuseKeeps
  <1>2. CASE fits
    <2>1. /\ inputs' = [inputs EXCEPT ![index] = Closed(input)]
          /\ input_total' = input_total + input.value
          /\ UNCHANGED <<outputs, output_total, fee, estimated_vbytes>>
          /\ IF index < Len(inputs) THEN Enter("input", index + 1) ELSE Enter("output", 1)
          /\ UNCHANGED <<master, verdict>>
          /\ stage = "input" /\ verdict = "Reading"
      BY <1>2 DEF InputEnd, Reading
    <2>2. /\ index \in DOMAIN inputs /\ inputs \in Seq(Inputs) /\ index \in Nat
          /\ outputs \in Seq(Outputs) /\ Len(outputs) > 0
          /\ redeem_script \in {P2wpkh(k) : k \in Keys} \cup {None}
      BY <2>1 DEF PsbtInv, TypeOK, PlaceInv
    <2>3. input \in Inputs  BY <2>2
    <2>4. /\ Closed(input) \in Inputs /\ Closed(input).path = input.path
          /\ Closed(input).public_key = input.public_key
      BY <1>2, <2>2, <2>3, ClosedType
    <2>5. Closed(input).path # None
      BY <1>2 DEF verify_input_script, path_matches_spend_type
    <2>6. inputs' \in Seq(Inputs) /\ Len(inputs') = Len(inputs) /\ DOMAIN inputs' = DOMAIN inputs
      BY <2>1, <2>2, <2>4
    <2>7. /\ stage' \in {"input", "output"} /\ index' \in Nat \ {0} /\ redeem_script' = None
          /\ stage' = "input" => index' = index + 1 /\ index < Len(inputs)
          /\ stage' = "output" => index' = 1 /\ ~(index < Len(inputs))
      BY <2>1, <2>2 DEF Enter
    <2>8. TypeOK'
      <3>1. input.value \in Nat /\ input_total \in Nat
        BY <2>3 DEF Inputs, PsbtInv, TypeOK
      <3>2. input_total' \in Nat /\ input_total' < WordMod
        BY <1>2, <2>1, <3>1
      <3> QED  BY <2>1, <2>6, <2>7, <3>2 DEF PsbtInv, TypeOK
    <2>9. PlaceInv'
      BY <2>1, <2>2, <2>6, <2>7 DEF PsbtInv, PlaceInv
    <2>10. KeyInv'
      <3> SUFFICES ASSUME NEW i \in DOMAIN inputs
                   PROVE  /\ inputs'[i].path # None =>
                                inputs'[i].public_key = derive(master, inputs'[i].path)
                          /\ Past(i)' => inputs'[i].path # None
        BY <2>1, <2>6 DEF KeyInv, derive
      <3>1. /\ inputs[i].path # None => inputs[i].public_key = derive(master, inputs[i].path)
            /\ i < index => inputs[i].path # None
        BY <2>1 DEF PsbtInv, KeyInv, Past
      <3>2. CASE i = index
        <4>1. inputs'[i] = Closed(input)  BY <2>1, <2>2, <3>2
        <4> QED  BY <2>4, <2>5, <3>1, <3>2, <4>1
      <3>3. CASE i # index
        <4>1. inputs'[i] = inputs[i]  BY <2>1, <2>2, <3>3
        <4>2. i \in 1 .. Len(inputs) /\ index \in 1 .. Len(inputs)  BY <2>2
        <4>3. Past(i)' => i < index
          BY <2>2, <2>7, <3>3, <4>2 DEF Past
        <4> QED  BY <3>1, <4>1, <4>3
      <3> QED  BY <3>2, <3>3
    <2>11. OwnInv'  BY <2>1 DEF PsbtInv, OwnInv, ShownAsItIs
    <2> QED  BY <2>8, <2>9, <2>10, <2>11 DEF PsbtInv
  <1> QED  BY <1>1, <1>2

\* An output is marked only where the wallet's own script for the path is its script.
LEMMA OutputItemKeeps ==
    ASSUME PsbtInv, NEW item \in OutputItems, OutputItem(item)
    PROVE  PsbtInv'
  <1>1. CASE ~OutputItemAccepted(item)
    BY <1>1, RefuseKeeps DEF OutputItem, Reading
  <1>2. CASE OutputItemAccepted(item)
    <2> DEFINE own == [outputs[index] EXCEPT !.wallet_owned = TRUE,
                                             !.change = (item.path.branch = 1)]
    <2>1. /\ outputs' = [outputs EXCEPT ![index] = own]
          /\ UNCHANGED <<inputs, input_total, output_total, fee, estimated_vbytes>>
          /\ UNCHANGED <<master, stage, index, redeem_script, verdict>>
          /\ stage = "output" /\ verdict = "Reading"
      <3>1. outputs' = [outputs EXCEPT ![index] =
                   [@ EXCEPT !.wallet_owned = TRUE, !.change = (item.path.branch = 1)]]
        BY <1>2 DEF OutputItem
      <3>2. outputs' = [outputs EXCEPT ![index] = own]  BY <3>1
      <3> QED  BY <1>2, <3>2 DEF OutputItem, Reading
    <2>2. index \in DOMAIN outputs /\ outputs \in Seq(Outputs) /\ outputs[index] \in Outputs
      BY <2>1 DEF PsbtInv, TypeOK, PlaceInv
    <2>3. own \in Outputs  BY <2>2 DEF Outputs
    <2>4. outputs' \in Seq(Outputs) /\ Len(outputs') = Len(outputs)
          /\ DOMAIN outputs' = DOMAIN outputs
      BY <2>1, <2>2, <2>3
    <2>5. TypeOK'  BY <2>1, <2>4 DEF PsbtInv, TypeOK
    <2>6. PlaceInv'  BY <2>1, <2>4 DEF PsbtInv, PlaceInv, Reading
    <2>7. KeyInv'  BY <2>1 DEF PsbtInv, KeyInv, Past, derive
    <2>8. OwnInv'
      <3> SUFFICES ASSUME NEW i \in DOMAIN outputs
                   PROVE  ShownAsItIs(outputs'[i])
        BY <2>1, <2>4 DEF OwnInv, ShownAsItIs
      <3>1. CASE i = index
        <4>1. outputs'[i] = own  BY <2>1, <2>2, <3>1
        <4>2. item.path \in Paths
          BY <1>2, PsbtAssumption DEF OutputItemAccepted
        <4>3. outputs[index].script \in {P2wpkh(derive(master, item.path)),
                                          NestedScript(derive(master, item.path))}
          BY <1>2 DEF OutputItemAccepted, PaysTo
        <4>4. own.script = outputs[index].script
          BY <2>2 DEF Outputs
        <4>5. own.change => item.path.branch = 1
          BY <2>2 DEF Outputs
        <4>6. ShownAsItIs(own)
          BY <4>2, <4>3, <4>4, <4>5 DEF ShownAsItIs
        <4> QED  BY <4>1, <4>6
      <3>2. CASE i # index
        <4>1. outputs'[i] = outputs[i]  BY <2>1, <2>2, <3>2
        <4>2. ShownAsItIs(outputs[i])  BY DEF PsbtInv, OwnInv
        <4> QED  BY <4>1, <4>2
      <3> QED  BY <3>1, <3>2
    <2> QED  BY <2>5, <2>6, <2>7, <2>8 DEF PsbtInv
  <1> QED  BY <1>1, <1>2

\* The end of an output map, which classifies the output, keeps PsbtInv.
LEMMA OutputEndKeeps ==
    ASSUME PsbtInv, OutputEnd
    PROVE  PsbtInv'
  <1> USE DEF OutputEnd, Enter, requestVars, Reading
  <1>1. index \in Nat \ {0} /\ outputs \in Seq(Outputs)  BY DEF PsbtInv, TypeOK
  <1>2. TypeOK'  BY <1>1 DEF PsbtInv, TypeOK
  <1>3. PlaceInv'  BY <1>1 DEF PsbtInv, PlaceInv
  <1>4. KeyInv'  BY DEF PsbtInv, KeyInv, Past, derive
  <1>5. OwnInv'  BY DEF PsbtInv, OwnInv, ShownAsItIs
  <1> QED  BY <1>2, <1>3, <1>4, <1>5 DEF PsbtInv

\* The end of the parser, which settles the fee policy, keeps PsbtInv.
LEMMA FinishKeeps ==
    ASSUME PsbtInv, NEW trailing \in BOOLEAN, Finish(trailing)
    PROVE  PsbtInv'
  <1>1. CASE Refuse(<<>>)
    BY <1>1, RefuseKeeps DEF Finish, Reading
  <1>2. CASE ~Refuse(<<>>)
    <2>1. /\ stage = "end" /\ verdict' = "Ok"
          /\ UNCHANGED <<master, stage, index, seen, redeem_script,
                         inputs, outputs, input_total, output_total>>
      BY <1>2 DEF Finish, Reading
    <2>2. TypeOK'  BY <2>1 DEF PsbtInv, TypeOK
    <2>3. PlaceInv'  BY <2>1 DEF PsbtInv, PlaceInv
    <2>4. KeyInv'  BY <2>1 DEF PsbtInv, KeyInv, Past, derive
    <2>5. OwnInv'  BY <2>1 DEF PsbtInv, OwnInv, ShownAsItIs
    <2> QED  BY <2>2, <2>3, <2>4, <2>5 DEF PsbtInv
  <1> QED  BY <1>1, <1>2

-----------------------------------------------------------------------------
\* PsbtInv is an inductive invariant.
THEOREM Invariance == Spec => []PsbtInv
  <1>1. Init => PsbtInv
    <2> SUFFICES ASSUME Init PROVE PsbtInv  OBVIOUS
    <2> USE DEF Init
    <2>1. TypeOK
      <3>1. WordMod \in Nat /\ WordMod # 0  BY RequestAssumption
      <3> QED  BY <3>1 DEF TypeOK
    <2>2. PlaceInv  BY DEF PlaceInv, Reading
    <2>3. KeyInv  BY DEF KeyInv
    <2>4. OwnInv  BY DEF OwnInv
    <2> QED  BY <2>1, <2>2, <2>3, <2>4 DEF PsbtInv
  <1>2. PsbtInv /\ [Next]_vars => PsbtInv'
    <2> SUFFICES ASSUME PsbtInv, [Next]_vars PROVE PsbtInv'  OBVIOUS
    <2>1. ASSUME NEW w \in Wallets, bitcoin_parse_psbt(w) PROVE PsbtInv'
      BY <2>1, ParseKeeps
    <2>2. ASSUME NEW tx \in UnsignedTxs, UnsignedTx(tx) PROVE PsbtInv'
      BY <2>2, UnsignedTxKeeps
    <2>3. CASE GlobalOther
      BY <2>3, RefuseKeeps DEF GlobalOther, Reading
    <2>4. CASE GlobalEnd
      BY <2>4, GlobalEndKeeps
    <2>5. ASSUME NEW item \in InputItems, InputItem(item) PROVE PsbtInv'
      BY <2>5, InputItemKeeps
    <2>6. CASE InputEnd
      BY <2>6, InputEndKeeps
    <2>7. ASSUME NEW item \in OutputItems, OutputItem(item) PROVE PsbtInv'
      BY <2>7, OutputItemKeeps
    <2>8. CASE OutputEnd
      BY <2>8, OutputEndKeeps
    <2>9. ASSUME NEW trailing \in BOOLEAN, Finish(trailing) PROVE PsbtInv'
      BY <2>9, FinishKeeps
    <2>10. CASE UNCHANGED vars
      BY <2>10 DEF vars, requestVars, PsbtInv, TypeOK, PlaceInv, KeyInv, OwnInv,
                   Past, Reading, Has, ShownAsItIs, derive
    <2> QED  BY <2>1, <2>2, <2>3, <2>4, <2>5, <2>6, <2>7, <2>8, <2>9, <2>10 DEF Next
  <1> QED  BY <1>1, <1>2, PTL DEF Spec

\* Every field of the request keeps its range while any stream of records is read.
THEOREM TypeCorrect == Spec => []TypeOK
  <1>1. PsbtInv => TypeOK  BY DEF PsbtInv
  <1> QED  BY <1>1, Invariance, PTL

\* A request bitcoin_parse_psbt has accepted for one wallet is refused by
\* bitcoin_sign_request for every other wallet, whatever their fingerprints.
THEOREM BoundToItsWallet == Spec => []NoOtherWalletSigns
  <1>1. PsbtInv => NoOtherWalletSigns
    <2> SUFFICES ASSUME PsbtInv, verdict = "Ok",
                        NEW w \in Wallets, bitcoin_sign_request(request, w)
                 PROVE  w = master
      BY DEF NoOtherWalletSigns
    <2>1. stage = "end" /\ Len(inputs) > 0 /\ inputs \in Seq(Inputs)
      BY DEF PsbtInv, PlaceInv, TypeOK
    <2>2. 1 \in DOMAIN inputs  BY <2>1
    <2>3. inputs[1].public_key = derive(master, inputs[1].path)
      BY <2>1, <2>2 DEF PsbtInv, KeyInv, Past
    <2>4. KeyMatches(inputs[1], w)
      <3>1. request.inputs = inputs  BY DEF request
      <3> QED  BY <2>2, <3>1 DEF bitcoin_sign_request
    <2>5. derive(w, inputs[1].path) = derive(master, inputs[1].path)
      BY <2>3, <2>4 DEF KeyMatches
    <2> QED  BY <2>5 DEF derive
  <1> QED  BY <1>1, Invariance, PTL

\* An output marked as the wallet's, or as its change, carries the script the
\* wallet derives for a path of that kind.
THEOREM OwnOutputsAreOwn == Spec => []ChangeIsOwn
  <1>1. PsbtInv => ChangeIsOwn  BY DEF PsbtInv, OwnInv, ChangeIsOwn
  <1> QED  BY <1>1, Invariance, PTL
-----------------------------------------------------------------------------
(* The inputs of an accepted request *)

\* What the signer asks of an input that its map has been closed.
Spendable(input) == path_matches_spend_type(input) /\ SpendsByKey(input)
SpendInv == \A i \in DOMAIN inputs : Past(i) => Spendable(inputs[i])

\* Every input of a request that was accepted is spent by the wallet's own key: its script,
\* nested or not, is the one of the key on its path.
InputsAreItsOwn ==
    verdict = "Ok" =>
        \A i \in DOMAIN inputs : Spendable(inputs[i]) /\ KeyMatches(inputs[i], master)

\* The four flags and the checks at the end of a map leave an input the signer takes.
LEMMA ClosedIsSpendable ==
    ASSUME NEW input \in Inputs, redeem_script \in {P2wpkh(k) : k \in Keys} \cup {None},
           RedeemFits(input), verify_input_script(Closed(input))
    PROVE  Spendable(Closed(input))
  <1> DEFINE closed == Closed(input)
  <1>1. closed.witness_key_hash = closed.public_key /\ path_matches_spend_type(closed)
    BY DEF verify_input_script
  <1>2. CASE input.spend_type = "NativeP2wpkh"
    <2>1. closed = input
      BY <1>2 DEF Closed
    <2> QED
      BY <1>1, <1>2, <2>1 DEF Spendable, SpendsByKey
  <1>3. CASE input.spend_type = "NestedP2shP2wpkh"
    <2>1. /\ closed.witness_key_hash = redeem_script.hash
          /\ closed.p2sh_hash = input.p2sh_hash /\ closed.spend_type = input.spend_type
      BY <1>3 DEF Closed, Inputs
    <2>2. input.p2sh_hash = redeem_script /\ redeem_script \in {P2wpkh(k) : k \in Keys}
      BY <1>3 DEF RedeemFits
    <2>3. redeem_script = P2wpkh(redeem_script.hash)
      BY <2>2 DEF P2wpkh
    <2> QED
      BY <1>1, <1>3, <2>1, <2>2, <2>3 DEF Spendable, SpendsByKey
  <1> QED
    BY <1>2, <1>3 DEF Inputs

\* A step that touches no input and passes none.
LEMMA SpendStays ==
    ASSUME SpendInv, inputs' = inputs, \A i \in DOMAIN inputs : Past(i)' => Past(i)
    PROVE  SpendInv'
  BY DEF SpendInv, Spendable, path_matches_spend_type, valid_bitcoin_single_sig_path, SpendsByKey

\* Every step keeps the inputs already passed spendable by the key they name.
LEMMA SpendStep ==
    ASSUME PsbtInv, SpendInv, [Next]_vars
    PROVE  SpendInv'
  <1>0. inputs \in Seq(Inputs) /\ index \in Nat \ {0}
    BY DEF PsbtInv, TypeOK
  <1>1. ASSUME NEW read, Refuse(read) PROVE SpendInv'
    BY <1>1, SpendStays DEF Refuse, requestVars, Past
  <1>2. ASSUME NEW w \in Wallets, bitcoin_parse_psbt(w) PROVE SpendInv'
    BY <1>2 DEF bitcoin_parse_psbt, clear_bitcoin_request, SpendInv
  <1>3. ASSUME NEW tx \in UnsignedTxs, UnsignedTx(tx) PROVE SpendInv'
    <2>1. Refuse(<<[type |-> "UnsignedTx"]>>) \/ stage' = "global"
      BY <1>3 DEF UnsignedTx, Reading
    <2>2. CASE stage' = "global"
      BY <2>2 DEF SpendInv, Past
    <2> QED
      BY <1>1, <2>1, <2>2
  <1>4. CASE GlobalEnd
    <2>1. CASE Has("UnsignedTx")
      <3>1. inputs' = inputs /\ stage' = "input" /\ index' = 1
        BY <1>4, <2>1 DEF GlobalEnd, Enter, requestVars
      <3>2. \A i \in DOMAIN inputs : ~(i < 1)
        BY <1>0
      <3> QED
        BY <3>1, <3>2, SpendStays DEF Past
    <2> QED
      BY <1>1, <1>4, <2>1 DEF GlobalEnd
  <1>5. ASSUME NEW item \in InputItems, InputItem(item) PROVE SpendInv'
    <2>1. CASE InputItemAccepted(item)
      <3>1. /\ inputs' = [inputs EXCEPT ![index] = InputWith(inputs[index], item)]
            /\ stage = "input" /\ stage' = stage /\ index' = index
        BY <1>5, <2>1 DEF InputItem, Reading
      <3>2. DOMAIN inputs' = DOMAIN inputs
        BY <3>1
      <3>3. \A i \in DOMAIN inputs : Past(i)' => i < index /\ Past(i) /\ inputs'[i] = inputs[i]
        <4>1. SUFFICES ASSUME NEW i \in DOMAIN inputs, Past(i)'
                       PROVE  i < index /\ Past(i) /\ inputs'[i] = inputs[i]
          OBVIOUS
        <4>2. i < index
          BY <3>1, <4>1 DEF Past
        <4>3. i # index
          BY <1>0, <4>2
        <4> QED
          BY <3>1, <4>2, <4>3 DEF Past
      <3> QED
        BY <3>2, <3>3 DEF SpendInv, Spendable, path_matches_spend_type,
                          valid_bitcoin_single_sig_path, SpendsByKey
    <2> QED
      BY <1>1, <1>5, <2>1 DEF InputItem
  <1>6. CASE InputEnd
    <2> DEFINE input == inputs[index]
               fits == /\ Has("Utxo") /\ Has("Derivation") /\ RedeemFits(input)
                       /\ verify_input_script(Closed(input))
                       /\ input_total + input.value < WordMod
    <2>1. CASE ~fits
      BY <1>1, <1>6, <2>1 DEF InputEnd
    <2>2. CASE fits
      <3>1. /\ inputs' = [inputs EXCEPT ![index] = Closed(input)]
            /\ stage = "input" /\ verdict = "Reading"
            /\ \/ stage' = "input" /\ index' = index + 1
               \/ stage' = "output" /\ ~(index < Len(inputs))
        BY <1>6, <2>2 DEF InputEnd, Reading, Enter
      <3>2. index \in DOMAIN inputs /\ input \in Inputs
        BY <1>0, <3>1 DEF PsbtInv, PlaceInv
      <3>3. Spendable(Closed(input))
        BY <2>2, <3>2, ClosedIsSpendable DEF PsbtInv, TypeOK
      <3>4. ASSUME NEW i \in DOMAIN inputs, Past(i)'
            PROVE  Spendable(inputs'[i])
        <4>1. i \in 1 .. Len(inputs) /\ index \in 1 .. Len(inputs)
          BY <1>0, <3>2
        <4>2. CASE i = index
          BY <3>1, <3>2, <3>3, <4>2
        <4>3. CASE i # index
          <5>1. i < index
            BY <1>0, <3>1, <3>4, <4>1, <4>3 DEF Past
          <5>2. Spendable(inputs[i])
            BY <3>1, <5>1 DEF SpendInv, Past
          <5>3. inputs'[i] = inputs[i]
            BY <3>1, <4>3
          <5> QED
            BY <5>2, <5>3
        <4> QED
          BY <4>2, <4>3
      <3>5. DOMAIN inputs' = DOMAIN inputs
        BY <3>1
      <3> QED
        BY <3>4, <3>5 DEF SpendInv, Spendable, path_matches_spend_type,
                          valid_bitcoin_single_sig_path, SpendsByKey
    <2> QED
      BY <2>1, <2>2
  <1>7. ASSUME NEW item \in OutputItems, OutputItem(item) PROVE SpendInv'
    <2>1. CASE OutputItemAccepted(item)
      BY <1>7, <2>1, SpendStays DEF OutputItem, Past
    <2> QED
      BY <1>1, <1>7, <2>1 DEF OutputItem
  <1>8. CASE OutputEnd
    BY <1>8, SpendStays DEF OutputEnd, Reading, requestVars, Past
  <1>9. ASSUME NEW trailing \in BOOLEAN, Finish(trailing) PROVE SpendInv'
    <2>1. Refuse(<<>>) \/ UNCHANGED <<inputs, stage, index>>
      BY <1>9 DEF Finish
    <2>2. CASE UNCHANGED <<inputs, stage, index>>
      BY <2>2, SpendStays DEF Past
    <2> QED
      BY <1>1, <2>1, <2>2
  <1>10. CASE UNCHANGED vars
    BY <1>10, SpendStays DEF vars, requestVars, Past
  <1> QED
    BY <1>1, <1>2, <1>3, <1>4, <1>5, <1>6, <1>7, <1>8, <1>9, <1>10 DEF Next, GlobalOther

\* In every reachable state, whatever the constants, an input the parser has passed has a single-key
\* path that matches its spend type, and a script its key spends.
THEOREM SpendInvariance == Spec => []SpendInv
  <1>1. Init => SpendInv
    BY DEF Init, SpendInv
  <1> QED
    BY <1>1, SpendStep, Invariance, PTL DEF Spec

\* Whatever the order and the number of the records, a request that is accepted spends only
\* what the keys of the wallet it was parsed for can spend.
THEOREM InputsAreTheWallets == Spec => []InputsAreItsOwn
  <1>1. PsbtInv /\ SpendInv => InputsAreItsOwn
    <2> SUFFICES ASSUME PsbtInv, SpendInv, verdict = "Ok", NEW i \in DOMAIN inputs
                 PROVE  Spendable(inputs[i]) /\ KeyMatches(inputs[i], master)
      BY DEF InputsAreItsOwn
    <2>1. Past(i)
      BY DEF PsbtInv, PlaceInv, Past
    <2>2. Spendable(inputs[i])
      BY <2>1 DEF SpendInv
    <2>3. inputs[i].path # None /\ inputs[i].public_key = derive(master, inputs[i].path)
      BY <2>1 DEF PsbtInv, KeyInv
    <2> QED
      BY <2>2, <2>3 DEF KeyMatches
  <1> QED
    BY <1>1, SpendInvariance, Invariance, PTL

-----------------------------------------------------------------------------
(* What the request says of money and of sizes *)

\* The values the input total is made of: those of the maps that are closed.
Counted == [i \in DOMAIN inputs |-> IF Past(i) THEN inputs[i].value ELSE 0]

LimitInv ==
    /\ Len(inputs) <= MaxInputs /\ Len(outputs) <= MaxOutputs
    /\ \A i \in DOMAIN inputs : inputs[i].value <= MaxSupply
    /\ \A i \in DOMAIN outputs : outputs[i].value <= MaxSupply /\ HasAddress(outputs[i].script)

TotalsInv == input_total = SumFunction(Counted) /\ output_total = Total(outputs)

AcceptedInv ==
    verdict = "Ok" =>
        /\ output_total <= input_total /\ fee = input_total - output_total
        /\ estimated_vbytes = EstimatedVbytes(inputs, outputs)
        /\ FeePolicy(fee, estimated_vbytes)

MoneyInv == LimitInv /\ TotalsInv /\ AcceptedInv

\* A sequence of records with natural values has a natural total.
LEMMA TotalType ==
    ASSUME NEW V, NEW items \in Seq(V), \A i \in DOMAIN items : items[i].value \in Nat
    PROVE  Total(items) \in Nat
  <1> DEFINE values == [i \in DOMAIN items |-> items[i].value]
  <1>1. IsFiniteSet(DOMAIN items)
    <2>1. DOMAIN items = 1 .. Len(items) /\ Len(items) \in Nat
      OBVIOUS
    <2> QED  BY <2>1, FS_Interval
  <1>2. DOMAIN values = DOMAIN items /\ \A i \in DOMAIN items : values[i] \in Nat
    OBVIOUS
  <1> HIDE DEF values
  <1>3. SumFunctionOnSet(values, DOMAIN items) \in Nat
    BY <1>1, <1>2, SumType
  <1> QED  BY <1>2, <1>3 DEF Total, SumFunction, values

\* Lists of the same length with the same values have the same total.
LEMMA TotalAgrees ==
    ASSUME NEW items, NEW others, DOMAIN others = DOMAIN items,
           \A i \in DOMAIN items : others[i].value = items[i].value
    PROVE  Total(others) = Total(items)
  <1>1. [i \in DOMAIN others |-> others[i].value] = [i \in DOMAIN items |-> items[i].value]
    OBVIOUS
  <1> QED  BY <1>1 DEF Total

\* Zeros add up to zero.
LEMMA ZeroTotal ==
    ASSUME NEW n \in Nat, NEW values, DOMAIN values = 1 .. n, \A i \in 1 .. n : values[i] = 0
    PROVE  SumFunction(values) = 0
  BY FS_Interval, SumOfZeros DEF SumFunction

\* A step that keeps the request, the inputs passed and an earlier verdict.
LEMMA MoneyStays ==
    ASSUME MoneyInv, UNCHANGED requestVars, \A i \in DOMAIN inputs : Past(i)' <=> Past(i),
           verdict' = "Ok" => verdict = "Ok"
    PROVE  MoneyInv'
  <1>1. UNCHANGED <<inputs, outputs, input_total, output_total, fee, estimated_vbytes>>
    BY DEF requestVars
  <1>2. LimitInv'
    BY <1>1 DEF MoneyInv, LimitInv, HasAddress
  <1>3. TotalsInv'
    <2>1. Counted' = Counted
      BY <1>1 DEF Counted
    <2> QED  BY <1>1, <2>1 DEF MoneyInv, TotalsInv, Total
  <1>4. AcceptedInv'
    BY <1>1 DEF MoneyInv, AcceptedInv, EstimatedVbytes, stripped_size, InputSize, FeePolicy
  <1> QED  BY <1>2, <1>3, <1>4 DEF MoneyInv

\* A refusal keeps the totals true.
LEMMA MoneyRefuse ==
    ASSUME MoneyInv, NEW read, Refuse(read)
    PROVE  MoneyInv'
  BY MoneyStays DEF Refuse, Past

\* An empty request has empty totals.
Empty == /\ inputs = <<>> /\ outputs = <<>>
         /\ input_total = 0 /\ output_total = 0 /\ verdict # "Ok"
LEMMA MoneyEmpty == Empty => MoneyInv
  <1> SUFFICES ASSUME Empty PROVE MoneyInv  OBVIOUS
  <1> USE DEF Empty
  <1>1. LimitInv
    <2>1. Len(<<>>) = 0 /\ DOMAIN <<>> = {}  OBVIOUS
    <2> QED  BY <2>1, RequestAssumption DEF LimitInv
  <1>2. SumFunction(Counted) = 0
    <2>1. DOMAIN Counted = 1 .. 0 /\ \A i \in 1 .. 0 : Counted[i] = 0
      BY DEF Counted
    <2> QED  BY <2>1, ZeroTotal
  <1>3. Total(outputs) = 0
    <2> DEFINE values == [i \in DOMAIN outputs |-> outputs[i].value]
    <2>1. DOMAIN values = 1 .. 0 /\ \A i \in 1 .. 0 : values[i] = 0
      OBVIOUS
    <2> HIDE DEF values
    <2>2. SumFunction(values) = 0
      BY <2>1, ZeroTotal
    <2> QED  BY <2>2 DEF Total, values
  <1> QED  BY <1>1, <1>2, <1>3 DEF MoneyInv, TotalsInv, AcceptedInv

\* A step that empties the request keeps them too.
LEMMA MoneyEmptyNext == Empty' => MoneyInv'
  BY MoneyEmpty, PTL

\* The unsigned transaction, which lays out the inputs and outputs, keeps the totals true.
LEMMA MoneyUnsignedTx ==
    ASSUME PsbtInv, MoneyInv, NEW tx \in UnsignedTxs, UnsignedTx(tx)
    PROVE  MoneyInv'
  <1>1. CASE ~(~Has("UnsignedTx") /\ TxAccepted(tx))
    BY <1>1, MoneyRefuse DEF UnsignedTx
  <1>2. CASE ~Has("UnsignedTx") /\ TxAccepted(tx)
    <2>1. /\ inputs' = [i \in 1 .. tx.inputs |-> ClearInput]
          /\ outputs' = [i \in DOMAIN tx.outputs |->
                 [value |-> tx.outputs[i].value, script |-> tx.outputs[i].script,
                  wallet_owned |-> FALSE, change |-> FALSE]]
          /\ output_total' = Total(tx.outputs)
          /\ input_total' = input_total
          /\ stage' = "global" /\ verdict' = "Reading"
      BY <1>2 DEF UnsignedTx, Reading
    <2>2. /\ tx.inputs \in 1 .. MaxInputs /\ Len(tx.outputs) \in 1 .. MaxOutputs
          /\ \A i \in DOMAIN tx.outputs :
                 tx.outputs[i].value <= MaxSupply /\ HasAddress(tx.outputs[i].script)
      BY <1>2 DEF TxAccepted
    <2>3. tx.outputs \in Seq(TxOutputs) /\ tx.inputs \in Nat
      BY PsbtAssumption
    <2>4. DOMAIN inputs' = 1 .. tx.inputs /\ Len(inputs') = tx.inputs
      BY <2>1, <2>3
    <2>5. DOMAIN outputs' = DOMAIN tx.outputs /\ Len(outputs') = Len(tx.outputs)
      BY <2>1, <2>3
    <2>6. LimitInv'
      <3>1. Len(inputs') <= MaxInputs /\ Len(outputs') <= MaxOutputs
        BY <2>2, <2>4, <2>5, RequestAssumption
      <3>2. \A i \in DOMAIN inputs' : inputs'[i].value <= MaxSupply
        BY <2>1, <2>4, RequestAssumption DEF ClearInput
      <3>3. \A i \in DOMAIN outputs' :
                outputs'[i].value <= MaxSupply /\ HasAddress(outputs'[i].script)
        BY <2>1, <2>2, <2>5
      <3> QED  BY <3>1, <3>2, <3>3 DEF LimitInv, HasAddress
    <2>7. TotalsInv'
      <3>1. Total(outputs') = Total(tx.outputs)
        BY <2>1, <2>5, TotalAgrees
      <3>2. input_total = 0
        <4>1. DOMAIN Counted = 1 .. Len(inputs) /\ Len(inputs) \in Nat
          BY DEF Counted, PsbtInv, TypeOK
        <4>2. \A i \in DOMAIN Counted : Counted[i] = 0
          BY <1>2, <2>1 DEF Counted, Past, UnsignedTx, Reading
        <4> QED  BY <4>1, <4>2, ZeroTotal DEF MoneyInv, TotalsInv
      <3>3. DOMAIN Counted' = 1 .. tx.inputs /\ \A i \in DOMAIN Counted' : Counted'[i] = 0
        BY <2>1, <2>4 DEF Counted, Past
      <3>4. SumFunction(Counted') = 0
        BY <2>3, <3>3, ZeroTotal
      <3> QED  BY <2>1, <3>1, <3>2, <3>4 DEF TotalsInv, Total
    <2> QED  BY <2>1, <2>6, <2>7 DEF MoneyInv, AcceptedInv
  <1> QED  BY <1>1, <1>2

\* Reading a record keeps the value of an input within the supply.
LEMMA InputWithValue ==
    ASSUME NEW input \in Inputs, NEW item \in InputItems, InputItemAccepted(item),
           input.value <= MaxSupply
    PROVE  InputWith(input, item).value <= MaxSupply
  <1> USE DEF Inputs
  <1>1. CASE item.type = "Utxo" /\ item.script.kind = "P2wpkh"
    <2>1. InputWith(input, item) = [input EXCEPT !.value = item.value,
               !.spend_type = "NativeP2wpkh", !.witness_key_hash = item.script.hash]
      BY <1>1 DEF InputWith
    <2> QED  BY <1>1, <2>1 DEF InputItemAccepted
  <1>2. CASE item.type = "Utxo" /\ item.script.kind = "P2sh"
    <2>1. InputWith(input, item) = [input EXCEPT !.value = item.value,
               !.spend_type = "NestedP2shP2wpkh", !.p2sh_hash = item.script.hash]
      BY <1>2 DEF InputWith
    <2> QED  BY <1>2, <2>1 DEF InputItemAccepted
  <1>3. CASE item.type = "Derivation"
    <2>1. InputWith(input, item) = [input EXCEPT !.path = item.path, !.public_key = item.key]
      BY <1>3 DEF InputWith
    <2> QED  BY <2>1
  <1>4. CASE item.type \notin {"Utxo", "Derivation"}
    BY <1>4 DEF InputWith
  <1> QED  BY <1>1, <1>2, <1>3, <1>4 DEF InputItemAccepted

\* The map that is open counts nothing yet.
LEMMA MoneyInputItem ==
    ASSUME PsbtInv, MoneyInv, NEW item \in InputItems, InputItem(item)
    PROVE  MoneyInv'
  <1>1. CASE ~InputItemAccepted(item)
    BY <1>1, MoneyRefuse DEF InputItem
  <1>2. CASE InputItemAccepted(item)
    <2>1. /\ inputs' = [inputs EXCEPT ![index] = InputWith(inputs[index], item)]
          /\ UNCHANGED <<outputs, input_total, output_total, fee, estimated_vbytes>>
          /\ UNCHANGED <<master, stage, index, verdict>>
          /\ stage = "input" /\ verdict = "Reading"
      BY <1>2 DEF InputItem, Reading
    <2>2. index \in DOMAIN inputs /\ inputs \in Seq(Inputs) /\ inputs[index] \in Inputs
          /\ index \in Nat
      BY <2>1 DEF PsbtInv, TypeOK, PlaceInv
    <2>3. DOMAIN inputs' = DOMAIN inputs /\ Len(inputs') = Len(inputs)
      BY <2>1, <2>2
    <2>4. LimitInv'
      <3>1. InputWith(inputs[index], item).value <= MaxSupply
        BY <1>2, <2>2, InputWithValue DEF MoneyInv, LimitInv
      <3>2. \A i \in DOMAIN inputs' : inputs'[i].value <= MaxSupply
        BY <2>1, <2>2, <2>3, <3>1 DEF MoneyInv, LimitInv
      <3> QED  BY <2>1, <2>3, <3>2 DEF MoneyInv, LimitInv, HasAddress
    <2>5. Counted' = Counted
      <3>1. ~Past(index)
        BY <2>1, <2>2 DEF Past
      <3>2. \A i \in DOMAIN inputs : Past(i)' <=> Past(i)
        BY <2>1 DEF Past
      <3>3. \A i \in DOMAIN inputs : i # index => inputs'[i] = inputs[i]
        BY <2>1, <2>2
      <3> QED  BY <2>3, <3>1, <3>2, <3>3 DEF Counted
    <2>6. TotalsInv'
      BY <2>1, <2>5 DEF MoneyInv, TotalsInv, Total
    <2> QED  BY <2>1, <2>4, <2>6 DEF MoneyInv, AcceptedInv
  <1> QED  BY <1>1, <1>2

\* The end of a map adds its value to the total.
LEMMA MoneyInputEnd ==
    ASSUME PsbtInv, MoneyInv, InputEnd
    PROVE  MoneyInv'
  <1> DEFINE input == inputs[index]
             fits == /\ Has("Utxo") /\ Has("Derivation") /\ RedeemFits(input)
                     /\ verify_input_script(Closed(input))
                     /\ input_total + input.value < WordMod
  <1>1. CASE ~fits
    BY <1>1, MoneyRefuse DEF InputEnd
  <1>2. CASE fits
    <2>1. /\ inputs' = [inputs EXCEPT ![index] = Closed(input)]
          /\ input_total' = input_total + input.value
          /\ UNCHANGED <<outputs, output_total, fee, estimated_vbytes, verdict>>
          /\ stage = "input" /\ verdict = "Reading"
          /\ \/ stage' = "input" /\ index' = index + 1
             \/ stage' = "output" /\ ~(index < Len(inputs))
      BY <1>2 DEF InputEnd, Reading, Enter
    <2>2. index \in DOMAIN inputs /\ inputs \in Seq(Inputs) /\ input \in Inputs /\ index \in Nat
      BY <2>1 DEF PsbtInv, TypeOK, PlaceInv
    <2>3. Closed(input).value = input.value
      BY <2>2 DEF Closed, Inputs
    <2>4. DOMAIN inputs' = DOMAIN inputs /\ Len(inputs') = Len(inputs)
          /\ \A i \in DOMAIN inputs : inputs'[i].value = inputs[i].value
      BY <2>1, <2>2, <2>3
    <2>5. LimitInv'
      BY <2>1, <2>4 DEF MoneyInv, LimitInv, HasAddress
    <2>6. \A i \in DOMAIN inputs : Past(i)' <=> Past(i) \/ i = index
      <3>1. DOMAIN inputs = 1 .. Len(inputs)
        BY <2>2
      <3> QED  BY <2>1, <2>2, <3>1 DEF Past
    <2>7. \A i \in DOMAIN inputs : inputs[i].value \in Nat
      <3>1. \A i \in DOMAIN inputs : inputs[i] \in Inputs
        BY <2>2
      <3> QED  BY <3>1 DEF Inputs
    <2>8. SumFunction(Counted') = SumFunction(Counted) + input.value
      <3>1. DOMAIN Counted = DOMAIN inputs /\ DOMAIN Counted' = DOMAIN inputs
        BY <2>4 DEF Counted
      <3>2. Counted[index] = 0 /\ Counted'[index] = input.value
        BY <2>1, <2>2, <2>4, <2>6 DEF Counted, Past
      <3>3. \A i \in DOMAIN inputs : Counted[i] \in Nat /\ Counted'[i] \in Nat
        BY <2>4, <2>7 DEF Counted
      <3>4. \A i \in DOMAIN inputs \ {index} : Counted'[i] = Counted[i]
        BY <2>4, <2>6 DEF Counted
      <3>5. IsFiniteSet(DOMAIN inputs)
        <4>1. DOMAIN inputs = 1 .. Len(inputs) /\ Len(inputs) \in Nat
          BY <2>2
        <4> QED  BY <4>1, FS_Interval
      <3>6. SumFunctionOnSet(Counted', DOMAIN inputs) + Counted[index]
                = SumFunctionOnSet(Counted, DOMAIN inputs) + Counted'[index]
        BY <2>2, <3>3, <3>4, <3>5, SumUpdate
      <3>7. SumFunctionOnSet(Counted', DOMAIN inputs) \in Nat
            /\ SumFunctionOnSet(Counted, DOMAIN inputs) \in Nat
        BY <3>3, <3>5, SumType
      <3> QED  BY <3>1, <3>2, <3>6, <3>7 DEF SumFunction
    <2>9. TotalsInv'
      BY <2>1, <2>8 DEF MoneyInv, TotalsInv, Total
    <2> QED  BY <2>1, <2>5, <2>9 DEF MoneyInv, AcceptedInv
  <1> QED  BY <1>1, <1>2

\* A record of an output map changes no value.
LEMMA MoneyOutputItem ==
    ASSUME PsbtInv, MoneyInv, NEW item \in OutputItems, OutputItem(item)
    PROVE  MoneyInv'
  <1>1. CASE ~OutputItemAccepted(item)
    BY <1>1, MoneyRefuse DEF OutputItem
  <1>2. CASE OutputItemAccepted(item)
    <2>1. /\ outputs' = [outputs EXCEPT ![index] =
                   [@ EXCEPT !.wallet_owned = TRUE, !.change = (item.path.branch = 1)]]
          /\ UNCHANGED <<inputs, input_total, output_total, fee, estimated_vbytes>>
          /\ UNCHANGED <<stage, index, verdict>>
          /\ stage = "output" /\ verdict = "Reading"
      BY <1>2 DEF OutputItem, Reading
    <2>2. index \in DOMAIN outputs /\ outputs \in Seq(Outputs) /\ outputs[index] \in Outputs
      BY <2>1 DEF PsbtInv, TypeOK, PlaceInv
    <2>3. DOMAIN outputs' = DOMAIN outputs /\ Len(outputs') = Len(outputs)
      BY <2>1, <2>2
    <2>4. \A i \in DOMAIN outputs :
              outputs'[i].value = outputs[i].value /\ outputs'[i].script = outputs[i].script
      BY <2>1, <2>2 DEF Outputs
    <2>5. LimitInv'
      BY <2>1, <2>3, <2>4 DEF MoneyInv, LimitInv, HasAddress
    <2>6. Total(outputs') = Total(outputs)
      BY <2>3, <2>4, TotalAgrees
    <2>7. Counted' = Counted
      BY <2>1 DEF Counted, Past
    <2>8. TotalsInv'
      BY <2>1, <2>6, <2>7 DEF MoneyInv, TotalsInv, Total
    <2> QED  BY <2>1, <2>5, <2>8 DEF MoneyInv, AcceptedInv
  <1> QED  BY <1>1, <1>2

\* The verdict is given for these totals, with the fee and the size that follow.
LEMMA MoneyFinish ==
    ASSUME PsbtInv, MoneyInv, NEW trailing \in BOOLEAN, Finish(trailing)
    PROVE  MoneyInv'
  <1> DEFINE balance == input_total - output_total
             vbytes == EstimatedVbytes(inputs, outputs)
             fits == ~trailing /\ input_total >= output_total /\ FeePolicy(balance, vbytes)
  <1>1. CASE ~fits
    BY <1>1, MoneyRefuse DEF Finish
  <1>2. CASE fits
    <2>1. /\ fee' = balance /\ estimated_vbytes' = vbytes
          /\ UNCHANGED <<stage, index, inputs, outputs, input_total, output_total>>
      BY <1>2 DEF Finish
    <2>2. LimitInv'
      BY <2>1 DEF MoneyInv, LimitInv, HasAddress
    <2>3. TotalsInv'
      <3>1. Counted' = Counted
        BY <2>1 DEF Counted, Past
      <3> QED  BY <2>1, <3>1 DEF MoneyInv, TotalsInv, Total
    <2>4. AcceptedInv'
      <3>1. output_total <= input_total
        <4>1. input_total \in Nat /\ output_total \in Nat
          <5>1. outputs \in Seq(Outputs)
            BY DEF PsbtInv, TypeOK
          <5>2. \A i \in DOMAIN outputs : outputs[i] \in Outputs
            BY <5>1
          <5>3. \A i \in DOMAIN outputs : outputs[i].value \in Nat
            BY <5>2 DEF Outputs
          <5> QED  BY <5>1, <5>3, TotalType DEF MoneyInv, TotalsInv, PsbtInv, TypeOK
        <4> QED  BY <1>2, <4>1
      <3>2. EstimatedVbytes(inputs, outputs)' = vbytes
        BY <2>1 DEF EstimatedVbytes, stripped_size, InputSize
      <3> HIDE DEF vbytes
      <3>3. estimated_vbytes' = EstimatedVbytes(inputs, outputs)'
        BY <2>1, <3>2
      <3>4. FeePolicy(fee, estimated_vbytes)'
        BY <1>2, <2>1 DEF FeePolicy
      <3> QED  BY <2>1, <3>1, <3>3, <3>4 DEF AcceptedInv
    <2> QED  BY <2>2, <2>3, <2>4 DEF MoneyInv
  <1> QED  BY <1>1, <1>2

\* Every step keeps the totals true.
LEMMA MoneyStep ==
    ASSUME PsbtInv, MoneyInv, [Next]_vars
    PROVE  MoneyInv'
  <1>1. ASSUME NEW w \in Wallets, bitcoin_parse_psbt(w) PROVE MoneyInv'
    <2>1. /\ inputs' = <<>> /\ outputs' = <<>>
          /\ input_total' = 0 /\ output_total' = 0 /\ verdict' # "Ok"
      BY <1>1 DEF bitcoin_parse_psbt, clear_bitcoin_request
    <2> QED  BY <2>1, MoneyEmptyNext DEF Empty
  <1>2. ASSUME NEW tx \in UnsignedTxs, UnsignedTx(tx) PROVE MoneyInv'
    BY <1>2, MoneyUnsignedTx
  <1>3. CASE GlobalOther
    BY <1>3, MoneyRefuse DEF GlobalOther
  <1>4. CASE GlobalEnd
    <2>1. CASE Has("UnsignedTx")
      <3>1. UNCHANGED requestVars /\ verdict' = verdict
            /\ stage = "global" /\ stage' = "input" /\ index' = 1
        BY <1>4, <2>1 DEF GlobalEnd, Enter, Reading
      <3>2. \A i \in DOMAIN inputs : ~(i < 1)
        BY DEF PsbtInv, TypeOK
      <3> QED  BY <3>1, <3>2, MoneyStays DEF Past
    <2> QED  BY <1>4, <2>1, MoneyRefuse DEF GlobalEnd
  <1>5. ASSUME NEW item \in InputItems, InputItem(item) PROVE MoneyInv'
    BY <1>5, MoneyInputItem
  <1>6. CASE InputEnd
    BY <1>6, MoneyInputEnd
  <1>7. ASSUME NEW item \in OutputItems, OutputItem(item) PROVE MoneyInv'
    BY <1>7, MoneyOutputItem
  <1>8. CASE OutputEnd
    BY <1>8, MoneyStays DEF OutputEnd, Enter, Reading, Past
  <1>9. ASSUME NEW trailing \in BOOLEAN, Finish(trailing) PROVE MoneyInv'
    BY <1>9, MoneyFinish
  <1>10. CASE UNCHANGED vars
    BY <1>10, MoneyStays DEF vars, Past
  <1> QED
    BY <1>1, <1>2, <1>3, <1>4, <1>5, <1>6, <1>7, <1>8, <1>9, <1>10 DEF Next

\* In every reachable state, whatever the constants, input_total is the value of the inputs passed,
\* output_total that of the outputs, and an accepted request has met the fee policy with them.
THEOREM MoneyIsCounted == Spec => []MoneyInv
  <1>1. Init => MoneyInv
    BY MoneyEmpty DEF Init, Empty
  <1> QED  BY <1>1, MoneyStep, Invariance, PTL DEF Spec

\* An accepted request has counted every input.
LEMMA AllCounted ==
    ASSUME PsbtInv, MoneyInv, verdict = "Ok"
    PROVE  /\ Total(inputs) = input_total /\ Total(outputs) = output_total
           /\ Total(inputs) \in Nat /\ Total(outputs) \in Nat
  <1>1. \A i \in DOMAIN inputs : Past(i)
    BY DEF PsbtInv, PlaceInv, Past
  <1>2. Counted = [i \in DOMAIN inputs |-> inputs[i].value]
    BY <1>1 DEF Counted
  <1>3. Total(inputs) = input_total /\ Total(outputs) = output_total
    BY <1>2 DEF MoneyInv, TotalsInv, Total
  <1>4. outputs \in Seq(Outputs) /\ \A i \in DOMAIN outputs : outputs[i] \in Outputs
    BY DEF PsbtInv, TypeOK
  <1>5. \A i \in DOMAIN outputs : outputs[i].value \in Nat
    BY <1>4 DEF Outputs
  <1>6. Total(outputs) \in Nat
    BY <1>4, <1>5, TotalType
  <1> QED  BY <1>3, <1>6 DEF PsbtInv, TypeOK

\* The fee that is reviewed is what the inputs exceed the outputs by, whatever
\* their number and the order of the records, and it is within both limits.
THEOREM ReviewTellsTheFee == Spec => []ReviewIsTrue
  <1>1. PsbtInv /\ MoneyInv => ReviewIsTrue
    <2> SUFFICES ASSUME PsbtInv, MoneyInv, verdict = "Ok"
                 PROVE  /\ fee + Total(outputs) = Total(inputs)
                        /\ fee <= MaxFee /\ fee <= MaxFeeRate * estimated_vbytes
      BY DEF ReviewIsTrue
    <2>1. fee = input_total - output_total /\ FeePolicy(fee, estimated_vbytes)
      BY DEF MoneyInv, AcceptedInv
    <2>2. fee + Total(outputs) = Total(inputs)
      BY <2>1, AllCounted
    <2> QED  BY <2>1, <2>2 DEF FeePolicy
  <1> QED  BY <1>1, MoneyIsCounted, Invariance, PTL

-----------------------------------------------------------------------------
(* Sizes *)

\* What the fee rate is held against and what the writer produces have the same
\* sizes but for the witness, where the estimate has one byte more per input.
LEMMA Sizes ==
    ASSUME NEW ins \in Seq(Inputs), NEW outs \in Seq(Outputs),
           \A i \in DOMAIN outs : HasAddress(outs[i].script)
    PROVE  /\ SignedBase(ins, outs) = stripped_size(ins, outs)
           /\ SignedBase(ins, outs) \in Nat
           /\ SignedBase(ins, outs) <= 10 + 64 * Len(ins) + 34 * Len(outs)
  <1> DEFINE spent == [i \in DOMAIN ins |->
          32 + 4 + 1 + 4 + IF ins[i].spend_type = "NestedP2shP2wpkh" THEN 1 + 22 ELSE 0]
             sized == [i \in DOMAIN ins |-> InputSize(ins[i])]
             paid == [i \in DOMAIN outs |-> 8 + 1 + ScriptSize[outs[i].script.kind]]
             paying == [i \in DOMAIN outs |-> 9 + ScriptSize[outs[i].script.kind]]
  <1>1. DOMAIN ins = 1 .. Len(ins) /\ Len(ins) \in Nat
        /\ DOMAIN outs = 1 .. Len(outs) /\ Len(outs) \in Nat
    OBVIOUS
  <1>2. ASSUME NEW i \in DOMAIN ins
        PROVE  spent[i] \in Nat /\ spent[i] = sized[i] /\ spent[i] <= 64
    BY DEF InputSize
  <1>3. ASSUME NEW i \in DOMAIN outs
        PROVE  paid[i] \in Nat /\ paid[i] = paying[i] /\ paid[i] <= 34
    <2>1. outs[i].script.kind \in {"P2wpkh", "P2sh", "P2pkh"}
      BY DEF HasAddress, ScriptSize
    <2>2. ScriptSize[outs[i].script.kind] \in {22, 23, 25}
      BY <2>1 DEF ScriptSize
    <2>3. PICK size \in {22, 23, 25} : size = ScriptSize[outs[i].script.kind]
      BY <2>2
    <2>4. paid[i] = 8 + 1 + size /\ paying[i] = 9 + size
      BY ONLY <2>3, i \in DOMAIN outs, Zenon
    <2> HIDE DEF paid, paying
    <2> QED
      BY ONLY <2>4, size \in {22, 23, 25}
  <1>4. spent = sized
    BY <1>2
  <1>5. paid = paying
    BY <1>3
  <1>6. DOMAIN spent = DOMAIN ins /\ DOMAIN paid = DOMAIN outs
    OBVIOUS
  <1>7. /\ SignedBase(ins, outs) = 4 + 1 + 1 + 4 + SumFunction(spent) + SumFunction(paid)
        /\ stripped_size(ins, outs) = 10 + SumFunction(sized) + SumFunction(paying)
    BY DEF SignedBase, stripped_size
  <1> HIDE DEF spent, sized, paid, paying
  <1>8. SumFunction(spent) \in Nat /\ SumFunction(spent) <= 64 * Len(ins)
    <2>1. IsFiniteSet(1 .. Len(ins)) /\ Cardinality(1 .. Len(ins)) = Len(ins)
      BY <1>1, UpTo
    <2> QED  BY <1>1, <1>2, <1>6, <2>1, SumType, SumBound DEF SumFunction
  <1>9. SumFunction(paid) \in Nat /\ SumFunction(paid) <= 34 * Len(outs)
    <2>1. IsFiniteSet(1 .. Len(outs)) /\ Cardinality(1 .. Len(outs)) = Len(outs)
      BY <1>1, UpTo
    <2> QED  BY <1>1, <1>3, <1>6, <2>1, SumType, SumBound DEF SumFunction
  <1> QED  BY <1>1, <1>4, <1>5, <1>7, <1>8, <1>9

\* The size the fee rate of an accepted request is computed from covers the signed
\* transaction, for every mixture of inputs and outputs.
THEOREM FeeRateIsOfTheWholeSize == Spec => []EstimateCovers
  <1>1. PsbtInv /\ MoneyInv => EstimateCovers
    <2> SUFFICES ASSUME PsbtInv, MoneyInv, verdict = "Ok"
                 PROVE  estimated_vbytes >= SignedVsize(inputs, outputs)
      BY DEF EstimateCovers
    <2> DEFINE base == SignedBase(inputs, outputs)
    <2>1. inputs \in Seq(Inputs) /\ outputs \in Seq(Outputs) /\ Len(inputs) \in Nat
      BY DEF PsbtInv, TypeOK
    <2>2. base = stripped_size(inputs, outputs) /\ base \in Nat
      BY <2>1, Sizes DEF MoneyInv, LimitInv
    <2>3. estimated_vbytes = (4 * base + 2 + 109 * Len(inputs) + 3) \div 4
      BY <2>2 DEF MoneyInv, AcceptedInv, EstimatedVbytes
    <2>4. SignedVsize(inputs, outputs) = (4 * base + (2 + Len(inputs) * 108) + 3) \div 4
      BY <2>1 DEF SignedVsize, SignedWitness, MaxSignature
    <2>5. 4 * base + 2 + 109 * Len(inputs) + 3 >= 4 * base + (2 + Len(inputs) * 108) + 3
      BY <2>1, <2>2
    <2>6. \A m, n \in Nat : m >= n => m \div 4 >= n \div 4
      OBVIOUS
    <2> HIDE DEF base
    <2>7. /\ 4 * base + 2 + 109 * Len(inputs) + 3 \in Nat
          /\ 4 * base + (2 + Len(inputs) * 108) + 3 \in Nat
      BY <2>1, <2>2
    <2> QED  BY <2>3, <2>4, <2>5, <2>6, <2>7
  <1> QED  BY <1>1, MoneyIsCounted, Invariance, PTL

\* The limits of the counts keep what is written within the buffer.
LEMMA FitsTheBuffer ==
    ASSUME PsbtInv, MoneyInv
    PROVE  SignedBase(inputs, outputs) + SignedWitness(inputs) <= MaxTransactionBytes
  <1>1. inputs \in Seq(Inputs) /\ outputs \in Seq(Outputs)
        /\ Len(inputs) \in Nat /\ Len(outputs) \in Nat
    BY DEF PsbtInv, TypeOK
  <1>2. SignedBase(inputs, outputs) \in Nat
        /\ SignedBase(inputs, outputs) <= 10 + 64 * Len(inputs) + 34 * Len(outputs)
    BY <1>1, Sizes DEF MoneyInv, LimitInv
  <1>3. SignedWitness(inputs) = 2 + Len(inputs) * 108
    BY <1>1 DEF SignedWitness, MaxSignature
  <1>4. Len(inputs) <= MaxInputs /\ Len(outputs) <= MaxOutputs
        /\ MaxInputs \in Nat /\ MaxOutputs \in Nat /\ MaxTransactionBytes \in Nat
    BY RequestAssumption DEF MoneyInv, LimitInv
  <1>5. 10 + MaxInputs * 64 + MaxOutputs * 34 + 2 + MaxInputs * 108 <= MaxTransactionBytes
    BY <1>4, BufferAssumption DEF MaxSignature
  <1> QED  BY <1>1, <1>2, <1>3, <1>4, <1>5

\* What the parser accepts record by record, the signer accepts as a whole: the
\* wallet a PSBT was parsed for can sign every request that is shown to its user.
THEOREM AcceptedIsSignable == Spec => []SignableByItsWallet
  <1>1. PsbtInv /\ SpendInv /\ MoneyInv => SignableByItsWallet
    <2> SUFFICES ASSUME PsbtInv, SpendInv, MoneyInv, verdict = "Ok"
                 PROVE  bitcoin_sign_request(request, master)
      BY DEF SignableByItsWallet
    <2>1. /\ request.inputs = inputs /\ request.outputs = outputs
          /\ request.input_total = input_total /\ request.output_total = output_total
          /\ request.fee = fee /\ request.estimated_vbytes = estimated_vbytes
      BY DEF request
    <2>2. inputs # <<>> /\ outputs # <<>>
      <3>1. Len(inputs) > 0 /\ Len(outputs) > 0
        BY DEF PsbtInv, PlaceInv
      <3>2. Len(<<>>) = 0
        OBVIOUS
      <3> QED  BY <3>1, <3>2
    <2>3. ASSUME NEW i \in DOMAIN inputs
          PROVE  /\ inputs[i].value <= MaxSupply /\ path_matches_spend_type(inputs[i])
                 /\ SpendsByKey(inputs[i]) /\ KeyMatches(inputs[i], master)
      <3>1. Past(i)
        BY DEF PsbtInv, PlaceInv, Past
      <3>2. Spendable(inputs[i])
        BY <3>1 DEF SpendInv
      <3>3. KeyMatches(inputs[i], master)
        BY <3>1 DEF PsbtInv, KeyInv, KeyMatches
      <3> QED  BY <3>2, <3>3 DEF Spendable, MoneyInv, LimitInv
    <2>4. Total(inputs) < WordMod /\ Total(outputs) < WordMod
      BY AllCounted DEF PsbtInv, TypeOK
    <2>5. /\ Total(inputs) >= Total(outputs)
          /\ input_total = Total(inputs) /\ output_total = Total(outputs)
          /\ fee = Total(inputs) - Total(outputs)
      BY AllCounted DEF MoneyInv, AcceptedInv
    <2>6. estimated_vbytes = EstimatedVbytes(inputs, outputs) /\ FeePolicy(fee, estimated_vbytes)
      BY DEF MoneyInv, AcceptedInv
    <2>7. /\ Len(inputs) <= MaxInputs /\ Len(outputs) <= MaxOutputs
          /\ \A i \in DOMAIN outputs : outputs[i].value <= MaxSupply /\ HasAddress(outputs[i].script)
      BY DEF MoneyInv, LimitInv
    <2> QED
      BY <2>1, <2>2, <2>3, <2>4, <2>5, <2>6, <2>7, FitsTheBuffer DEF bitcoin_sign_request
  <1> QED  BY <1>1, MoneyIsCounted, SpendInvariance, Invariance, PTL

-----------------------------------------------------------------------------
(* Which input maps are accepted *)

\* What a record that was accepted for wallet w has left in the input and in redeem.
Left(item, input, w, redeem) ==
    \/ /\ item.type = "Utxo" /\ item.value <= MaxSupply /\ input.value = item.value
       /\ \/ /\ item.script.kind = "P2wpkh" /\ input.spend_type = "NativeP2wpkh"
             /\ input.witness_key_hash = item.script.hash
          \/ /\ item.script.kind = "P2sh" /\ input.spend_type = "NestedP2shP2wpkh"
             /\ input.p2sh_hash = item.script.hash
    \/ /\ item.type = "Derivation" /\ item.fingerprint = Fingerprint[w]
       /\ valid_bitcoin_single_sig_path(item.path) /\ item.key = derive(w, item.path)
       /\ input.path = item.path /\ input.public_key = item.key
    \/ item.type = "Sighash" /\ item.all
    \/ item.type = "Redeem" /\ item.script.kind = "P2wpkh" /\ redeem = item.script

\* The records read of the current input map: all accepted, no two of a type, and
\* none overwritten.
SeenInv ==
    Reading("input") =>
        /\ seen \in Seq(InputItems)
        /\ \A i, j \in DOMAIN seen : seen[i].type = seen[j].type => i = j
        /\ \A i \in DOMAIN seen : Left(seen[i], inputs[index], master, redeem_script)
        /\ Has("Redeem") \/ redeem_script = None

\* What redeem_script is after a record.
RedeemAfter(item, redeem) == IF item.type = "Redeem" THEN item.script ELSE redeem

\* A record that is accepted leaves what it says.
LEMMA LeftByItself ==
    ASSUME NEW input \in Inputs, NEW item \in InputItems, InputItemAccepted(item)
    PROVE  Left(item, InputWith(input, item), master, RedeemAfter(item, redeem_script))
  <1>1. CASE item.type = "Utxo" /\ item.script.kind = "P2wpkh"
    <2>1. InputWith(input, item) = [input EXCEPT !.value = item.value,
               !.spend_type = "NativeP2wpkh", !.witness_key_hash = item.script.hash]
      BY <1>1 DEF InputWith
    <2> QED  BY <1>1, <2>1 DEF Left, Inputs, InputItemAccepted
  <1>2. CASE item.type = "Utxo" /\ item.script.kind = "P2sh"
    <2>1. InputWith(input, item) = [input EXCEPT !.value = item.value,
               !.spend_type = "NestedP2shP2wpkh", !.p2sh_hash = item.script.hash]
      BY <1>2 DEF InputWith
    <2> QED  BY <1>2, <2>1 DEF Left, Inputs, InputItemAccepted
  <1>3. CASE item.type = "Derivation"
    <2>1. InputWith(input, item) = [input EXCEPT !.path = item.path, !.public_key = item.key]
      BY <1>3 DEF InputWith
    <2> QED  BY <1>3, <2>1 DEF Left, Inputs, InputItemAccepted, DerivationAccepted
  <1>4. CASE item.type \in {"Sighash", "Redeem"}
    BY <1>4 DEF Left, InputItemAccepted, RedeemAfter
  <1> QED  BY <1>1, <1>2, <1>3, <1>4 DEF InputItemAccepted

\* Another record leaves what the earlier ones left, where it is of another type.
LEMMA LeftKept ==
    ASSUME NEW input \in Inputs, NEW item \in InputItems, InputItemAccepted(item),
           NEW old, NEW w, Left(old, input, w, redeem_script), item.type # old.type
    PROVE  Left(old, InputWith(input, item), w, RedeemAfter(item, redeem_script))
  <1>1. CASE item.type = "Utxo"
    <2>1. \/ InputWith(input, item) = [input EXCEPT !.value = item.value,
               !.spend_type = "NativeP2wpkh", !.witness_key_hash = item.script.hash]
          \/ InputWith(input, item) = [input EXCEPT !.value = item.value,
               !.spend_type = "NestedP2shP2wpkh", !.p2sh_hash = item.script.hash]
      BY <1>1 DEF InputWith, InputItemAccepted
    <2>2. /\ InputWith(input, item).path = input.path
          /\ InputWith(input, item).public_key = input.public_key
      BY <2>1 DEF Inputs
    <2> QED  BY <1>1, <2>2 DEF Left, RedeemAfter
  <1>2. CASE item.type = "Derivation"
    <2>1. InputWith(input, item) = [input EXCEPT !.path = item.path, !.public_key = item.key]
      BY <1>2 DEF InputWith
    <2>2. /\ InputWith(input, item).value = input.value
          /\ InputWith(input, item).spend_type = input.spend_type
          /\ InputWith(input, item).witness_key_hash = input.witness_key_hash
          /\ InputWith(input, item).p2sh_hash = input.p2sh_hash
      BY <2>1 DEF Inputs
    <2> QED  BY <1>2, <2>2 DEF Left, RedeemAfter
  <1>3. CASE item.type \in {"Sighash", "Redeem"}
    <2>1. InputWith(input, item) = input
      BY <1>3 DEF InputWith
    <2> QED  BY <1>3, <2>1 DEF Left, RedeemAfter
  <1> QED  BY <1>1, <1>2, <1>3 DEF InputItemAccepted

\* A map has no record when it is entered.
LEMMA SeenEmpty ==
    ASSUME NEW where, NEW i, Enter(where, i)
    PROVE  SeenInv'
  <1>1. seen' = <<>> /\ redeem_script' = None
    BY DEF Enter
  <1>2. <<>> \in Seq(InputItems) /\ DOMAIN <<>> = {}
    OBVIOUS
  <1> QED  BY <1>1, <1>2 DEF SeenInv

\* One more record of an input map.
LEMMA SeenInputItem ==
    ASSUME PsbtInv, SeenInv, NEW item \in InputItems, InputItem(item)
    PROVE  SeenInv'
  <1>1. CASE ~InputItemAccepted(item)
    BY <1>1 DEF InputItem, Refuse, SeenInv, Reading
  <1>2. CASE InputItemAccepted(item)
    <2> DEFINE input == inputs[index]
               new == InputWith(input, item)
               redeem == RedeemAfter(item, redeem_script)
    <2>1. /\ inputs' = [inputs EXCEPT ![index] = new] /\ redeem_script' = redeem
          /\ seen' = Append(seen, item) /\ UNCHANGED <<master, stage, index, verdict>>
          /\ Reading("input") /\ ~Has(item.type)
      BY <1>2 DEF InputItem, InputItemAccepted, RedeemAfter
    <2>2. index \in DOMAIN inputs /\ inputs \in Seq(Inputs) /\ input \in Inputs
      BY <2>1 DEF PsbtInv, TypeOK, PlaceInv, Reading
    <2>3. inputs'[index'] = new
      BY <2>1, <2>2
    <2>4. /\ seen \in Seq(InputItems)
          /\ \A i, j \in DOMAIN seen : seen[i].type = seen[j].type => i = j
          /\ \A i \in DOMAIN seen : Left(seen[i], input, master, redeem_script)
          /\ Has("Redeem") \/ redeem_script = None
          /\ \A i \in DOMAIN seen : seen[i].type # item.type
      BY <2>1 DEF SeenInv, Has
    <2>5. /\ seen' \in Seq(InputItems) /\ DOMAIN seen' = DOMAIN seen \cup {Len(seen) + 1}
          /\ Len(seen) + 1 \notin DOMAIN seen
          /\ seen'[Len(seen) + 1] = item /\ \A i \in DOMAIN seen : seen'[i] = seen[i]
      BY <2>1, <2>4
    <2>6. Left(item, new, master, redeem)
      BY <1>2, <2>2, LeftByItself
    <2>7. \A i \in DOMAIN seen : Left(seen[i], new, master, redeem)
      BY <1>2, <2>2, <2>4, LeftKept
    <2> HIDE DEF new, redeem, input
    <2>8. \A i \in DOMAIN seen' : Left(seen'[i], new, master, redeem)
      BY <2>5, <2>6, <2>7
    <2>9. \A i, j \in DOMAIN seen' : seen'[i].type = seen'[j].type => i = j
      BY <2>4, <2>5
    <2>10. Has("Redeem")' \/ redeem_script' = None
      <3>1. CASE item.type = "Redeem"
        BY <2>5, <3>1 DEF Has
      <3>2. CASE item.type # "Redeem"
        BY <2>1, <2>4, <2>5, <3>2 DEF Has, RedeemAfter, redeem
      <3> QED  BY <3>1, <3>2
    <2>11. \A i \in DOMAIN seen' : Left(seen'[i], inputs'[index'], master', redeem_script')
      BY <2>1, <2>3, <2>8
    <2> QED  BY <2>5, <2>9, <2>10, <2>11 DEF SeenInv, Left, valid_bitcoin_single_sig_path, derive
  <1> QED  BY <1>1, <1>2

\* Every step keeps the account of the records true.
LEMMA SeenStep ==
    ASSUME PsbtInv, SeenInv, [Next]_vars
    PROVE  SeenInv'
  <1>1. ASSUME NEW read, Refuse(read) PROVE SeenInv'
    BY <1>1 DEF Refuse, SeenInv, Reading
  <1>2. ASSUME NEW w \in Wallets, bitcoin_parse_psbt(w) PROVE SeenInv'
    BY <1>2, SeenEmpty DEF bitcoin_parse_psbt
  <1>3. ASSUME NEW tx \in UnsignedTxs, UnsignedTx(tx) PROVE SeenInv'
    BY <1>1, <1>3 DEF UnsignedTx, SeenInv, Reading
  <1>4. CASE GlobalOther \/ GlobalEnd
    BY <1>1, <1>4, SeenEmpty DEF GlobalOther, GlobalEnd
  <1>5. ASSUME NEW item \in InputItems, InputItem(item) PROVE SeenInv'
    BY <1>5, SeenInputItem
  <1>6. CASE InputEnd
    BY <1>1, <1>6, SeenEmpty DEF InputEnd
  <1>7. ASSUME NEW item \in OutputItems, OutputItem(item) PROVE SeenInv'
    BY <1>1, <1>7 DEF OutputItem, SeenInv, Reading
  <1>8. CASE OutputEnd
    BY <1>8, SeenEmpty DEF OutputEnd
  <1>9. ASSUME NEW trailing \in BOOLEAN, Finish(trailing) PROVE SeenInv'
    BY <1>1, <1>9 DEF Finish, SeenInv, Reading
  <1>10. CASE UNCHANGED vars
    BY <1>10 DEF vars, requestVars, SeenInv, Reading, Has, Left, valid_bitcoin_single_sig_path, derive
  <1> QED
    BY <1>2, <1>3, <1>4, <1>5, <1>6, <1>7, <1>8, <1>9, <1>10 DEF Next

\* The records of a map by their type.
Of(items, type) == {i \in DOMAIN items : items[i].type = type}

\* What a set has at most one of is one thing.
LEMMA AtMostOne ==
    ASSUME NEW S, IsFiniteSet(S), Cardinality(S) <= 1, NEW x \in S, NEW y \in S
    PROVE  x = y
  <1>1. IsFiniteSet(S \ {x}) /\ Cardinality(S \ {x}) = Cardinality(S) - 1 /\ Cardinality(S) \in Nat
    BY FS_RemoveElement, FS_CardinalityType
  <1>2. Cardinality(S \ {x}) \in Nat
    BY <1>1, FS_CardinalityType
  <1>3. Cardinality(S \ {x}) = 0
    BY <1>1, <1>2
  <1>4. S \ {x} = {}
    BY <1>1, <1>3, FS_EmptySet
  <1> QED  BY <1>4

\* The records of one type are finitely many, and where no two are of a type there is
\* one or none.
LEMMA RecordsOf ==
    ASSUME NEW V, NEW items \in Seq(V), NEW type
    PROVE  /\ IsFiniteSet(Of(items, type))
           /\ (\A i, j \in DOMAIN items : items[i].type = items[j].type => i = j) =>
                  /\ Cardinality(Of(items, type)) <= 1
                  /\ Of(items, type) # {} => Cardinality(Of(items, type)) = 1
           /\ Cardinality(Of(items, type)) = 1 => Of(items, type) # {}
  <1>1. IsFiniteSet(DOMAIN items)
    <2>1. DOMAIN items = 1 .. Len(items) /\ Len(items) \in Nat
      OBVIOUS
    <2> QED  BY <2>1, FS_Interval
  <1>2. IsFiniteSet(Of(items, type))
    BY <1>1, FS_Subset DEF Of
  <1>3. Cardinality({}) = 0
    BY FS_EmptySet
  <1>4. ASSUME \A i, j \in DOMAIN items : items[i].type = items[j].type => i = j,
               NEW i \in Of(items, type)
        PROVE  Cardinality(Of(items, type)) = 1
    <2>1. Of(items, type) = {i}
      BY <1>4 DEF Of
    <2> QED  BY <2>1, FS_Singleton
  <1>5. CASE Of(items, type) = {}
    BY <1>2, <1>3, <1>5
  <1>6. CASE Of(items, type) # {}
    <2>1. PICK i \in Of(items, type) : TRUE
      BY <1>6
    <2> QED  BY <1>2, <1>4, <1>6, <2>1
  <1> QED  BY <1>5, <1>6

\* The property's definition in terms of Of.
LEMMA WellFormedIs ==
    ASSUME NEW items, NEW w
    PROVE  WellFormedInput(items, w) <=>
        /\ \A i \in DOMAIN items : items[i].type \in {"Utxo", "Derivation", "Sighash", "Redeem"}
        /\ Cardinality(Of(items, "Utxo")) = 1 /\ Cardinality(Of(items, "Derivation")) = 1
        /\ Cardinality(Of(items, "Sighash")) <= 1 /\ Cardinality(Of(items, "Redeem")) <= 1
        /\ \A i \in Of(items, "Sighash") : items[i].all
        /\ \A u \in Of(items, "Utxo"), d \in Of(items, "Derivation") :
               LET key == derive(w, items[d].path)
               IN  /\ items[u].value <= MaxSupply
                   /\ items[d].key = key /\ items[d].fingerprint = Fingerprint[w]
                   /\ items[d].path.shape /\ items[d].path.branch <= 1
                   /\ \/ /\ items[d].path.purpose = 84
                         /\ items[u].script = P2wpkh(key) /\ Of(items, "Redeem") = {}
                      \/ /\ items[d].path.purpose = 49
                         /\ items[u].script = NestedScript(key)
                         /\ \E r \in Of(items, "Redeem") : items[r].script = P2wpkh(key)
  BY Zenon DEF WellFormedInput, Of

\* The amount of the current input never brings the total to the word's end.
LEMMA TotalFits ==
    ASSUME PsbtInv, MoneyInv, Reading("input")
    PROVE  input_total + inputs[index].value < WordMod
  <1> DEFINE more == [i \in DOMAIN inputs |-> IF Past(i) \/ i = index THEN inputs[i].value ELSE 0]
  <1>1. index \in DOMAIN inputs /\ inputs \in Seq(Inputs) /\ stage = "input" /\ index \in Nat
    BY DEF PsbtInv, TypeOK, PlaceInv, Reading
  <1>2. DOMAIN inputs = 1 .. Len(inputs) /\ Len(inputs) \in Nat /\ Len(inputs) <= MaxInputs
    BY <1>1 DEF MoneyInv, LimitInv
  <1>3. IsFiniteSet(DOMAIN inputs) /\ Cardinality(DOMAIN inputs) = Len(inputs)
    BY <1>2, UpTo
  <1>4. \A i \in DOMAIN inputs : inputs[i].value \in Nat /\ inputs[i].value <= MaxSupply
    <2>1. \A i \in DOMAIN inputs : inputs[i] \in Inputs
      BY <1>1
    <2> QED  BY <2>1 DEF Inputs, MoneyInv, LimitInv
  <1>5. MaxSupply \in Nat /\ MaxInputs \in Nat /\ WordMod \in Nat /\ MaxInputs * MaxSupply < WordMod
    BY RequestAssumption
  <1>6. \A i \in DOMAIN inputs : /\ more[i] \in Nat /\ more[i] <= MaxSupply /\ Counted[i] \in Nat
                                 /\ i # index => more[i] = Counted[i]
    BY <1>4, <1>5 DEF Counted
  <1>7. Counted[index] = 0 /\ more[index] = inputs[index].value /\ DOMAIN Counted = DOMAIN inputs
    BY <1>1 DEF Counted, Past
  <1> HIDE DEF more
  <1>8. SumFunctionOnSet(more, DOMAIN inputs) + Counted[index]
            = SumFunctionOnSet(Counted, DOMAIN inputs) + more[index]
    <2>1. \A i \in DOMAIN inputs : Counted[i] \in Nat /\ more[i] \in Nat
      BY <1>6
    <2>2. \A i \in DOMAIN inputs \ {index} : more[i] = Counted[i]
      BY <1>6
    <2>3. index \in DOMAIN inputs /\ IsFiniteSet(DOMAIN inputs)
      BY ONLY <1>1, <1>3
    <2> QED
      BY ONLY <2>1, <2>2, <2>3, SumUpdate
  <1>9. SumFunctionOnSet(Counted, DOMAIN inputs) = input_total
    BY <1>7 DEF MoneyInv, TotalsInv, SumFunction
  <1>10. SumFunctionOnSet(more, DOMAIN inputs) <= MaxSupply * Len(inputs)
         /\ SumFunctionOnSet(more, DOMAIN inputs) \in Nat
    BY <1>3, <1>5, <1>6, SumBound, SumType
  <1>11. MaxSupply * Len(inputs) <= MaxInputs * MaxSupply
    BY <1>2, <1>5
  <1>12. MaxSupply * Len(inputs) \in Nat /\ MaxInputs * MaxSupply \in Nat
    BY <1>2, <1>5
  <1>13. input_total \in Nat
    BY DEF PsbtInv, TypeOK
  <1>14. SumFunctionOnSet(more, DOMAIN inputs) = input_total + inputs[index].value
    BY <1>1, <1>4, <1>7, <1>8, <1>9, <1>10, <1>13
  <1>15. SumFunctionOnSet(more, DOMAIN inputs) <= MaxInputs * MaxSupply
    BY <1>10, <1>11, <1>12
  <1>16. SumFunctionOnSet(more, DOMAIN inputs) < WordMod
    BY <1>5, <1>10, <1>12, <1>15
  <1> QED  BY <1>14, <1>16

\* A record that is refused makes the map one that is not well-formed, whatever follows
\* from the records before.
LEMMA RefusedItem ==
    ASSUME SeenInv, Reading("input"), NEW item \in InputItems,
           WellFormedInput(seen \o <<item>>, master)
    PROVE  InputItemAccepted(item)
  <1> DEFINE items == seen \o <<item>>
             last == Len(seen) + 1
  <1>1. seen \in Seq(InputItems)
    BY DEF SeenInv
  <1>2. /\ items \in Seq(InputItems) /\ last \in DOMAIN items /\ items[last] = item
        /\ last \notin DOMAIN seen
        /\ \A i \in DOMAIN seen : i \in DOMAIN items /\ items[i] = seen[i]
    BY <1>1
  <1> HIDE DEF items, last
  <1>3. WellFormedInput(items, master)
    BY DEF items
  <1>4. item.type \in {"Utxo", "Derivation", "Sighash", "Redeem"}
        /\ \A type \in {"Utxo", "Derivation", "Sighash", "Redeem"} : Cardinality(Of(items, type)) <= 1
    BY <1>2, <1>3, WellFormedIs
  <1>5. ~Has(item.type)
    <2> SUFFICES ASSUME NEW i \in DOMAIN seen, seen[i].type = item.type PROVE FALSE
      BY DEF Has
    <2>1. i \in Of(items, item.type) /\ last \in Of(items, item.type)
      BY <1>2 DEF Of
    <2>2. IsFiniteSet(Of(items, item.type)) /\ Cardinality(Of(items, item.type)) <= 1
      BY <1>2, <1>4, RecordsOf
    <2>3. i = last
      BY <2>1, <2>2, AtMostOne
    <2> QED  BY <1>2, <2>3
  <1>6. PICK u \in Of(items, "Utxo"), d \in Of(items, "Derivation") : TRUE
    <2>1. Cardinality(Of(items, "Utxo")) = 1 /\ Cardinality(Of(items, "Derivation")) = 1
      BY <1>3, WellFormedIs
    <2>2. Of(items, "Utxo") # {} /\ Of(items, "Derivation") # {}
      BY <1>2, <2>1, RecordsOf
    <2> QED  BY <2>2
  <1> DEFINE key == derive(master, items[d].path)
  <1>7. /\ items[u].value <= MaxSupply
        /\ items[d].key = key /\ items[d].fingerprint = Fingerprint[master]
        /\ items[d].path.shape /\ items[d].path.branch <= 1
        /\ \/ /\ items[d].path.purpose = 84
              /\ items[u].script = P2wpkh(key) /\ Of(items, "Redeem") = {}
           \/ /\ items[d].path.purpose = 49
              /\ items[u].script = NestedScript(key)
              /\ \E r \in Of(items, "Redeem") : items[r].script = P2wpkh(key)
    BY <1>3, <1>6, WellFormedIs
  <1>8. last \in Of(items, item.type)
    BY <1>2 DEF Of
  <1>9. \A type \in {"Utxo", "Derivation", "Sighash", "Redeem"} :
            \A i, j \in Of(items, type) : i = j
    BY <1>2, <1>4, RecordsOf, AtMostOne
  <1> HIDE DEF key
  <1>10. CASE item.type = "Utxo"
    <2>1. items[u] = item
      BY <1>2, <1>6, <1>8, <1>9, <1>10
    <2>2. item.script.kind \in {"P2wpkh", "P2sh"}
      BY <1>7, <2>1 DEF P2wpkh, NestedScript, P2sh
    <2> QED  BY <1>5, <1>7, <1>10, <2>1, <2>2 DEF InputItemAccepted
  <1>11. CASE item.type = "Derivation"
    <2>1. items[d] = item
      BY <1>2, <1>6, <1>8, <1>9, <1>11
    <2>2. DerivationAccepted(item)
      BY <1>7, <2>1 DEF DerivationAccepted, valid_bitcoin_single_sig_path, key
    <2> QED  BY <1>5, <1>11, <2>2 DEF InputItemAccepted
  <1>12. CASE item.type = "Sighash"
    <2>1. item.all
      BY <1>2, <1>3, <1>8, <1>12, WellFormedIs
    <2> QED  BY <1>5, <1>12, <2>1 DEF InputItemAccepted
  <1>13. CASE item.type = "Redeem"
    <2>1. PICK r \in Of(items, "Redeem") : items[r].script = P2wpkh(key)
      BY <1>7, <1>8, <1>13
    <2>2. items[r] = item
      BY <1>2, <1>8, <1>9, <1>13
    <2> QED  BY <1>5, <1>13, <2>1, <2>2 DEF InputItemAccepted, P2wpkh
  <1> QED  BY <1>4, <1>10, <1>11, <1>12, <1>13

\* What a record of a map that is read has left, by its type.
LEMMA LeftBy ==
    ASSUME SeenInv, Reading("input"), NEW i \in DOMAIN seen
    PROVE  LET item == seen[i]
               input == inputs[index]
           IN  /\ item \in InputItems /\ item.type \in {"Utxo", "Derivation", "Sighash", "Redeem"}
               /\ item.type = "Utxo" => item.value <= MaxSupply /\ input.value = item.value
               /\ item.type = "Utxo" =>
                      \/ /\ item.script.kind = "P2wpkh" /\ input.spend_type = "NativeP2wpkh"
                         /\ input.witness_key_hash = item.script.hash
                      \/ /\ item.script.kind = "P2sh" /\ input.spend_type = "NestedP2shP2wpkh"
                         /\ input.p2sh_hash = item.script.hash
               /\ item.type = "Derivation" =>
                      /\ item.fingerprint = Fingerprint[master]
                      /\ valid_bitcoin_single_sig_path(item.path)
                      /\ item.key = derive(master, item.path)
                      /\ input.path = item.path /\ input.public_key = item.key
               /\ item.type = "Sighash" => item.all
               /\ item.type = "Redeem" => item.script.kind = "P2wpkh" /\ redeem_script = item.script
  <1>1. seen \in Seq(InputItems) /\ Left(seen[i], inputs[index], master, redeem_script)
    BY DEF SeenInv
  <1>2. seen[i] \in InputItems
    BY <1>1
  <1> QED  BY <1>1, <1>2 DEF Left

\* A well-formed map passes every check at its end.
LEMMA RefusedEnd ==
    ASSUME PsbtInv, SeenInv, Reading("input"), WellFormedInput(seen, master)
    PROVE  /\ Has("Utxo") /\ Has("Derivation")
           /\ RedeemFits(inputs[index]) /\ verify_input_script(Closed(inputs[index]))
  <1> DEFINE input == inputs[index]
  <1>1. seen \in Seq(InputItems)
    BY DEF SeenInv
  <1>2. PICK u \in Of(seen, "Utxo"), d \in Of(seen, "Derivation") : TRUE
    <2>1. Cardinality(Of(seen, "Utxo")) = 1 /\ Cardinality(Of(seen, "Derivation")) = 1
      BY WellFormedIs
    <2>2. Of(seen, "Utxo") # {} /\ Of(seen, "Derivation") # {}
      BY <1>1, <2>1, RecordsOf
    <2> QED  BY <2>2
  <1>3. u \in DOMAIN seen /\ seen[u].type = "Utxo" /\ d \in DOMAIN seen /\ seen[d].type = "Derivation"
    BY <1>2 DEF Of
  <1>4. Has("Utxo") /\ Has("Derivation")
    BY <1>3 DEF Has
  <1> DEFINE key == derive(master, seen[d].path)
  <1>5. \/ /\ seen[d].path.purpose = 84
           /\ seen[u].script = P2wpkh(key) /\ Of(seen, "Redeem") = {}
        \/ /\ seen[d].path.purpose = 49
           /\ seen[u].script = NestedScript(key)
           /\ \E r \in Of(seen, "Redeem") : seen[r].script = P2wpkh(key)
    BY <1>2, WellFormedIs
  <1>6. /\ input.path = seen[d].path /\ input.public_key = key
        /\ valid_bitcoin_single_sig_path(seen[d].path) /\ seen[d].path \in Paths
    BY <1>3, LeftBy, PsbtAssumption
  <1>7. input.path # None
    BY <1>6, RequestAssumption
  <1>8. \/ /\ seen[u].script.kind = "P2wpkh" /\ input.spend_type = "NativeP2wpkh"
           /\ input.witness_key_hash = seen[u].script.hash
        \/ /\ seen[u].script.kind = "P2sh" /\ input.spend_type = "NestedP2shP2wpkh"
           /\ input.p2sh_hash = seen[u].script.hash
    BY <1>3, LeftBy
  <1>9. input \in Inputs
    BY DEF PsbtInv, TypeOK, PlaceInv, Reading
  <1> HIDE DEF key, input
  <1>10. CASE seen[d].path.purpose = 84
    <2>1. seen[u].script = P2wpkh(key) /\ Of(seen, "Redeem") = {}
      BY <1>5, <1>10
    <2>2. input.spend_type = "NativeP2wpkh" /\ input.witness_key_hash = key
      BY <1>8, <2>1 DEF P2wpkh
    <2>3. redeem_script = None
      BY <2>1 DEF Of, Has, SeenInv
    <2>4. Closed(input) = input /\ RedeemFits(input)
      BY <2>2, <2>3 DEF Closed, RedeemFits
    <2>5. verify_input_script(Closed(input))
      BY <1>6, <1>7, <1>10, <2>2, <2>4 DEF verify_input_script, path_matches_spend_type
    <2> QED  BY <1>4, <2>4, <2>5 DEF input
  <1>11. CASE seen[d].path.purpose = 49
    <2>1. seen[u].script = NestedScript(key)
      BY <1>5, <1>11
    <2>2. PICK r \in Of(seen, "Redeem") : seen[r].script = P2wpkh(key)
      BY <1>5, <1>11
    <2>3. input.spend_type = "NestedP2shP2wpkh" /\ input.p2sh_hash = P2wpkh(key)
      BY <1>8, <2>1 DEF NestedScript, P2sh
    <2>4. redeem_script = P2wpkh(key)
      BY <2>2, LeftBy DEF Of
    <2>5. key \in Keys
      BY <1>6 DEF key, derive, Keys, PsbtInv, TypeOK
    <2>6. redeem_script # None /\ redeem_script.hash = key
      BY <2>4, <2>5, RequestAssumption DEF P2wpkh, Keys
    <2>7. RedeemFits(input)
      BY <2>3, <2>4, <2>6 DEF RedeemFits
    <2>8. /\ Closed(input).witness_key_hash = key /\ Closed(input).public_key = key
          /\ Closed(input).path = seen[d].path /\ Closed(input).spend_type = "NestedP2shP2wpkh"
      BY <1>6, <1>9, <2>3, <2>6 DEF Closed, Inputs
    <2>9. verify_input_script(Closed(input))
      BY <1>6, <1>7, <1>11, <2>8 DEF verify_input_script, path_matches_spend_type
    <2> QED  BY <1>4, <2>7, <2>9 DEF input
  <1> QED  BY <1>5, <1>10, <1>11

\* A map that passes the checks at its end was well-formed.
LEMMA AcceptedEnd ==
    ASSUME PsbtInv, SeenInv, Reading("input"), Has("Utxo"), Has("Derivation"),
           RedeemFits(inputs[index]), verify_input_script(Closed(inputs[index]))
    PROVE  WellFormedInput(seen, master)
  <1> DEFINE input == inputs[index]
  <1>1. seen \in Seq(InputItems) /\ \A i, j \in DOMAIN seen : seen[i].type = seen[j].type => i = j
    BY DEF SeenInv
  <1>2. \A i \in DOMAIN seen : seen[i].type \in {"Utxo", "Derivation", "Sighash", "Redeem"}
    BY LeftBy
  <1>3. /\ Cardinality(Of(seen, "Utxo")) = 1 /\ Cardinality(Of(seen, "Derivation")) = 1
        /\ Cardinality(Of(seen, "Sighash")) <= 1 /\ Cardinality(Of(seen, "Redeem")) <= 1
    <2>1. Of(seen, "Utxo") # {} /\ Of(seen, "Derivation") # {}
      BY DEF Has, Of
    <2> QED  BY <1>1, <2>1, RecordsOf
  <1>4. \A i \in Of(seen, "Sighash") : seen[i].all
    BY LeftBy DEF Of
  <1>5. ASSUME NEW u \in Of(seen, "Utxo"), NEW d \in Of(seen, "Derivation")
        PROVE  LET key == derive(master, seen[d].path)
               IN  /\ seen[u].value <= MaxSupply
                   /\ seen[d].key = key /\ seen[d].fingerprint = Fingerprint[master]
                   /\ seen[d].path.shape /\ seen[d].path.branch <= 1
                   /\ \/ /\ seen[d].path.purpose = 84
                         /\ seen[u].script = P2wpkh(key) /\ Of(seen, "Redeem") = {}
                      \/ /\ seen[d].path.purpose = 49
                         /\ seen[u].script = NestedScript(key)
                         /\ \E r \in Of(seen, "Redeem") : seen[r].script = P2wpkh(key)
    <2> DEFINE key == derive(master, seen[d].path)
    <2>1. u \in DOMAIN seen /\ seen[u].type = "Utxo" /\ d \in DOMAIN seen /\ seen[d].type = "Derivation"
      BY <1>5 DEF Of
    <2>2. /\ seen[u].value <= MaxSupply
          /\ seen[d].key = key /\ seen[d].fingerprint = Fingerprint[master]
          /\ seen[d].path.shape /\ seen[d].path.branch <= 1 /\ seen[d].path \in Paths
          /\ input.path = seen[d].path /\ input.public_key = key
      BY <2>1, LeftBy, PsbtAssumption DEF valid_bitcoin_single_sig_path
    <2>3. \/ /\ seen[u].script.kind = "P2wpkh" /\ input.spend_type = "NativeP2wpkh"
             /\ input.witness_key_hash = seen[u].script.hash
          \/ /\ seen[u].script.kind = "P2sh" /\ input.spend_type = "NestedP2shP2wpkh"
             /\ input.p2sh_hash = seen[u].script.hash
      BY <2>1, LeftBy
    <2>4. seen[u].script \in Scripts
      <3>1. seen[u] \in InputItems
        BY <2>1, LeftBy
      <3> QED  BY <2>1, <3>1, PsbtAssumption
    <2>5. input \in Inputs /\ redeem_script \in {P2wpkh(k) : k \in Keys} \cup {None}
      BY DEF PsbtInv, TypeOK, PlaceInv, Reading
    <2>6. verify_input_script(Closed(input)) /\ RedeemFits(input)
      OBVIOUS
    <2> HIDE DEF key, input
    <2>7. CASE input.spend_type = "NativeP2wpkh"
      <3>1. Closed(input) = input /\ redeem_script = None
        BY <2>6, <2>7 DEF Closed, RedeemFits
      <3>2. input.witness_key_hash = key /\ seen[d].path.purpose = 84
        BY <2>2, <2>6, <2>7, <3>1 DEF verify_input_script, path_matches_spend_type
      <3>3. seen[u].script.kind = "P2wpkh" /\ seen[u].script.hash = key
        BY <2>3, <2>7, <3>2
      <3>4. seen[u].script = P2wpkh(key)
        BY <2>4, <3>3 DEF Scripts, P2wpkh
      <3>5. Of(seen, "Redeem") = {}
        <4> SUFFICES ASSUME NEW r \in DOMAIN seen, seen[r].type = "Redeem" PROVE FALSE
          BY DEF Of
        <4>1. seen[r] \in InputItems /\ seen[r].script.kind = "P2wpkh" /\ seen[r].script = None
          BY <3>1, LeftBy
        <4>2. None \in Scripts
          BY <4>1, PsbtAssumption
        <4>3. None \in [kind: {"P2wpkh"}, hash: Keys]
          BY <4>1, <4>2 DEF Scripts
        <4> QED  BY <4>3, RequestAssumption DEF Keys
      <3> QED  BY <2>2, <3>2, <3>4, <3>5 DEF key
    <2>8. CASE input.spend_type = "NestedP2shP2wpkh"
      <3>1. redeem_script # None /\ input.p2sh_hash = redeem_script
        BY <2>6, <2>8 DEF RedeemFits
      <3>2. /\ Closed(input).witness_key_hash = redeem_script.hash
            /\ Closed(input).path = input.path /\ Closed(input).spend_type = input.spend_type
            /\ Closed(input).public_key = input.public_key
        BY <2>5, <2>8 DEF Closed, Inputs
      <3>3. redeem_script.hash = key /\ seen[d].path.purpose = 49
        BY <2>2, <2>6, <2>8, <3>2 DEF verify_input_script, path_matches_spend_type
      <3>4. redeem_script = P2wpkh(key)
        BY <2>5, <3>1, <3>3 DEF P2wpkh
      <3>5. seen[u].script.kind = "P2sh" /\ seen[u].script.hash = P2wpkh(key)
        BY <2>3, <2>8, <3>1, <3>4
      <3>6. seen[u].script = NestedScript(key)
        BY <2>4, <3>5 DEF Scripts, NestedScript, P2sh
      <3>7. PICK r \in DOMAIN seen : seen[r].type = "Redeem"
        BY <3>1 DEF SeenInv, Has
      <3>8. r \in Of(seen, "Redeem") /\ seen[r].script = P2wpkh(key)
        BY <3>4, <3>7, LeftBy DEF Of
      <3> QED  BY <2>2, <3>3, <3>6, <3>8 DEF key
    <2> QED  BY <2>3, <2>7, <2>8
  <1> QED  BY <1>2, <1>3, <1>4, <1>5, WellFormedIs

\* Every input map is accepted exactly when it is well-formed: no order of its records,
\* no record between others and no amount decides otherwise.
THEOREM WellFormedInputsPass == Spec => AcceptsWellFormedInputs
  <1> DEFINE Taken ==
          Reading("input") =>
             /\ <<stage, index>>' # <<stage, index>> => WellFormedInput(seen, master)
             /\ verdict' = "Refused" => ~WellFormedInput(seen', master)
  <1>1. ASSUME PsbtInv, MoneyInv, SeenInv, [Next]_vars PROVE [Taken]_vars
    <2> SUFFICES ASSUME Next, Reading("input") PROVE Taken
      BY <1>1
    <2>1. CASE InputEnd
      <3> DEFINE input == inputs[index]
                 fits == /\ Has("Utxo") /\ Has("Derivation") /\ RedeemFits(input)
                         /\ verify_input_script(Closed(input))
                         /\ input_total + input.value < WordMod
      <3>1. CASE fits
        <4>1. verdict' = verdict
          BY <2>1, <3>1 DEF InputEnd
        <4>2. WellFormedInput(seen, master)
          BY <1>1, <3>1, AcceptedEnd
        <4> QED  BY <4>1, <4>2 DEF Reading
      <3>2. CASE ~fits
        <4>1. seen' = seen \o <<>> /\ UNCHANGED <<stage, index>>
          BY <2>1, <3>2 DEF InputEnd, Refuse
        <4>2. seen' = seen
          BY <1>1, <4>1 DEF SeenInv
        <4>3. ~WellFormedInput(seen, master)
          BY <1>1, <3>2, RefusedEnd, TotalFits
        <4> QED  BY <4>1, <4>2, <4>3
      <3> QED  BY <3>1, <3>2
    <2>2. ASSUME NEW item \in InputItems, InputItem(item) PROVE Taken
      <3>1. CASE InputItemAccepted(item)
        BY <2>2, <3>1 DEF InputItem, Reading
      <3>2. CASE ~InputItemAccepted(item)
        <4>1. seen' = seen \o <<item>> /\ UNCHANGED <<stage, index>>
          BY <2>2, <3>2 DEF InputItem, Refuse
        <4>2. ~WellFormedInput(seen \o <<item>>, master)
          BY <1>1, <3>2, RefusedItem
        <4> QED  BY <4>1, <4>2
      <3> QED  BY <3>1, <3>2
    <2> QED
      BY <2>1, <2>2 DEF Next, Reading, bitcoin_parse_psbt, UnsignedTx, GlobalOther, GlobalEnd,
                        OutputItem, OutputEnd, Finish
  <1>2. Init => SeenInv
    BY DEF Init, SeenInv, Reading
  <1>3. Spec => []SeenInv
    BY <1>2, SeenStep, Invariance, PTL DEF Spec
  <1>4. Spec => [][Taken]_vars
    BY <1>1, <1>3, Invariance, MoneyIsCounted, PTL DEF Spec
  <1> QED  BY <1>4 DEF AcceptsWellFormedInputs

-----------------------------------------------------------------------------
(* Bytes: what a number is written as, and what it is read from. *)

\* The reach of k bytes is a power of the number of values of one.
LEMMA ReachIs ==
    /\ ByteEnd \in Nat /\ ByteEnd >= 2 /\ ByteEnd > 3
    /\ PowersOf(Reach, ByteEnd)
    /\ \A k \in Nat : Reach[k] \in Nat /\ Reach[k] > 0
  <1>1. ByteEnd \in Nat /\ ByteEnd >= 2 /\ ByteEnd > 3
    BY BytesAssumption DEF BytesAssumption
  <1>2. Reach = CHOOSE f : f = [k \in Nat |-> IF k = 0 THEN 1 ELSE ByteEnd * f[k - 1]]
    BY Zenon DEF Reach
  <1>3. PowersOf(Reach, ByteEnd)
    BY ONLY <1>1, <1>2, PowersAre
  <1> QED
    BY ONLY <1>1, <1>3, PowersGrow

\* The bytes of a number are as many as asked for.
LEMMA LittleEndianType ==
    ASSUME NEW value \in Nat, NEW size \in Nat
    PROVE  /\ LittleEndian(value, size) \in Seq(Byte) /\ Len(LittleEndian(value, size)) = size
           /\ \A i \in 1 .. size : LittleEndian(value, size)[i] = (value \div Reach[i - 1]) % ByteEnd
  <1>1. ByteEnd \in Nat \ {0}
    BY ReachIs
  <1>2. ASSUME NEW i \in 1 .. size PROVE (value \div Reach[i - 1]) % ByteEnd \in Byte
    <2> DEFINE w == Reach[i - 1]
    <2>1. w \in Nat \ {0}
      BY ReachIs
    <2> HIDE DEF w
    <2>2. value \div w \in Nat
      BY <2>1, QuotientOf
    <2>3. (value \div w) % ByteEnd \in 0 .. ByteEnd - 1
      BY <1>1, <2>2, QuotientOf
    <2> QED
      BY <2>3 DEF w, Byte
  <1>3. LittleEndian(value, size) \in [1 .. size -> Byte]
    BY <1>2 DEF LittleEndian
  <1> QED
    BY <1>3 DEF LittleEndian

\* Bytes backwards.
LEMMA Backwards ==
    ASSUME NEW bytes \in Seq(Byte)
    PROVE  /\ Reverse(bytes) \in Seq(Byte) /\ Len(Reverse(bytes)) = Len(bytes)
           /\ \A i \in 1 .. Len(bytes) : Reverse(bytes)[i] = bytes[(Len(bytes) - i) + 1]
  <1>1. ASSUME NEW i \in 1 .. Len(bytes) PROVE bytes[(Len(bytes) - i) + 1] \in Byte
    BY Elements
  <1> QED
    BY <1>1 DEF Reverse

\* The bytes of a number are its digits, the least one first.
LEMMA NumberInIs ==
    ASSUME NEW bytes
    PROVE  NumberIn(bytes) = Numeral(ByteEnd, Reverse(bytes))
  BY Zenon DEF NumberIn, Numeral

\* A number of bytes is below their reach, and they are the bytes of it.
LEMMA BytesOfNumber ==
    ASSUME NEW bytes \in Seq(Byte)
    PROVE  /\ NumberIn(bytes) \in Nat /\ NumberIn(bytes) < Reach[Len(bytes)]
           /\ LittleEndian(NumberIn(bytes), Len(bytes)) = bytes
  <1> DEFINE d == Reverse(bytes)
             n == NumberIn(bytes)
             L == Len(bytes)
  <1>1. d \in Seq(0 .. ByteEnd - 1) /\ Len(d) = L /\ \A i \in 1 .. L : d[i] = bytes[(L - i) + 1]
    BY Backwards DEF Byte
  <1>2. n \in Nat /\ n < Reach[Len(d)] /\ DigitsOf(d, n, ByteEnd, Reach)
    <2> HIDE DEF d
    <2>1. /\ Numeral(ByteEnd, d) \in Nat /\ Numeral(ByteEnd, d) < Reach[Len(d)]
          /\ DigitsOf(d, Numeral(ByteEnd, d), ByteEnd, Reach)
      BY ONLY <1>1, ReachIs, DigitsOfNumeral
    <2> QED
      BY <2>1, NumberInIs, Zenon DEF d
  <1> HIDE DEF d, n
  <1>3. L \in Nat
    OBVIOUS
  <1>4. ASSUME NEW i \in 1 .. L PROVE LittleEndian(n, L)[i] = bytes[i]
    <2> DEFINE j == (L - i) + 1
    <2>1. j \in 1 .. L /\ (L - j) + 1 = i /\ L - j = i - 1
      BY <1>3
    <2>2. d[j] = bytes[i]
      BY <1>1, <2>1
    <2>3. d[j] = (n \div Reach[i - 1]) % ByteEnd
      BY <1>1, <1>2, <2>1 DEF DigitsOf
    <2> QED
      BY <1>2, <1>3, <2>2, <2>3, LittleEndianType
  <1>5. LittleEndian(n, L) \in Seq(Byte) /\ Len(LittleEndian(n, L)) = L
    BY <1>2, <1>3, LittleEndianType
  <1>6. LittleEndian(n, L) = bytes
    BY <1>3, <1>4, <1>5
  <1> QED
    BY <1>1, <1>2, <1>6 DEF n

\* The number of its bytes is the number again.
LEMMA NumberOfBytes ==
    ASSUME NEW size \in Nat, NEW value \in Nat, value < Reach[size]
    PROVE  NumberIn(LittleEndian(value, size)) = value
  <1> DEFINE bytes == LittleEndian(value, size)
             d == Reverse(bytes)
  <1>1. bytes \in Seq(Byte) /\ Len(bytes) = size
        /\ \A i \in 1 .. size : bytes[i] = (value \div Reach[i - 1]) % ByteEnd
    BY LittleEndianType
  <1> HIDE DEF bytes
  <1>2. d \in Seq(Byte) /\ Len(d) = size /\ \A i \in 1 .. size : d[i] = bytes[(size - i) + 1]
    BY <1>1, Backwards
  <1> HIDE DEF d
  <1>3. d \in Seq(Nat)
    BY <1>2, ReachIs DEF Byte
  <1>4. DigitsOf(d, value, ByteEnd, Reach)
    <2> SUFFICES ASSUME NEW i \in 1 .. size PROVE d[i] = (value \div Reach[size - i]) % ByteEnd
      BY <1>2 DEF DigitsOf
    <2>1. (size - i) + 1 \in 1 .. size /\ ((size - i) + 1) - 1 = size - i
      OBVIOUS
    <2> QED
      BY <1>1, <1>2, <2>1
  <1>5. Numeral(ByteEnd, d) = value
    BY ONLY value \in Nat, <1>2, value < Reach[size], <1>3, <1>4, ReachIs, NumeralOfDigits
  <1> QED
    BY <1>5, NumberInIs, Zenon DEF d, bytes
-----------------------------------------------------------------------------
(* Readers *)

\* What is read has a value and a rest.
LEMMA ReadFields ==
    ASSUME NEW value, NEW rest
    PROVE  /\ ReadAs(value, rest).ok /\ ReadAs(value, rest).value = value
           /\ ReadAs(value, rest).rest = rest /\ ~NotRead.ok
  BY DEF ReadAs, NotRead

\* Bytes that are read stand at the head of what was left.
LEMMA ReadingBytes ==
    ASSUME NEW bytes \in Seq(Byte), NEW count \in Nat, read_bytes(bytes, count).ok
    PROVE  \E value \in Seq(Byte), rest \in Seq(Byte) :
               /\ read_bytes(bytes, count) = ReadAs(value, rest)
               /\ Len(value) = count /\ bytes = value \o rest
  <1> DEFINE value == SubSeq(bytes, 1, count)
             rest == SubSeq(bytes, count + 1, Len(bytes))
  <1>1. ~(count > Len(bytes))
    BY ReadFields DEF read_bytes
  <1>2. read_bytes(bytes, count) = ReadAs(value, rest)
    BY <1>1 DEF read_bytes
  <1>3. value \in Seq(Byte) /\ rest \in Seq(Byte) /\ Len(value) = count
    BY <1>1
  <1>4. bytes = value \o rest
    <2> DEFINE L == Len(bytes)
               both == value \o rest
    <2>1. L \in Nat /\ count <= L /\ value \in Seq(Byte) /\ rest \in Seq(Byte)
          /\ Len(value) = count /\ Len(rest) = L - count
      BY <1>1
    <2>2. /\ \A i \in 1 .. count : value[i] = bytes[i]
          /\ \A i \in 1 .. L - count : rest[i] = bytes[count + i]
      BY <1>1
    <2> HIDE DEF value, rest
    <2>3. both \in Seq(Byte) /\ Len(both) = L
      BY <2>1
    <2>4. ASSUME NEW i \in 1 .. L PROVE both[i] = bytes[i]
      <3>1. CASE i <= count
        BY <2>1, <2>2, <3>1
      <3>2. CASE ~(i <= count)
        <4>1. i - count \in 1 .. L - count /\ count + (i - count) = i
          BY <2>1, <3>2
        <4>2. both[i] = rest[i - count]
          BY <2>1, <3>2
        <4> QED
          BY <2>2, <4>1, <4>2
      <3> QED
        BY <3>1, <3>2
    <2> HIDE DEF both
    <2>5. both = bytes
      BY <2>3, <2>4
    <2> QED
      BY <2>5 DEF both
  <1> HIDE DEF value, rest
  <1> QED
    BY <1>2, <1>3, <1>4

\* Bytes that stand at the head are read.
LEMMA BytesAreRead ==
    ASSUME NEW value \in Seq(Byte), NEW rest \in Seq(Byte), NEW count, count = Len(value)
    PROVE  read_bytes(value \o rest, count) = ReadAs(value, rest)
  <1> DEFINE bytes == value \o rest
  <1>1. Len(bytes) = Len(value) + Len(rest) /\ Len(value) \in Nat /\ Len(rest) \in Nat /\ count = Len(value)
    OBVIOUS
  <1>2. SubSeq(bytes, 1, count) = value
    BY <1>1
  <1>3. SubSeq(bytes, count + 1, Len(bytes)) = rest
    BY <1>1
  <1>4. ~(count > Len(bytes))
    BY <1>1
  <1> HIDE DEF bytes
  <1>5. read_bytes(bytes, count) = ReadAs(value, rest)
    BY <1>2, <1>3, <1>4 DEF read_bytes
  <1> QED
    BY <1>5 DEF bytes

Below(size) == 0 .. Reach[size] - 1

\* A number of some bytes is below their reach.
LEMMA BelowIs ==
    ASSUME NEW size \in Nat, NEW value
    PROVE  value \in Below(size) <=> value \in Nat /\ value < Reach[size]
  BY ReachIs DEF Below

\* A number that is read is written as the bytes it was read from.
LEMMA ReadingNumbers ==
    ASSUME NEW bytes \in Seq(Byte), NEW size \in Nat, ReadNumber(bytes, size).ok
    PROVE  \E value \in Below(size), rest \in Seq(Byte) :
               /\ ReadNumber(bytes, size) = ReadAs(value, rest)
               /\ bytes = LittleEndian(value, size) \o rest
  <1> DEFINE read == read_bytes(bytes, size)
  <1>1. ReadNumber(bytes, size) = IF read.ok THEN ReadAs(NumberIn(read.value), read.rest) ELSE NotRead
    BY DEF ReadNumber, Then
  <1>2. read.ok
    BY <1>1, ReadFields
  <1>3. PICK value \in Seq(Byte), rest \in Seq(Byte) :
            read = ReadAs(value, rest) /\ Len(value) = size /\ bytes = value \o rest
    BY <1>2, ReadingBytes
  <1> HIDE DEF read
  <1>4. ReadNumber(bytes, size) = ReadAs(NumberIn(value), rest)
    BY <1>1, <1>2, <1>3, ReadFields
  <1>5. NumberIn(value) \in Below(size) /\ LittleEndian(NumberIn(value), size) = value
    BY <1>3, BytesOfNumber, BelowIs
  <1> QED
    BY <1>3, <1>4, <1>5

\* A number is read from what is written for it, whatever follows.
LEMMA NumbersReadBack ==
    ASSUME NEW size \in Nat, NEW value \in Below(size), NEW rest \in Seq(Byte)
    PROVE  ReadNumber(LittleEndian(value, size) \o rest, size) = ReadAs(value, rest)
  <1> DEFINE bytes == LittleEndian(value, size)
             read == read_bytes(bytes \o rest, size)
  <1>1. value \in Nat /\ value < Reach[size]
    BY BelowIs
  <1>2. bytes \in Seq(Byte) /\ Len(bytes) = size /\ NumberIn(bytes) = value
    BY <1>1, LittleEndianType, NumberOfBytes
  <1> HIDE DEF bytes
  <1>3. read = ReadAs(bytes, rest)
    BY <1>2, BytesAreRead
  <1>4. ReadNumber(bytes \o rest, size) = IF read.ok THEN ReadAs(NumberIn(read.value), read.rest) ELSE NotRead
    BY DEF ReadNumber, Then
  <1> HIDE DEF read
  <1> QED
    BY <1>2, <1>3, <1>4, ReadFields DEF bytes

-----------------------------------------------------------------------------
(* Lengths *)

\* Every form has its length and the least number it is for.
LEMMA FormsAre ==
    /\ DOMAIN LongForms = {ByteEnd - 3, ByteEnd - 2, ByteEnd - 1}
    /\ LongForms[ByteEnd - 3] = 2 /\ LongForms[ByteEnd - 2] = 4 /\ LongForms[ByteEnd - 1] = 8
    /\ LeastOf(2) = ByteEnd - 3 /\ LeastOf(4) = Reach[2] /\ LeastOf(8) = Reach[4]
  <1>1. ByteEnd \in Nat /\ ByteEnd > 3
    BY ReachIs
  <1>2. /\ (ByteEnd - 3) - (ByteEnd - 4) = 1 /\ (ByteEnd - 2) - (ByteEnd - 4) = 2
        /\ (ByteEnd - 1) - (ByteEnd - 4) = 3
        /\ (ByteEnd - 3) .. (ByteEnd - 1) = {ByteEnd - 3, ByteEnd - 2, ByteEnd - 1}
    BY <1>1
  <1>3. 4 \div 2 = 2 /\ 8 \div 2 = 4
    OBVIOUS
  <1> DEFINE sizes == <<2, 4, 8>>
  <1>4. sizes[1] = 2 /\ sizes[2] = 4 /\ sizes[3] = 8
    OBVIOUS
  <1> HIDE DEF sizes
  <1>5. LongForms = [first \in (ByteEnd - 3) .. (ByteEnd - 1) |-> sizes[first - (ByteEnd - 4)]]
    BY DEF LongForms, sizes
  <1> QED
    BY <1>2, <1>3, <1>4, <1>5 DEF LeastOf

\* The forms follow each other: each reaches where the next one begins.
LEMMA FormsFollow ==
    /\ ByteEnd - 3 \in Nat /\ ByteEnd - 3 <= Reach[2] /\ Reach[2] <= Reach[4] /\ Reach[4] <= Reach[8]
    /\ Reach[2] \in Nat /\ Reach[4] \in Nat /\ Reach[8] \in Nat
  <1>1. ByteEnd \in Nat /\ ByteEnd > 3 /\ Reach[0] = 1 /\ Reach[0 + 1] = ByteEnd * Reach[0]
    BY ReachIs DEF PowersOf
  <1>a. \A j, k \in Nat : j <= k => Reach[j] <= Reach[k]
    BY ONLY ReachIs, PowersGrow
  <1>b. Reach[1] \in Nat /\ Reach[2] \in Nat /\ Reach[4] \in Nat /\ Reach[8] \in Nat
    BY ReachIs
  <1>c. Reach[1] <= Reach[2] /\ Reach[2] <= Reach[4] /\ Reach[4] <= Reach[8]
    BY <1>a
  <1>2. ByteEnd * 1 = ByteEnd /\ 0 + 1 = 1
    BY <1>1
  <1> QED
    BY <1>1, <1>2, <1>b, <1>c

\* How a length is read: its first byte, and what this one announces.
LEMMA LengthByForm ==
    ASSUME NEW bytes, NEW first, NEW after, read_bytes(bytes, 1) = ReadAs(first, after)
    PROVE  /\ first[1] \notin DOMAIN LongForms => read_compact_size(bytes) = ReadAs(first[1], after)
           /\ first[1] \in DOMAIN LongForms =>
                  LET read == ReadNumber(after, LongForms[first[1]])
                  IN  read_compact_size(bytes)
                          = IF read.ok
                            THEN IF read.value < LeastOf(LongForms[first[1]]) THEN NotRead
                                 ELSE ReadAs(read.value, read.rest)
                            ELSE NotRead
  <1>1. ReadAs(first, after).ok /\ ReadAs(first, after).value = first /\ ReadAs(first, after).rest = after
    BY ReadFields
  <1> QED
    BY <1>1, Zenon DEF read_compact_size, Then

\* What is written for a length: a first byte, alone or with the number.
LEMMA LengthWritten ==
    ASSUME NEW value \in Below(8)
    PROVE  /\ value \in Nat /\ write_compact_size(value) \in Seq(Byte)
           /\ value < ByteEnd - 3 => write_compact_size(value) = <<value>>
           /\ \A first \in DOMAIN LongForms :
                  /\ value \in Below(LongForms[first]) /\ ~(value < LeastOf(LongForms[first]))
                  => write_compact_size(value) = <<first>> \o LittleEndian(value, LongForms[first])
           /\ \/ value < ByteEnd - 3
              \/ \E first \in DOMAIN LongForms :
                     value \in Below(LongForms[first]) /\ ~(value < LeastOf(LongForms[first]))
  <1>1. /\ value \in Nat /\ value < Reach[8] /\ ByteEnd \in Nat /\ ByteEnd > 3
        /\ ByteEnd - 3 \in Byte /\ ByteEnd - 2 \in Byte /\ ByteEnd - 1 \in Byte
    BY BelowIs, ReachIs DEF Byte
  <1>2. value \in Below(2) <=> value < Reach[2]
    BY <1>1, BelowIs
  <1>3. value \in Below(4) <=> value < Reach[4]
    BY <1>1, BelowIs
  <1>a. LittleEndian(value, 2) \in Seq(Byte) /\ LittleEndian(value, 4) \in Seq(Byte) /\ LittleEndian(value, 8) \in Seq(Byte)
    BY <1>1, LittleEndianType
  <1>b. \A first \in Byte, more \in Seq(Byte) : <<first>> \o more \in Seq(Byte)
    OBVIOUS
  <1>4. CASE value < ByteEnd - 3
    <2>1. write_compact_size(value) = <<value>> /\ value \in Byte
      BY <1>1, <1>4 DEF write_compact_size, Byte
    <2>2. \A first \in DOMAIN LongForms : value < LeastOf(LongForms[first])
      BY <1>1, <1>4, FormsAre, FormsFollow
    <2> QED
      BY <1>1, <1>4, <2>1, <2>2
  <1>5. CASE ~(value < ByteEnd - 3) /\ value < Reach[2]
    <2>1. write_compact_size(value) = <<ByteEnd - 3>> \o LittleEndian(value, 2)
      BY <1>5, FormsAre DEF write_compact_size, LongForm
    <2>2. \A first \in DOMAIN LongForms : ~(value < LeastOf(LongForms[first])) => first = ByteEnd - 3
      BY <1>1, <1>5, FormsAre, FormsFollow
    <2>3. ByteEnd - 3 \in DOMAIN LongForms /\ LongForms[ByteEnd - 3] = 2 /\ ~(value < LeastOf(2))
      BY <1>5, FormsAre
    <2>4. write_compact_size(value) \in Seq(Byte)
      BY <1>1, <1>a, <1>b, <2>1
    <2> QED
      BY ONLY <1>1, <1>2, <1>5, <2>1, <2>2, <2>3, <2>4, Zenon
  <1>6. CASE ~(value < Reach[2]) /\ value < Reach[4]
    <2>1. write_compact_size(value) = <<ByteEnd - 2>> \o LittleEndian(value, 4)
      BY <1>1, <1>6, FormsAre, FormsFollow DEF write_compact_size, LongForm
    <2>2. \A first \in DOMAIN LongForms :
              value \in Below(LongForms[first]) /\ ~(value < LeastOf(LongForms[first])) => first = ByteEnd - 2
      BY <1>1, <1>2, <1>6, FormsAre, FormsFollow
    <2>3. ByteEnd - 2 \in DOMAIN LongForms /\ LongForms[ByteEnd - 2] = 4 /\ ~(value < LeastOf(4))
      BY <1>6, FormsAre
    <2>4. write_compact_size(value) \in Seq(Byte)
      BY <1>1, <1>a, <1>b, <2>1
    <2>5. ~(value < ByteEnd - 3)
      BY <1>1, <1>6, FormsFollow
    <2> QED
      BY ONLY <1>1, <1>3, <1>6, <2>1, <2>2, <2>3, <2>4, <2>5, Zenon
  <1>7. CASE ~(value < Reach[4])
    <2>1. write_compact_size(value) = <<ByteEnd - 1>> \o LittleEndian(value, 8)
      BY <1>1, <1>7, FormsAre, FormsFollow DEF write_compact_size, LongForm
    <2>2. \A first \in DOMAIN LongForms :
              value \in Below(LongForms[first]) /\ ~(value < LeastOf(LongForms[first])) => first = ByteEnd - 1
      BY <1>1, <1>2, <1>3, <1>7, FormsAre, FormsFollow
    <2>3. ByteEnd - 1 \in DOMAIN LongForms /\ LongForms[ByteEnd - 1] = 8 /\ ~(value < LeastOf(8))
      BY <1>7, FormsAre
    <2>4. write_compact_size(value) \in Seq(Byte)
      BY <1>1, <1>a, <1>b, <2>1
    <2>5. ~(value < ByteEnd - 3)
      BY <1>1, <1>7, FormsFollow
    <2> QED
      BY ONLY <1>1, value \in Below(8), <2>1, <2>2, <2>3, <2>4, <2>5, Zenon
  <1> QED
    BY <1>4, <1>5, <1>6, <1>7

\* A length that is read is written as it was.
LEMMA ReadingLengths ==
    ASSUME NEW bytes \in Seq(Byte), read_compact_size(bytes).ok
    PROVE  \E value \in Below(8), rest \in Seq(Byte) :
               /\ read_compact_size(bytes) = ReadAs(value, rest)
               /\ bytes = write_compact_size(value) \o rest
  <1>1. read_bytes(bytes, 1).ok
    BY ReadFields DEF read_compact_size, Then
  <1>2. PICK first \in Seq(Byte), after \in Seq(Byte) :
            read_bytes(bytes, 1) = ReadAs(first, after) /\ Len(first) = 1 /\ bytes = first \o after
    BY <1>1, ReadingBytes
  <1>3. first[1] \in Byte /\ first = <<first[1]>>
    <2>1. first \in Seq(Byte) /\ Len(first) = 1
      BY <1>2
    <2>2. first[1] \in Byte
      <3>1. 1 \in 1 .. Len(first)
        BY ONLY <2>1
      <3> QED
        BY ONLY <2>1, <3>1, Elements, Zenon
    <2>3. first = <<first[1]>>
      BY ONLY <2>1
    <2> QED
      BY <2>2, <2>3
  <1> DEFINE b == first[1]
  <1>4. CASE b \notin DOMAIN LongForms
    <2>1. read_compact_size(bytes) = ReadAs(b, after)
      BY <1>2, <1>4, LengthByForm
    <2>2. b \in Nat /\ b < ByteEnd - 3
      <3>1. b \in Byte /\ b # ByteEnd - 3 /\ b # ByteEnd - 2 /\ b # ByteEnd - 1
        BY <1>3, <1>4, FormsAre
      <3> HIDE DEF b
      <3> QED
        BY ONLY <3>1, ReachIs DEF Byte
    <2>3. b \in Below(8)
      BY <2>2, FormsFollow, BelowIs
    <2>4. write_compact_size(b) = <<b>>
      BY <2>2, <2>3, LengthWritten
    <2> QED
      BY <1>2, <1>3, <2>1, <2>3, <2>4
  <1>5. CASE b \in DOMAIN LongForms
    <2> DEFINE size == LongForms[b]
               read == ReadNumber(after, size)
    <2>1. read_compact_size(bytes)
              = IF read.ok THEN IF read.value < LeastOf(size) THEN NotRead ELSE ReadAs(read.value, read.rest)
                ELSE NotRead
      BY <1>2, <1>5, LengthByForm
    <2>2. size \in Nat /\ size <= 8
      BY <1>5, FormsAre
    <2> HIDE DEF size
    <2>3. read.ok /\ ~(read.value < LeastOf(size))
      BY <2>1, ReadFields
    <2>4. PICK value \in Below(size), rest \in Seq(Byte) :
              read = ReadAs(value, rest) /\ after = LittleEndian(value, size) \o rest
      BY <2>2, <2>3, ReadingNumbers
    <2> HIDE DEF read
    <2>5. read_compact_size(bytes) = ReadAs(value, rest) /\ ~(value < LeastOf(size))
      BY <2>1, <2>3, <2>4, ReadFields
    <2>6. value \in Below(8)
      <3>1. Reach[size] <= Reach[8] /\ Reach[size] \in Nat /\ Reach[8] \in Nat
        BY <2>2, ReachIs, PowersGrow
      <3> QED
        BY <2>2, <3>1, BelowIs
    <2>7. write_compact_size(value) = <<b>> \o LittleEndian(value, size)
      BY <1>5, <2>5, <2>6, LengthWritten DEF size
    <2>8. bytes = (<<b>> \o LittleEndian(value, size)) \o rest
      <3>1. LittleEndian(value, size) \in Seq(Byte)
        BY <2>2, BelowIs, LittleEndianType
      <3>2. <<b>> \in Seq(Byte)
        BY <1>3
      <3>3. bytes = <<b>> \o (LittleEndian(value, size) \o rest)
        BY <1>2, <1>3, <2>4
      <3> HIDE DEF b
      <3> QED
        BY <3>1, <3>2, <3>3
    <2> QED
      BY <2>5, <2>6, <2>7, <2>8
  <1> QED
    BY <1>4, <1>5

\* A length is read from what is written for it, whatever follows.
LEMMA LengthsAreRead ==
    ASSUME NEW value \in Below(8), NEW rest \in Seq(Byte)
    PROVE  read_compact_size(write_compact_size(value) \o rest) = ReadAs(value, rest)
  <1>1. CASE value < ByteEnd - 3
    <2>1. write_compact_size(value) = <<value>> /\ value \in Byte /\ value \notin DOMAIN LongForms
      BY <1>1, LengthWritten, ReachIs, FormsAre DEF Byte
    <2>2. <<value>> \in Seq(Byte) /\ Len(<<value>>) = 1 /\ <<value>>[1] = value
      BY <2>1
    <2>3. read_bytes(<<value>> \o rest, 1) = ReadAs(<<value>>, rest)
      BY ONLY <2>2, rest \in Seq(Byte), BytesAreRead
    <2> QED
      BY <2>1, <2>2, <2>3, LengthByForm
  <1>2. CASE ~(value < ByteEnd - 3)
    <2>1. PICK first \in DOMAIN LongForms :
              value \in Below(LongForms[first]) /\ ~(value < LeastOf(LongForms[first]))
      BY <1>2, LengthWritten
    <2> DEFINE size == LongForms[first]
               number == LittleEndian(value, size)
    <2>2. size \in Nat /\ first \in Byte
      BY FormsAre, ReachIs DEF Byte
    <2>3. number \in Seq(Byte)
      BY <2>1, <2>2, BelowIs, LittleEndianType
    <2>4. write_compact_size(value) = <<first>> \o number
      BY <2>1, LengthWritten
    <2>5. ReadNumber(number \o rest, size) = ReadAs(value, rest)
      BY <2>1, <2>2, NumbersReadBack
    <2> HIDE DEF number, size
    <2>6. <<first>> \in Seq(Byte) /\ Len(<<first>>) = 1 /\ <<first>>[1] = first /\ number \o rest \in Seq(Byte)
      BY <2>2, <2>3
    <2>7. read_bytes(<<first>> \o (number \o rest), 1) = ReadAs(<<first>>, number \o rest)
      BY ONLY <2>6, BytesAreRead
    <2>8. (<<first>> \o number) \o rest = <<first>> \o (number \o rest)
      BY <2>3, <2>6
    <2>9. read_compact_size(<<first>> \o (number \o rest)) = ReadAs(value, rest)
      <3> DEFINE bytes == <<first>> \o (number \o rest)
                 read == ReadNumber(number \o rest, size)
      <3> HIDE DEF bytes
      <3>1. read_compact_size(bytes)
                = IF read.ok THEN IF read.value < LeastOf(size) THEN NotRead
                                  ELSE ReadAs(read.value, read.rest) ELSE NotRead
        <4>1. read_bytes(bytes, 1) = ReadAs(<<first>>, number \o rest)
          BY <2>7 DEF bytes
        <4> QED
          BY <2>6, <4>1, LengthByForm DEF size
      <3> HIDE DEF read
      <3>2. read.ok /\ read.value = value /\ read.rest = rest
        BY <2>5, ReadFields DEF read
      <3>3. ~(value < LeastOf(size))
        BY <2>1 DEF size
      <3> QED
        BY <3>1, <3>2, <3>3 DEF bytes
    <2> QED
      BY <2>4, <2>8, <2>9
  <1> QED
    BY <1>1, <1>2

-----------------------------------------------------------------------------
(* Items *)

Associate(a, b, c) == (a \o b) \o c = a \o (b \o c) /\ a \o b \in Seq(Byte)

\* How pieces are put together does not matter.
LEMMA Associates ==
    ASSUME NEW a \in Seq(Byte), NEW b \in Seq(Byte), NEW c \in Seq(Byte)
    PROVE  Associate(a, b, c)
  BY DEF Associate

Outcomes(T) == {NotRead} \cup [ok : {TRUE}, value : T, rest : Seq(Byte)]

\* Nothing, or a value and what is left.
LEMMA OutcomesAre ==
    ASSUME NEW T
    PROVE  /\ NotRead \in Outcomes(T)
           /\ \A value \in T, rest \in Seq(Byte) : ReadAs(value, rest) \in Outcomes(T)
           /\ \A read \in Outcomes(T) :
                  \/ read = NotRead
                  \/ \E value \in T, rest \in Seq(Byte) : read = ReadAs(value, rest)
  <1>1. NotRead \in Outcomes(T)
    BY DEF Outcomes
  <1>2. ASSUME NEW value \in T, NEW rest \in Seq(Byte) PROVE ReadAs(value, rest) \in Outcomes(T)
    BY DEF Outcomes, ReadAs
  <1>3. ASSUME NEW read \in Outcomes(T), read # NotRead
        PROVE  \E value \in T, rest \in Seq(Byte) : read = ReadAs(value, rest)
    BY <1>3 DEF Outcomes, ReadAs
  <1> QED
    BY <1>1, <1>2, <1>3

\* What the next item makes of what was read before it.
Taken(read, item) ==
    IF read.ok THEN IF item.ok THEN ReadAs(Append(read.value, item.value), item.rest) ELSE NotRead
    ELSE NotRead

\* One item after another can be read.
ItemsStand(T, one, bytes, count) ==
    \E f \in [0 .. count -> Outcomes(Seq(T))] :
        /\ f[0] = ReadAs(<<>>, bytes)
        /\ \A i \in 1 .. count : f[i] = Taken(f[i - 1], one[f[i - 1].rest])

LEMMA ItemsExist ==
    ASSUME NEW T, NEW one \in [Seq(Byte) -> Outcomes(T)], NEW bytes \in Seq(Byte), NEW count \in Nat
    PROVE  ItemsStand(T, one, bytes, count)
  <1> DEFINE D == 0 .. count
             V == Outcomes(Seq(T))
             step == [p \in D \X V |-> Taken(p[2], one[p[2].rest])]
  <1>1. ASSUME NEW i \in D, NEW read \in V
        PROVE  step[<<i, read>>] = Taken(read, one[read.rest]) /\ step[<<i, read>>] \in V
    <2>1. step[<<i, read>>] = Taken(read, one[read.rest])
      OBVIOUS
    <2>2. CASE read = NotRead
      <3>1. Taken(read, one[read.rest]) = NotRead
        BY <2>2, ReadFields DEF Taken
      <3> QED
        BY <2>1, <3>1 DEF Outcomes
    <2>3. CASE read # NotRead
      <3>1. PICK value \in Seq(T), rest \in Seq(Byte) : read = ReadAs(value, rest)
        BY ONLY read \in V, <2>3, OutcomesAre
      <3>2. read.ok /\ read.value = value /\ read.rest = rest
        BY <3>1, ReadFields
      <3>3. CASE one[rest] = NotRead
        <4>1. Taken(read, one[read.rest]) = NotRead
          BY <3>2, <3>3, ReadFields DEF Taken
        <4> QED
          BY <2>1, <4>1 DEF Outcomes
      <3>4. CASE one[rest] # NotRead
        <4>1. PICK item \in T, left \in Seq(Byte) : one[rest] = ReadAs(item, left)
          <5>1. one[rest] \in Outcomes(T)
            OBVIOUS
          <5> QED
            BY ONLY <5>1, <3>4, OutcomesAre
        <4>2. Taken(read, one[read.rest]) = ReadAs(Append(value, item), left)
          BY <3>2, <4>1, ReadFields DEF Taken
        <4>3. Append(value, item) \in Seq(T)
          OBVIOUS
        <4>4. ReadAs(Append(value, item), left) \in V
          BY ONLY <4>3, left \in Seq(Byte), OutcomesAre, Zenon
        <4> QED
          BY ONLY <2>1, <4>2, <4>4, Zenon
      <3> QED
        BY <3>3, <3>4
    <2> QED
      BY <2>1, <2>2, <2>3
  <1>2. ReadAs(<<>>, bytes) \in V
    <2>1. <<>> \in Seq(T)
      OBVIOUS
    <2> QED
      BY ONLY <2>1, bytes \in Seq(Byte), OutcomesAre, Zenon
  <1>3. PICK f \in [D -> V] : Counts(f, D, 0, ReadAs(<<>>, bytes), step)
    <2>1. 0 \in Nat /\ D \subseteq Nat /\ 0 \in D /\ \A n \in D : n >= 0 /\ (n # 0 => n - 1 \in D)
      OBVIOUS
    <2> HIDE DEF D, V, step
    <2> QED
      BY <1>1, <1>2, <2>1, NatRecursion
  <1>4. f[0] = ReadAs(<<>>, bytes)
    BY <1>3 DEF Counts
  <1>5. ASSUME NEW i \in 1 .. count PROVE f[i] = Taken(f[i - 1], one[f[i - 1].rest])
    <2>1. i \in D /\ i # 0 /\ i - 1 \in D
      OBVIOUS
    <2>2. f[i] = step[<<i, f[i - 1]>>]
      BY <1>3, <2>1 DEF Counts
    <2>3. f[i - 1] \in V
      BY <2>1
    <2> HIDE DEF step, V, D
    <2> QED
      BY <1>1, <2>1, <2>2, <2>3
  <1> QED
    BY <1>4, <1>5 DEF ItemsStand

\* The bytes of some items.
Laid(wire, values) == FlattenSeq([i \in 1 .. Len(values) |-> wire[values[i]]])

\* The bytes of items are bytes.
LEMMA LaidType ==
    ASSUME NEW T, NEW wire \in [T -> Seq(Byte)], NEW values \in Seq(T)
    PROVE  /\ [i \in 1 .. Len(values) |-> wire[values[i]]] \in Seq(Seq(Byte))
           /\ Laid(wire, values) \in Seq(Byte)
  <1>1. \A i \in 1 .. Len(values) : wire[values[i]] \in Seq(Byte)
    BY Elements
  <1> DEFINE seqs == [i \in 1 .. Len(values) |-> wire[values[i]]]
  <1>2. seqs \in Seq(Seq(Byte))
    BY <1>1
  <1> HIDE DEF seqs
  <1>3. FlattenSeq(seqs) \in Seq(Byte)
    BY <1>2, FlattenType
  <1> QED
    BY <1>2, <1>3 DEF Laid, seqs

\* No items have no bytes.
LEMMA LaidNone == ASSUME NEW wire PROVE Laid(wire, <<>>) = <<>>
  <1>1. [i \in 1 .. Len(<<>>) |-> wire[<<>>[i]]] = <<>> /\ FlattenSeq(<<>>) = <<>>
    BY DEF FlattenSeq
  <1> QED
    BY <1>1, Zenon DEF Laid

\* One more item has its bytes behind the others, or before them.
LEMMA LaidOneMore ==
    ASSUME NEW T, NEW wire \in [T -> Seq(Byte)], NEW values \in Seq(T), NEW v \in T
    PROVE  /\ Laid(wire, Append(values, v)) = Laid(wire, values) \o wire[v]
           /\ Laid(wire, <<v>> \o values) = wire[v] \o Laid(wire, values)
  <1> DEFINE seqs == [i \in 1 .. Len(values) |-> wire[values[i]]]
             n == Len(values)
             x == wire[v]
  <1>1. seqs \in Seq(Seq(Byte)) /\ Len(seqs) = n /\ x \in Seq(Byte) /\ n \in Nat
        /\ \A i \in 1 .. n : seqs[i] = wire[values[i]]
    BY LaidType
  <1>2. [i \in 1 .. Len(Append(values, v)) |-> wire[Append(values, v)[i]]] = Append(seqs, x)
    <2>1. Len(Append(values, v)) = n + 1 /\ Append(values, v)[n + 1] = v
          /\ \A i \in 1 .. n : Append(values, v)[i] = values[i]
      OBVIOUS
    <2> DEFINE more == [i \in 1 .. Len(Append(values, v)) |-> wire[Append(values, v)[i]]]
    <2>2. more \in Seq(Seq(Byte))
      <3>1. Append(values, v) \in Seq(T)
        OBVIOUS
      <3> QED
        BY ONLY <3>1, wire \in [T -> Seq(Byte)], LaidType
    <2>3. Len(more) = n + 1 /\ more[n + 1] = x /\ \A i \in 1 .. n : more[i] = seqs[i]
      BY <1>1, <2>1
    <2> HIDE DEF more, seqs, x, n
    <2> DEFINE other == Append(seqs, x)
    <2>4. other \in Seq(Seq(Byte)) /\ Len(other) = n + 1 /\ other[n + 1] = x
          /\ \A i \in 1 .. n : other[i] = seqs[i]
      BY <1>1
    <2> HIDE DEF other
    <2>5. \A i \in 1 .. n + 1 : more[i] = other[i]
      BY <1>1, <2>3, <2>4
    <2>6. more = other
      BY <2>2, <2>3, <2>4, <2>5
    <2> QED
      BY <2>6 DEF more, other
  <1>3. [i \in 1 .. Len(<<v>> \o values) |-> wire[(<<v>> \o values)[i]]] = <<x>> \o seqs
    <2>1. Len(<<v>> \o values) = n + 1 /\ (<<v>> \o values)[1] = v
          /\ \A i \in 2 .. n + 1 : (<<v>> \o values)[i] = values[i - 1]
      OBVIOUS
    <2> DEFINE more == [i \in 1 .. Len(<<v>> \o values) |-> wire[(<<v>> \o values)[i]]]
    <2>2. more \in Seq(Seq(Byte))
      <3>1. <<v>> \o values \in Seq(T)
        OBVIOUS
      <3> QED
        BY ONLY <3>1, wire \in [T -> Seq(Byte)], LaidType
    <2>3. Len(more) = n + 1 /\ more[1] = x /\ \A i \in 2 .. n + 1 : more[i] = seqs[i - 1]
      BY <1>1, <2>1
    <2> HIDE DEF more, seqs, x, n
    <2> DEFINE other == <<x>> \o seqs
    <2>4. other \in Seq(Seq(Byte)) /\ Len(other) = n + 1 /\ other[1] = x
          /\ \A i \in 2 .. n + 1 : other[i] = seqs[i - 1]
      BY <1>1
    <2> HIDE DEF other
    <2>5. \A i \in 1 .. n + 1 : more[i] = other[i]
      <3>1. \A i \in 1 .. n + 1 : i = 1 \/ i \in 2 .. n + 1
        BY <1>1
      <3> QED
        BY <2>3, <2>4, <3>1, Zenon
    <2>6. more = other
      BY <2>2, <2>3, <2>4, <2>5
    <2> QED
      BY <2>6 DEF more, other
  <1> HIDE DEF seqs, x
  <1>5. FlattenSeq(Append(seqs, x)) = FlattenSeq(seqs) \o x
    BY <1>1, FlattenAppend
  <1>6. FlattenSeq(<<x>> \o seqs) = x \o FlattenSeq(seqs)
    BY <1>1, FlattenBefore
  <1> QED
    BY <1>2, <1>3, <1>5, <1>6, Zenon DEF Laid, seqs, x

\* g holds what is left to read after every item, the first one after none.
Goes(g, bytes, count, one) ==
    /\ g[0] = ReadAs(<<>>, bytes)
    /\ \A i \in 1 .. count : g[i] = Taken(g[i - 1], one[i])

\* An item that is read stands at the head of what was left.
EachStands(g, one, count, T, wire) ==
    \A i \in 1 .. count : g[i - 1].ok /\ g[i - 1].rest \in Seq(Byte) /\ one[i].ok =>
        \E v \in T, left \in Seq(Byte) :
            one[i] = ReadAs(v, left) /\ g[i - 1].rest = wire[v] \o left

AllStand(read, bytes, count, T, wire) ==
    \E values \in Seq(T), rest \in Seq(Byte) :
        read = ReadAs(values, rest) /\ Len(values) = count /\ bytes = Laid(wire, values) \o rest

\* Items that were read stood in the bytes, one after another.
LEMMA ItemsLaid ==
    ASSUME NEW T, NEW wire \in [T -> Seq(Byte)], NEW bytes \in Seq(Byte), NEW count \in Nat, NEW g, NEW one,
           Goes(g, bytes, count, one), EachStands(g, one, count, T, wire), g[count].ok
    PROVE  AllStand(g[count], bytes, count, T, wire)
  <1> DEFINE Stands(k, values, rest) ==
        g[k] = ReadAs(values, rest) /\ Len(values) = k /\ bytes = Laid(wire, values) \o rest
      Good == {k \in Nat : k <= count => ~g[k].ok \/ \E values \in Seq(T), rest \in Seq(Byte) : Stands(k, values, rest)}
  <1>1. 0 \in Good
    <2>1. <<>> \in Seq(T) /\ Len(<<>>) = 0 /\ <<>> \o bytes = bytes
      OBVIOUS
    <2>2. Laid(wire, <<>>) = <<>>
      BY LaidNone
    <2>3. Stands(0, <<>>, bytes)
      BY <2>1, <2>2 DEF Goes
    <2> HIDE DEF Stands
    <2> QED
      BY <2>1, <2>3
  <1>2. ASSUME NEW k \in Nat, k \in Good, k + 1 <= count PROVE k + 1 \in Good
    <2>1. k + 1 \in 1 .. count /\ (k + 1) - 1 = k /\ k <= count
      BY <1>2
    <2>2. g[k + 1] = Taken(g[k], one[k + 1])
      BY <2>1 DEF Goes
    <2>3. CASE ~g[k].ok \/ ~one[k + 1].ok
      <3>1. ~g[k + 1].ok
        BY <2>2, <2>3, ReadFields DEF Taken
      <3> QED
        BY <3>1
    <2>4. CASE g[k].ok /\ one[k + 1].ok
      <3>1. PICK values \in Seq(T), rest \in Seq(Byte) : Stands(k, values, rest)
        BY <1>2, <2>1, <2>4
      <3>2. g[k].rest = rest /\ g[k].value = values
        BY <3>1, ReadFields
      <3>3. PICK v \in T, left \in Seq(Byte) :
                one[k + 1] = ReadAs(v, left) /\ rest = wire[v] \o left
        <4>1. /\ g[(k + 1) - 1].ok /\ g[(k + 1) - 1].rest = rest
              /\ g[(k + 1) - 1].rest \in Seq(Byte) /\ one[k + 1].ok /\ k + 1 \in 1 .. count
          BY <2>1, <2>4, <3>2
        <4> QED
          BY ONLY <4>1, EachStands(g, one, count, T, wire), Zenon DEF EachStands
      <3>4. g[k + 1] = ReadAs(Append(values, v), left)
        BY <2>2, <2>4, <3>2, <3>3, ReadFields DEF Taken
      <3>5. Append(values, v) \in Seq(T) /\ Len(Append(values, v)) = k + 1
        BY <3>1
      <3>6. bytes = Laid(wire, Append(values, v)) \o left
        <4> DEFINE a == Laid(wire, values)
                   x == wire[v]
        <4>1. a \in Seq(Byte) /\ x \in Seq(Byte)
          BY LaidType
        <4>2. Laid(wire, Append(values, v)) = a \o x
          BY ONLY values \in Seq(T), v \in T, wire \in [T -> Seq(Byte)], LaidOneMore, Zenon
        <4>3. bytes = a \o (x \o left)
          BY <3>1, <3>3
        <4> HIDE DEF a, x
        <4>4. a \o (x \o left) = (a \o x) \o left
          <5>1. Associate(a, x, left)
            BY ONLY <4>1, left \in Seq(Byte), Associates, Zenon
          <5> QED
            BY ONLY <5>1, Zenon DEF Associate
        <4> QED
          BY ONLY <4>2, <4>3, <4>4, Zenon
      <3>7. Stands(k + 1, Append(values, v), left)
        BY ONLY <3>4, <3>5, <3>6, Zenon
      <3>8. k + 1 \in Nat
        OBVIOUS
      <3> HIDE DEF Stands
      <3> QED
        BY <3>5, <3>7, <3>8
    <2> QED
      BY <2>3, <2>4
  <1>3. Nat \subseteq Good
    <2>1. \A k \in Nat : k \in Good => k + 1 \in Good
      <3>1. \A k \in Nat : ~(k + 1 <= count) => k + 1 \in Good
        OBVIOUS
      <3> HIDE DEF Good
      <3> QED
        BY <1>2, <3>1
    <2> HIDE DEF Good
    <2> QED
      BY <1>1, <2>1, NatSetInduction
  <1>4. count \in Good /\ count <= count
    <2> HIDE DEF Good
    <2> QED
      BY <1>3
  <1> QED
    BY <1>4 DEF AllStand

\* The items from one on are it and those from the next one on.
LEMMA FirstOfRest ==
    ASSUME NEW T, NEW values \in Seq(T), NEW k \in Nat, k + 1 <= Len(values)
    PROVE  SubSeq(values, k + 1, Len(values))
               = <<values[k + 1]>> \o SubSeq(values, (k + 1) + 1, Len(values))
  <1> DEFINE n == Len(values)
             a == SubSeq(values, k + 1, n)
             b == SubSeq(values, (k + 1) + 1, n)
             c == <<values[k + 1]>> \o b
  <1>1. n \in Nat /\ values[k + 1] \in T /\ k + 1 <= n
    BY Elements
  <1>2. a \in Seq(T) /\ Len(a) = n - k /\ \A i \in 1 .. n - k : a[i] = values[k + i]
    BY <1>1
  <1>3. b \in Seq(T) /\ Len(b) = (n - k) - 1 /\ \A i \in 1 .. (n - k) - 1 : b[i] = values[(k + 1) + i]
    BY <1>1
  <1> HIDE DEF a, b, n
  <1>4. c \in Seq(T) /\ Len(c) = n - k /\ c[1] = values[k + 1]
        /\ \A i \in 2 .. n - k : c[i] = b[i - 1]
    BY <1>1, <1>3
  <1> HIDE DEF c
  <1>5. ASSUME NEW i \in 1 .. n - k PROVE a[i] = c[i]
    <2>1. CASE i = 1
      BY <1>1, <1>2, <1>4, <2>1
    <2>2. CASE i # 1
      <3>1. i \in 2 .. n - k /\ i - 1 \in 1 .. (n - k) - 1 /\ (k + 1) + (i - 1) = k + i
        BY <1>1, <2>2
      <3> QED
        BY <1>2, <1>3, <1>4, <3>1
    <2> QED
      BY <2>1, <2>2
  <1>6. a = c
    BY <1>2, <1>4, <1>5
  <1> QED
    BY <1>6 DEF a, b, c, n

\* Where a value is laid, it is what is read.
EachIsRead(g, one, values, wire) ==
    \A i \in 1 .. Len(values), left \in Seq(Byte) :
        g[i - 1].rest = wire[values[i]] \o left => one[i] = ReadAs(values[i], left)

\* Items that stand in the bytes, one after another, are read.
LEMMA ItemsRead ==
    ASSUME NEW T, NEW wire \in [T -> Seq(Byte)], NEW values \in Seq(T), NEW rest \in Seq(Byte),
           NEW g, NEW one, Goes(g, Laid(wire, values) \o rest, Len(values), one),
           EachIsRead(g, one, values, wire)
    PROVE  g[Len(values)] = ReadAs(values, rest)
  <1> DEFINE n == Len(values)
             LeftAt(k) == Laid(wire, SubSeq(values, k + 1, n)) \o rest
             Good == {k \in Nat : k <= n => g[k] = ReadAs(SubSeq(values, 1, k), LeftAt(k))}
  <1>1. n \in Nat /\ SubSeq(values, 1, 0) = <<>> /\ SubSeq(values, 0 + 1, n) = values
        /\ SubSeq(values, 1, n) = values /\ SubSeq(values, n + 1, n) = <<>>
    OBVIOUS
  <1>2. 0 \in Good
    BY <1>1 DEF Goes
  <1>3. ASSUME NEW k \in Nat, k \in Good, k + 1 <= n PROVE k + 1 \in Good
    <2> DEFINE v == values[k + 1]
               more == SubSeq(values, (k + 1) + 1, n)
               done == SubSeq(values, 1, k)
    <2>1. k + 1 \in 1 .. n /\ (k + 1) - 1 = k /\ k <= n /\ v \in T /\ more \in Seq(T)
      BY <1>1, <1>3, Elements
    <2>2. SubSeq(values, k + 1, n) = <<v>> \o more
      BY <1>3, FirstOfRest
    <2>3. SubSeq(values, 1, k + 1) = Append(done, v)
      BY <1>1, <1>3
    <2>4. g[k] = ReadAs(done, LeftAt(k))
      BY <1>3, <2>1
    <2> HIDE DEF v, more, done, n
    <2>5. LeftAt(k) = wire[v] \o LeftAt(k + 1) /\ LeftAt(k + 1) \in Seq(Byte)
      <3> DEFINE x == wire[v]
                 a == Laid(wire, more)
      <3>1. x \in Seq(Byte) /\ a \in Seq(Byte)
        BY <2>1, LaidType
      <3>2. Laid(wire, <<v>> \o more) = x \o a
        BY <2>1, LaidOneMore
      <3>3. LeftAt(k) = (x \o a) \o rest
        BY <2>2, <3>2
      <3>4. LeftAt(k + 1) = a \o rest
        BY DEF more
      <3> HIDE DEF x, a, LeftAt
      <3>5. (x \o a) \o rest = x \o (a \o rest) /\ a \o rest \in Seq(Byte)
        BY <3>1
      <3> QED
        BY ONLY <3>3, <3>4, <3>5, Zenon DEF x
    <2> HIDE DEF LeftAt
    <2>6. g[k].ok /\ g[k].value = done /\ g[k].rest = wire[v] \o LeftAt(k + 1)
      <3>1. PICK l : l = LeftAt(k)
        OBVIOUS
      <3>2. g[k] = ReadAs(done, l)
        BY <2>4, <3>1
      <3>3. g[k].ok /\ g[k].value = done /\ g[k].rest = l
        BY ONLY <3>2, ReadFields
      <3> QED
        BY ONLY <2>5, <3>1, <3>3, Zenon
    <2>7. one[k + 1] = ReadAs(v, LeftAt(k + 1))
      <3>1. g[(k + 1) - 1].rest = wire[values[k + 1]] \o LeftAt(k + 1)
        BY <2>1, <2>6 DEF v
      <3>2. one[k + 1] = ReadAs(values[k + 1], LeftAt(k + 1))
        BY <2>1, <2>5, <3>1 DEF n, EachIsRead
      <3> QED
        BY <3>2 DEF v
    <2>8. g[k + 1] = Taken(g[k], one[k + 1])
      BY <2>1 DEF Goes, n
    <2>9. g[k + 1] = ReadAs(Append(done, v), LeftAt(k + 1))
      BY ONLY <2>6, <2>7, <2>8, ReadFields DEF Taken
    <2>10. g[k + 1] = ReadAs(SubSeq(values, 1, k + 1), LeftAt(k + 1)) /\ k + 1 \in Nat
      <3>1. PICK l : l = LeftAt(k + 1)
        OBVIOUS
      <3>2. g[k + 1] = ReadAs(Append(done, v), l)
        BY <2>9, <3>1, Zenon
      <3>3. g[k + 1] = ReadAs(SubSeq(values, 1, k + 1), l)
        BY ONLY <2>3, <3>2, Zenon
      <3>4. k + 1 \in Nat
        OBVIOUS
      <3> QED
        BY ONLY <3>1, <3>3, <3>4, Zenon
    <2> QED
      BY ONLY <2>10
  <1>4. Nat \subseteq Good
    <2>1. \A k \in Nat : k \in Good => k + 1 \in Good
      <3>1. \A k \in Nat : ~(k + 1 <= n) => k + 1 \in Good
        OBVIOUS
      <3> HIDE DEF Good
      <3> QED
        BY <1>3, <3>1
    <2> HIDE DEF Good
    <2> QED
      BY <1>2, <2>1, NatSetInduction
  <1>5. n \in Good /\ n <= n
    BY <1>1, <1>4
  <1>6. LeftAt(n) = rest
    <2>1. Laid(wire, <<>>) = <<>> /\ <<>> \o rest = rest
      BY LaidNone
    <2> QED
      BY <1>1, <2>1
  <1> HIDE DEF LeftAt
  <1> QED
    BY <1>1, <1>5, <1>6

-----------------------------------------------------------------------------
(* Inputs and outputs *)

InputRecords ==
    [previous_txid : {txid \in Seq(Byte) : Len(txid) = 32}, previous_index : Below(4),
     sequence : Below(4)]
OutputRecords ==
    [value : 0 .. kMaximumBitcoinSupply,
     script : {script \in Seq(Byte) : /\ Len(script) <= kBitcoinMaxScriptSize
                                      /\ address_from_script(kBitcoinMainnet, script) # NoText}]

InputWire == [input \in InputRecords |-> OutPoint(input) \o <<0>> \o write_u32(input.sequence)]
OutputWire ==
    [output \in OutputRecords |->
        write_u64(output.value) \o write_compact_size(Len(output.script)) \o output.script]

\* Four pieces, and five.
LEMMA FourPieces ==
    ASSUME NEW a \in Seq(Byte), NEW b \in Seq(Byte), NEW c \in Seq(Byte), NEW d \in Seq(Byte)
    PROVE  ((a \o b) \o c) \o d = a \o (b \o (c \o d)) /\ (a \o b) \o c \in Seq(Byte)
  <1>1. a \o b \in Seq(Byte) /\ c \o d \in Seq(Byte)
    OBVIOUS
  <1>2. Associate(a \o b, c, d) /\ Associate(a, b, c \o d)
    BY ONLY <1>1, Associates, Zenon
  <1> QED
    BY ONLY <1>2, Zenon DEF Associate

LEMMA FivePieces ==
    ASSUME NEW a \in Seq(Byte), NEW b \in Seq(Byte), NEW c \in Seq(Byte), NEW d \in Seq(Byte),
           NEW e \in Seq(Byte)
    PROVE  /\ (((a \o b) \o c) \o d) \o e = a \o (b \o (c \o (d \o e)))
           /\ ((a \o b) \o c) \o d \in Seq(Byte)
  <1>1. a \o b \in Seq(Byte) /\ (a \o b) \o c \in Seq(Byte) /\ d \o e \in Seq(Byte)
        /\ c \o (d \o e) \in Seq(Byte)
    OBVIOUS
  <1>2. Associate((a \o b) \o c, d, e) /\ Associate(a \o b, c, d \o e) /\ Associate(a, b, c \o (d \o e))
    BY ONLY <1>1, Associates, Zenon
  <1> QED
    BY ONLY <1>2, Zenon DEF Associate

\* The limits are lengths that can be written.
LEMMA WithinLimits ==
    \A n \in Nat :
        \/ n <= kBitcoinMaxInputs \/ n <= kBitcoinMaxOutputs
        \/ n <= kBitcoinMaxScriptSize \/ n <= kMaximumBitcoinSupply
        => n \in Below(8)
  <1>1. PICK r : r = Reach[8]
    OBVIOUS
  <1>2. r \in Nat
    BY <1>1, ReachIs
  <1>3. ASSUME NEW n \in Nat,
               \/ n <= kBitcoinMaxInputs \/ n <= kBitcoinMaxOutputs
               \/ n <= kBitcoinMaxScriptSize \/ n <= kMaximumBitcoinSupply
        PROVE  n < r
    BY ONLY <1>1, <1>2, <1>3, n \in Nat, BytesAssumption DEF BytesAssumption
  <1> QED
    BY ONLY <1>1, <1>3, 8 \in Nat, BelowIs, Zenon

\* A script that is empty has the one byte zero for its length.
LEMMA NoLength ==
    write_compact_size(0) = <<0>> /\ 0 \in Below(8) /\ <<0>> \in Seq(Byte)
  <1>1. 0 \in Nat /\ 0 < ByteEnd - 3 /\ 0 < Reach[8] /\ 0 \in Byte
    BY ReachIs DEF Byte
  <1>2. 0 \in Below(8)
    BY <1>1, BelowIs
  <1> QED
    BY <1>1, <1>2, LengthWritten

\* A field of a fixed size has bytes.
LEMMA FieldBytes ==
    ASSUME NEW size \in Nat, NEW value \in Below(size)
    PROVE  LittleEndian(value, size) \in Seq(Byte)
  BY BelowIs, LittleEndianType

InputStands(txid, previous_index, sequence, rest) ==
    LET input == [previous_txid |-> txid, previous_index |-> previous_index, sequence |-> sequence]
    IN  /\ input \in InputRecords /\ InputWire[input] \in Seq(Byte)
        /\ InputWire[input] \o rest
               = txid \o (LittleEndian(previous_index, 4)
                          \o (<<0>> \o (LittleEndian(sequence, 4) \o rest)))

\* What follows an input is behind its fields, in their order.
LEMMA InputBytes ==
    ASSUME NEW txid \in Seq(Byte), Len(txid) = 32, NEW previous_index \in Below(4), NEW sequence \in Below(4),
           NEW rest \in Seq(Byte)
    PROVE  InputStands(txid, previous_index, sequence, rest)
  <1> DEFINE input == [previous_txid |-> txid, previous_index |-> previous_index, sequence |-> sequence]
  <1> DEFINE p == LittleEndian(previous_index, 4)
             s == LittleEndian(sequence, 4)
             z == <<0>>
  <1>1. input \in InputRecords
    BY DEF InputRecords
  <1>2. InputWire[input] = ((txid \o p) \o z) \o s
    BY <1>1 DEF InputWire, OutPoint, write_u32
  <1>3. p \in Seq(Byte) /\ s \in Seq(Byte) /\ z \in Seq(Byte)
    BY FieldBytes, NoLength
  <1> HIDE DEF p, s, z
  <1>4. /\ (((txid \o p) \o z) \o s) \o rest = txid \o (p \o (z \o (s \o rest)))
        /\ ((txid \o p) \o z) \o s \in Seq(Byte)
    BY <1>3, FivePieces
  <1> QED
    BY ONLY <1>1, <1>2, <1>4, Zenon DEF InputStands, input, p, s, z

\* What follows an output is behind its fields, in their order.
LEMMA OutputBytes ==
    ASSUME NEW value \in 0 .. kMaximumBitcoinSupply, NEW script \in Seq(Byte),
           Len(script) <= kBitcoinMaxScriptSize, address_from_script(kBitcoinMainnet, script) # NoText,
           NEW rest \in Seq(Byte)
    PROVE  LET output == [value |-> value, script |-> script]
           IN  /\ output \in OutputRecords /\ OutputWire[output] \in Seq(Byte)
               /\ value \in Below(8) /\ Len(script) \in Below(8)
               /\ OutputWire[output] \o rest
                      = LittleEndian(value, 8) \o (write_compact_size(Len(script)) \o (script \o rest))
  <1> DEFINE output == [value |-> value, script |-> script]
  <1> DEFINE v == LittleEndian(value, 8)
             l == write_compact_size(Len(script))
  <1>1. output \in OutputRecords
    BY DEF OutputRecords
  <1>2. OutputWire[output] = (v \o l) \o script
    BY <1>1 DEF OutputWire, write_u64
  <1>3. value \in Below(8) /\ Len(script) \in Below(8)
    <2>1. value \in Nat /\ value <= kMaximumBitcoinSupply /\ Len(script) \in Nat
      OBVIOUS
    <2> QED
      BY <2>1, WithinLimits
  <1>4. v \in Seq(Byte) /\ l \in Seq(Byte)
    BY <1>3, FieldBytes, LengthWritten
  <1> HIDE DEF v, l
  <1>5. ((v \o l) \o script) \o rest = v \o (l \o (script \o rest)) /\ (v \o l) \o script \in Seq(Byte)
    BY <1>4, FourPieces
  <1> QED
    BY ONLY <1>1, <1>2, <1>3, <1>5, Zenon DEF v, l

\* The readers of an input and of an output, one field after another.
LEMMA InputByField ==
    ASSUME NEW bytes
    PROVE  LET txid == read_bytes(bytes, 32)
               previous_index == ReadNumber(txid.rest, 4)
               script_size == read_compact_size(previous_index.rest)
               sequence == ReadNumber(script_size.rest, 4)
           IN  ReadInput(bytes)
                   = IF txid.ok /\ previous_index.ok /\ script_size.ok /\ script_size.value = 0 /\ sequence.ok
                     THEN ReadAs([previous_txid |-> txid.value, previous_index |-> previous_index.value,
                                  sequence |-> sequence.value], sequence.rest)
                     ELSE NotRead
  BY DEF ReadInput, Then, read_u32

LEMMA OutputByField ==
    ASSUME NEW bytes
    PROVE  LET value == ReadNumber(bytes, 8)
               script_size == read_compact_size(value.rest)
               script == read_bytes(script_size.rest, script_size.value)
           IN  ReadOutput(bytes)
                   = IF /\ value.ok /\ ~(value.value > kMaximumBitcoinSupply) /\ script_size.ok
                        /\ ~(script_size.value > kBitcoinMaxScriptSize) /\ script.ok
                        /\ address_from_script(kBitcoinMainnet, script.value) # NoText
                     THEN ReadAs([value |-> value.value, script |-> script.value], script.rest)
                     ELSE NotRead
  BY DEF ReadOutput, Then, read_u64

\* An input that is read stood in the bytes.
LEMMA ReadingInputs ==
    ASSUME NEW bytes \in Seq(Byte), ReadInput(bytes).ok
    PROVE  \E input \in InputRecords, rest \in Seq(Byte) :
               ReadInput(bytes) = ReadAs(input, rest) /\ bytes = InputWire[input] \o rest
  <1> DEFINE r1 == read_bytes(bytes, 32)
             r2 == ReadNumber(r1.rest, 4)
             r3 == read_compact_size(r2.rest)
             r4 == ReadNumber(r3.rest, 4)
  <1>1. /\ r1.ok /\ r2.ok /\ r3.ok /\ r3.value = 0 /\ r4.ok
        /\ ReadInput(bytes) = ReadAs([previous_txid |-> r1.value, previous_index |-> r2.value,
                                      sequence |-> r4.value], r4.rest)
    BY InputByField, ReadFields
  <1>2. PICK txid \in Seq(Byte), a \in Seq(Byte) : r1 = ReadAs(txid, a) /\ Len(txid) = 32 /\ bytes = txid \o a
    <2>1. 32 \in Nat /\ r1.ok
      BY <1>1
    <2> QED
      BY ONLY <2>1, bytes \in Seq(Byte), ReadingBytes
  <1> HIDE DEF r1
  <1>3. r1.value = txid /\ r1.rest = a
    BY <1>2, ReadFields
  <1>4. PICK previous_index \in Below(4), b \in Seq(Byte) :
            r2 = ReadAs(previous_index, b) /\ a = LittleEndian(previous_index, 4) \o b
    <2>1. 4 \in Nat /\ ReadNumber(a, 4).ok /\ r2 = ReadNumber(a, 4)
      BY <1>1, <1>3, Zenon
    <2>2. \E v \in Below(4), left \in Seq(Byte) :
              ReadNumber(a, 4) = ReadAs(v, left) /\ a = LittleEndian(v, 4) \o left
      BY ONLY <2>1, a \in Seq(Byte), ReadingNumbers
    <2> QED
      BY ONLY <2>1, <2>2, Zenon
  <1> HIDE DEF r2
  <1>5. r2.value = previous_index /\ r2.rest = b
    BY <1>4, ReadFields
  <1>6. PICK size \in Below(8), c \in Seq(Byte) :
            r3 = ReadAs(size, c) /\ b = write_compact_size(size) \o c
    BY <1>1, <1>5, ReadingLengths
  <1> HIDE DEF r3
  <1>7. size = 0 /\ r3.rest = c
    BY <1>1, <1>6, ReadFields
  <1>8. PICK sequence \in Below(4), d \in Seq(Byte) :
            r4 = ReadAs(sequence, d) /\ c = LittleEndian(sequence, 4) \o d
    <2>1. 4 \in Nat /\ ReadNumber(c, 4).ok /\ r4 = ReadNumber(c, 4)
      BY <1>1, <1>7, Zenon
    <2>2. \E v \in Below(4), left \in Seq(Byte) :
              ReadNumber(c, 4) = ReadAs(v, left) /\ c = LittleEndian(v, 4) \o left
      BY ONLY <2>1, c \in Seq(Byte), ReadingNumbers
    <2> QED
      BY ONLY <2>1, <2>2, Zenon
  <1> HIDE DEF r4
  <1>9. r4.value = sequence /\ r4.rest = d
    BY <1>8, ReadFields
  <1>10. PICK input : input = [previous_txid |-> txid, previous_index |-> previous_index, sequence |-> sequence]
    OBVIOUS
  <1>11. ReadInput(bytes) = ReadAs(input, d)
    BY <1>1, <1>3, <1>5, <1>9, <1>10, Zenon
  <1>12. input \in InputRecords /\ InputWire[input] \o d
             = txid \o (LittleEndian(previous_index, 4) \o (<<0>> \o (LittleEndian(sequence, 4) \o d)))
    <2>1. Len(txid) = 32
      BY <1>2
    <2> QED
      <3>1. InputStands(txid, previous_index, sequence, d)
        BY ONLY <2>1, InputBytes, Zenon
      <3> QED
        BY ONLY <1>10, <3>1, Zenon DEF InputStands
  <1>13. bytes = txid \o (LittleEndian(previous_index, 4) \o (<<0>> \o (LittleEndian(sequence, 4) \o d)))
    <2>1. b = <<0>> \o c
      BY <1>6, <1>7, NoLength, Zenon
    <2> QED
      BY ONLY <1>2, <1>4, <1>8, <2>1, Zenon
  <1> QED
    BY <1>11, <1>12, <1>13

\* An input is read from its bytes, whatever follows.
LEMMA InputsAreRead ==
    ASSUME NEW input \in InputRecords, NEW rest \in Seq(Byte)
    PROVE  ReadInput(InputWire[input] \o rest) = ReadAs(input, rest)
  <1>1. PICK txid : txid = input.previous_txid
    OBVIOUS
  <1>2. PICK previous_index : previous_index = input.previous_index
    OBVIOUS
  <1>3. PICK sequence : sequence = input.sequence
    OBVIOUS
  <1>4. /\ txid \in Seq(Byte) /\ Len(txid) = 32 /\ previous_index \in Below(4) /\ sequence \in Below(4)
        /\ input = [previous_txid |-> txid, previous_index |-> previous_index, sequence |-> sequence]
    BY <1>1, <1>2, <1>3 DEF InputRecords
  <1> DEFINE d == LittleEndian(sequence, 4) \o rest
             c == <<0>> \o d
             b == LittleEndian(previous_index, 4) \o c
             bytes == txid \o b
  <1>5. InputWire[input] \o rest = bytes
    <2>1. InputStands(txid, previous_index, sequence, rest)
      BY ONLY <1>4, rest \in Seq(Byte), InputBytes, Zenon
    <2> QED
      BY ONLY <1>4, <2>1, Zenon DEF InputStands
  <1>6. LittleEndian(sequence, 4) \in Seq(Byte) /\ LittleEndian(previous_index, 4) \in Seq(Byte)
    BY <1>4, FieldBytes
  <1>7. d \in Seq(Byte)
    BY <1>6
  <1>8. ReadNumber(d, 4) = ReadAs(sequence, rest)
    BY <1>4, NumbersReadBack
  <1> HIDE DEF d
  <1>9. c \in Seq(Byte)
    BY <1>7, NoLength
  <1>10. read_compact_size(c) = ReadAs(0, d)
    <2>1. read_compact_size(write_compact_size(0) \o d) = ReadAs(0, d)
      BY <1>7, NoLength, LengthsAreRead
    <2> QED
      BY <2>1, NoLength
  <1> HIDE DEF c
  <1>11. b \in Seq(Byte) /\ ReadNumber(b, 4) = ReadAs(previous_index, c)
    BY <1>4, <1>6, <1>9, NumbersReadBack
  <1> HIDE DEF b
  <1>12. read_bytes(bytes, 32) = ReadAs(txid, b)
    BY <1>4, <1>11, BytesAreRead
  <1> HIDE DEF bytes
  <1>13. ReadInput(bytes) = ReadAs(input, rest)
    <2> DEFINE r1 == read_bytes(bytes, 32)
               r2 == ReadNumber(r1.rest, 4)
               r3 == read_compact_size(r2.rest)
               r4 == ReadNumber(r3.rest, 4)
    <2>1. ReadInput(bytes)
              = IF r1.ok /\ r2.ok /\ r3.ok /\ r3.value = 0 /\ r4.ok
                THEN ReadAs([previous_txid |-> r1.value, previous_index |-> r2.value,
                             sequence |-> r4.value], r4.rest) ELSE NotRead
      BY InputByField
    <2>2. r1.ok /\ r1.value = txid /\ r1.rest = b
      BY <1>12, ReadFields
    <2> HIDE DEF r1
    <2>3. r2.ok /\ r2.value = previous_index /\ r2.rest = c
      BY <1>11, <2>2, ReadFields
    <2> HIDE DEF r2
    <2>4. r3.ok /\ r3.value = 0 /\ r3.rest = d
      BY <1>10, <2>3, ReadFields
    <2> HIDE DEF r3
    <2>5. r4.ok /\ r4.value = sequence /\ r4.rest = rest
      BY <1>8, <2>4, ReadFields
    <2> HIDE DEF r4
    <2> QED
      BY ONLY <1>4, <2>1, <2>2, <2>3, <2>4, <2>5, Zenon
  <1> QED
    BY <1>5, <1>13, Zenon

\* An output that is read stood in the bytes.
LEMMA ReadingOutputs ==
    ASSUME NEW bytes \in Seq(Byte), ReadOutput(bytes).ok
    PROVE  \E output \in OutputRecords, rest \in Seq(Byte) :
               ReadOutput(bytes) = ReadAs(output, rest) /\ bytes = OutputWire[output] \o rest
  <1> DEFINE r1 == ReadNumber(bytes, 8)
             r2 == read_compact_size(r1.rest)
             r3 == read_bytes(r2.rest, r2.value)
  <1>1. /\ r1.ok /\ ~(r1.value > kMaximumBitcoinSupply) /\ r2.ok
        /\ ~(r2.value > kBitcoinMaxScriptSize) /\ r3.ok
        /\ address_from_script(kBitcoinMainnet, r3.value) # NoText
        /\ ReadOutput(bytes) = ReadAs([value |-> r1.value, script |-> r3.value], r3.rest)
    BY OutputByField, ReadFields
  <1>2. PICK value \in Below(8), a \in Seq(Byte) :
            r1 = ReadAs(value, a) /\ bytes = LittleEndian(value, 8) \o a
    BY <1>1, ReadingNumbers
  <1> HIDE DEF r1
  <1>3. r1.value = value /\ r1.rest = a
    BY <1>2, ReadFields
  <1>4. PICK size \in Below(8), b \in Seq(Byte) : r2 = ReadAs(size, b) /\ a = write_compact_size(size) \o b
    BY <1>1, <1>3, ReadingLengths
  <1> HIDE DEF r2
  <1>5. r2.value = size /\ r2.rest = b
    BY <1>4, ReadFields
  <1>6. PICK script \in Seq(Byte), c \in Seq(Byte) : r3 = ReadAs(script, c) /\ Len(script) = size /\ b = script \o c
    <2>1. size \in Nat
      BY BelowIs
    <2> QED
      BY <1>1, <1>5, <2>1, ReadingBytes
  <1> HIDE DEF r3
  <1>7. r3.value = script /\ r3.rest = c
    BY <1>6, ReadFields
  <1>8. PICK output : output = [value |-> value, script |-> script]
    OBVIOUS
  <1>9. ReadOutput(bytes) = ReadAs(output, c)
    BY <1>1, <1>3, <1>7, <1>8, Zenon
  <1>10. output \in OutputRecords /\ OutputWire[output] \o c
             = LittleEndian(value, 8) \o (write_compact_size(Len(script)) \o (script \o c))
    <2>1. value \in 0 .. kMaximumBitcoinSupply /\ Len(script) <= kBitcoinMaxScriptSize
      BY <1>1, <1>3, <1>5, <1>6, BelowIs, BytesAssumption DEF BytesAssumption
    <2> QED
      BY ONLY <1>1, <1>7, <1>8, <2>1, script \in Seq(Byte), c \in Seq(Byte), OutputBytes
  <1>11. bytes = LittleEndian(value, 8) \o (write_compact_size(Len(script)) \o (script \o c))
    BY ONLY <1>2, <1>4, <1>6, Zenon
  <1> QED
    BY <1>9, <1>10, <1>11

\* An output is read from its bytes, whatever follows.
LEMMA OutputsAreRead ==
    ASSUME NEW output \in OutputRecords, NEW rest \in Seq(Byte)
    PROVE  ReadOutput(OutputWire[output] \o rest) = ReadAs(output, rest)
  <1>1. PICK value : value = output.value
    OBVIOUS
  <1>2. PICK script : script = output.script
    OBVIOUS
  <1>3. /\ value \in 0 .. kMaximumBitcoinSupply /\ script \in Seq(Byte)
        /\ Len(script) <= kBitcoinMaxScriptSize
        /\ address_from_script(kBitcoinMainnet, script) # NoText
        /\ output = [value |-> value, script |-> script]
    BY <1>1, <1>2 DEF OutputRecords
  <1> DEFINE size == Len(script)
             c == script \o rest
             b == write_compact_size(size) \o c
             bytes == LittleEndian(value, 8) \o b
  <1>4. OutputWire[output] \o rest = bytes /\ value \in Below(8) /\ size \in Below(8)
    BY ONLY <1>3, rest \in Seq(Byte), OutputBytes
  <1>5. c \in Seq(Byte) /\ read_bytes(c, size) = ReadAs(script, rest)
    BY <1>3, BytesAreRead
  <1> HIDE DEF c
  <1>6. b \in Seq(Byte)
    <2>1. write_compact_size(size) \in Seq(Byte)
      BY <1>4, LengthWritten
    <2> HIDE DEF size
    <2> QED
      BY <1>5, <2>1
  <1>7. read_compact_size(b) = ReadAs(size, c)
    BY <1>4, <1>5, LengthsAreRead
  <1> HIDE DEF b
  <1>8. ReadNumber(bytes, 8) = ReadAs(value, b)
    BY <1>4, <1>6, NumbersReadBack
  <1> HIDE DEF bytes
  <1>9. ReadOutput(bytes) = ReadAs(output, rest)
    <2> DEFINE r1 == ReadNumber(bytes, 8)
               r2 == read_compact_size(r1.rest)
               r3 == read_bytes(r2.rest, r2.value)
    <2>1. ReadOutput(bytes)
              = IF /\ r1.ok /\ ~(r1.value > kMaximumBitcoinSupply) /\ r2.ok
                   /\ ~(r2.value > kBitcoinMaxScriptSize) /\ r3.ok
                   /\ address_from_script(kBitcoinMainnet, r3.value) # NoText
                THEN ReadAs([value |-> r1.value, script |-> r3.value], r3.rest) ELSE NotRead
      BY OutputByField
    <2>2. r1.ok /\ r1.value = value /\ r1.rest = b
      BY <1>8, ReadFields
    <2> HIDE DEF r1
    <2>3. r2.ok /\ r2.value = size /\ r2.rest = c
      BY <1>7, <2>2, ReadFields
    <2> HIDE DEF r2
    <2>4. r3.ok /\ r3.value = script /\ r3.rest = rest
      BY <1>5, <2>3, ReadFields
    <2> HIDE DEF r3
    <2>5. ~(value > kMaximumBitcoinSupply) /\ ~(size > kBitcoinMaxScriptSize)
      BY <1>3, BytesAssumption DEF BytesAssumption
    <2> HIDE DEF size
    <2> QED
      BY ONLY <1>3, <2>1, <2>2, <2>3, <2>4, <2>5, Zenon
  <1> QED
    BY <1>4, <1>9, Zenon

-----------------------------------------------------------------------------
(* The readers one after another *)

\* The reader of an input has an outcome for all bytes.
LEMMA InputOutcomes ==
    /\ InputWire \in [InputRecords -> Seq(Byte)]
    /\ [bytes \in Seq(Byte) |-> ReadInput(bytes)] \in [Seq(Byte) -> Outcomes(InputRecords)]
  <1>1. ASSUME NEW input \in InputRecords PROVE InputWire[input] \in Seq(Byte)
    <2>1. PICK txid, previous_index, sequence :
              txid = input.previous_txid /\ previous_index = input.previous_index /\ sequence = input.sequence
      OBVIOUS
    <2>2. /\ txid \in Seq(Byte) /\ Len(txid) = 32 /\ previous_index \in Below(4) /\ sequence \in Below(4)
          /\ input = [previous_txid |-> txid, previous_index |-> previous_index, sequence |-> sequence]
          /\ <<>> \in Seq(Byte)
      BY <2>1 DEF InputRecords
    <2>3. InputStands(txid, previous_index, sequence, <<>>)
      BY ONLY <2>2, InputBytes, Zenon
    <2> QED
      BY ONLY <2>2, <2>3, Zenon DEF InputStands
  <1>2. InputWire \in [InputRecords -> Seq(Byte)]
    <2>1. InputWire = [input \in InputRecords |-> InputWire[input]]
      BY DEF InputWire
    <2> QED
      BY ONLY <1>1, <2>1
  <1>3. ASSUME NEW bytes \in Seq(Byte) PROVE ReadInput(bytes) \in Outcomes(InputRecords)
    <2>1. CASE ReadInput(bytes).ok
      BY ONLY <2>1, bytes \in Seq(Byte), ReadingInputs, OutcomesAre, Zenon
    <2>2. CASE ~ReadInput(bytes).ok
      <3>1. ReadInput(bytes) = NotRead
        <4> DEFINE r1 == read_bytes(bytes, 32)
                   r2 == ReadNumber(r1.rest, 4)
                   r3 == read_compact_size(r2.rest)
                   r4 == ReadNumber(r3.rest, 4)
        <4>1. ReadInput(bytes)
                  = IF r1.ok /\ r2.ok /\ r3.ok /\ r3.value = 0 /\ r4.ok
                    THEN ReadAs([previous_txid |-> r1.value, previous_index |-> r2.value,
                                 sequence |-> r4.value], r4.rest) ELSE NotRead
          BY InputByField
        <4> HIDE DEF r1, r2, r3, r4
        <4> QED
          BY ONLY <2>2, <4>1 DEF ReadAs
      <3> QED
        BY ONLY <3>1, OutcomesAre, Zenon
    <2> QED
      BY <2>1, <2>2
  <1> QED
    BY <1>2, <1>3

\* The reader of an output has an outcome for all bytes.
LEMMA OutputOutcomes ==
    /\ OutputWire \in [OutputRecords -> Seq(Byte)]
    /\ [bytes \in Seq(Byte) |-> ReadOutput(bytes)] \in [Seq(Byte) -> Outcomes(OutputRecords)]
  <1>1. ASSUME NEW output \in OutputRecords PROVE OutputWire[output] \in Seq(Byte)
    <2>1. PICK value, script : value = output.value /\ script = output.script
      OBVIOUS
    <2>2. /\ value \in 0 .. kMaximumBitcoinSupply /\ script \in Seq(Byte)
          /\ Len(script) <= kBitcoinMaxScriptSize
          /\ address_from_script(kBitcoinMainnet, script) # NoText
          /\ output = [value |-> value, script |-> script] /\ <<>> \in Seq(Byte)
      BY <2>1 DEF OutputRecords
    <2> QED
      BY ONLY <2>2, OutputBytes
  <1>2. OutputWire \in [OutputRecords -> Seq(Byte)]
    <2>1. OutputWire = [output \in OutputRecords |-> OutputWire[output]]
      BY DEF OutputWire
    <2> QED
      BY ONLY <1>1, <2>1
  <1>3. ASSUME NEW bytes \in Seq(Byte) PROVE ReadOutput(bytes) \in Outcomes(OutputRecords)
    <2>1. CASE ReadOutput(bytes).ok
      BY ONLY <2>1, bytes \in Seq(Byte), ReadingOutputs, OutcomesAre, Zenon
    <2>2. CASE ~ReadOutput(bytes).ok
      <3>1. ReadOutput(bytes) = NotRead
        BY <2>2, OutputByField, ReadFields
      <3> QED
        BY ONLY <3>1, OutcomesAre, Zenon
    <2> QED
      BY <2>1, <2>2
  <1> QED
    BY <1>2, <1>3

\* The items that are read come one after another: the function the reader counts with exists.
LEMMA InputsByStep ==
    ASSUME NEW bytes \in Seq(Byte), NEW count \in Nat
    PROVE  \E g : /\ Goes(g, bytes, count, [i \in 1 .. count |-> ReadInput(g[i - 1].rest)])
                  /\ ReadItems(bytes, count, ReadInput) = g[count]
  <1> DEFINE one == [b \in Seq(Byte) |-> ReadInput(b)]
             After(f, i) == IF i = 0 THEN ReadAs(<<>>, bytes)
                            ELSE Then(f[i - 1], LAMBDA items, after :
                                     Then(ReadInput(after), LAMBDA item, left :
                                         ReadAs(Append(items, item), left)))
             g == CHOOSE f : f = [i \in 0 .. count |-> After(f, i)]
  <1>1. one \in [Seq(Byte) -> Outcomes(InputRecords)]
    BY InputOutcomes
  <1>2. PICK f \in [0 .. count -> Outcomes(Seq(InputRecords))] :
            /\ f[0] = ReadAs(<<>>, bytes)
            /\ \A i \in 1 .. count : f[i] = Taken(f[i - 1], one[f[i - 1].rest])
    <2> HIDE DEF one
    <2> QED
      <3>1. ItemsStand(InputRecords, one, bytes, count)
        BY ONLY <1>1, bytes \in Seq(Byte), count \in Nat, ItemsExist, Zenon
      <3> QED
        BY ONLY <3>1, Zenon DEF ItemsStand
  <1>3. ASSUME NEW h, NEW i \in 1 .. count PROVE After(h, i) = Taken(h[i - 1], ReadInput(h[i - 1].rest))
    <2>1. i # 0
      OBVIOUS
    <2> QED
      BY ONLY <2>1, Zenon DEF Then, Taken
  <1>4. ASSUME NEW i \in 1 .. count PROVE f[i] = After(f, i)
    <2>1. f[i - 1] \in Outcomes(Seq(InputRecords))
      BY <1>2
    <2>2. CASE f[i - 1] = NotRead
      <3> HIDE DEF one, After
      <3>1. ~f[i - 1].ok
        BY ONLY <2>2 DEF NotRead
      <3>2. Taken(f[i - 1], one[f[i - 1].rest]) = NotRead
            /\ Taken(f[i - 1], ReadInput(f[i - 1].rest)) = NotRead
        BY ONLY <3>1, Zenon DEF Taken
      <3>3. f[i] = Taken(f[i - 1], one[f[i - 1].rest])
        BY ONLY <1>2, i \in 1 .. count, Zenon
      <3>4. After(f, i) = Taken(f[i - 1], ReadInput(f[i - 1].rest))
        BY ONLY <1>3, i \in 1 .. count, Zenon
      <3> QED
        BY ONLY <3>2, <3>3, <3>4, Zenon
    <2>3. CASE \E value \in Seq(InputRecords), rest \in Seq(Byte) : f[i - 1] = ReadAs(value, rest)
      <3>1. f[i - 1].rest \in Seq(Byte)
        <4>1. PICK value \in Seq(InputRecords), rest \in Seq(Byte) : f[i - 1] = ReadAs(value, rest)
          BY <2>3
        <4> QED
          BY <4>1 DEF ReadAs
      <3>2. one[f[i - 1].rest] = ReadInput(f[i - 1].rest)
        BY ONLY <3>1
      <3> HIDE DEF one, After
      <3> QED
        BY ONLY <1>2, <1>3, <3>2, Zenon
    <2> QED
      BY ONLY <2>1, <2>2, <2>3, OutcomesAre, Zenon
  <1>5. f = [i \in 0 .. count |-> After(f, i)]
    <2>1. f[0] = After(f, 0)
      BY <1>2
    <2> HIDE DEF After
    <2>2. \A i \in 0 .. count : f[i] = After(f, i)
      BY <1>4, <2>1
    <2> QED
      BY <2>2
  <1>6. g = [i \in 0 .. count |-> After(g, i)]
    BY ONLY <1>5, Zenon
  <1>7. ReadItems(bytes, count, ReadInput) = g[count]
    BY ONLY Zenon DEF ReadItems
  <1> HIDE DEF g
  <1>8. Goes(g, bytes, count, [i \in 1 .. count |-> ReadInput(g[i - 1].rest)])
    <2>1. g[0] = ReadAs(<<>>, bytes)
      <3>1. 0 \in 0 .. count
        OBVIOUS
      <3>2. After(g, 0) = ReadAs(<<>>, bytes)
        BY ONLY Zenon
      <3> HIDE DEF After
      <3> QED
        BY ONLY <1>6, <3>1, <3>2
    <2> HIDE DEF After
    <2>2. ASSUME NEW i \in 1 .. count PROVE g[i] = Taken(g[i - 1], ReadInput(g[i - 1].rest))
      <3>1. i \in 0 .. count
        OBVIOUS
      <3> QED
        BY ONLY <1>3, <1>6, <3>1
    <2> QED
      BY ONLY <2>1, <2>2 DEF Goes
  <1> QED
    BY ONLY <1>7, <1>8, Zenon

\* The same for the outputs.
LEMMA OutputsByStep ==
    ASSUME NEW bytes \in Seq(Byte), NEW count \in Nat
    PROVE  \E g : /\ Goes(g, bytes, count, [i \in 1 .. count |-> ReadOutput(g[i - 1].rest)])
                  /\ ReadItems(bytes, count, ReadOutput) = g[count]
  <1> DEFINE one == [b \in Seq(Byte) |-> ReadOutput(b)]
             After(f, i) == IF i = 0 THEN ReadAs(<<>>, bytes)
                            ELSE Then(f[i - 1], LAMBDA items, after :
                                     Then(ReadOutput(after), LAMBDA item, left :
                                         ReadAs(Append(items, item), left)))
             g == CHOOSE f : f = [i \in 0 .. count |-> After(f, i)]
  <1>1. one \in [Seq(Byte) -> Outcomes(OutputRecords)]
    BY OutputOutcomes
  <1>2. PICK f \in [0 .. count -> Outcomes(Seq(OutputRecords))] :
            /\ f[0] = ReadAs(<<>>, bytes)
            /\ \A i \in 1 .. count : f[i] = Taken(f[i - 1], one[f[i - 1].rest])
    <2> HIDE DEF one
    <2> QED
      <3>1. ItemsStand(OutputRecords, one, bytes, count)
        BY ONLY <1>1, bytes \in Seq(Byte), count \in Nat, ItemsExist, Zenon
      <3> QED
        BY ONLY <3>1, Zenon DEF ItemsStand
  <1>3. ASSUME NEW h, NEW i \in 1 .. count PROVE After(h, i) = Taken(h[i - 1], ReadOutput(h[i - 1].rest))
    <2>1. i # 0
      OBVIOUS
    <2> QED
      BY ONLY <2>1, Zenon DEF Then, Taken
  <1>4. ASSUME NEW i \in 1 .. count PROVE f[i] = After(f, i)
    <2>1. f[i - 1] \in Outcomes(Seq(OutputRecords))
      BY <1>2
    <2>2. CASE f[i - 1] = NotRead
      <3> HIDE DEF one, After
      <3>1. ~f[i - 1].ok
        BY ONLY <2>2 DEF NotRead
      <3>2. Taken(f[i - 1], one[f[i - 1].rest]) = NotRead
            /\ Taken(f[i - 1], ReadOutput(f[i - 1].rest)) = NotRead
        BY ONLY <3>1, Zenon DEF Taken
      <3>3. f[i] = Taken(f[i - 1], one[f[i - 1].rest])
        BY ONLY <1>2, i \in 1 .. count, Zenon
      <3>4. After(f, i) = Taken(f[i - 1], ReadOutput(f[i - 1].rest))
        BY ONLY <1>3, i \in 1 .. count, Zenon
      <3> QED
        BY ONLY <3>2, <3>3, <3>4, Zenon
    <2>3. CASE \E value \in Seq(OutputRecords), rest \in Seq(Byte) : f[i - 1] = ReadAs(value, rest)
      <3>1. f[i - 1].rest \in Seq(Byte)
        <4>1. PICK value \in Seq(OutputRecords), rest \in Seq(Byte) : f[i - 1] = ReadAs(value, rest)
          BY <2>3
        <4> QED
          BY <4>1 DEF ReadAs
      <3>2. one[f[i - 1].rest] = ReadOutput(f[i - 1].rest)
        BY ONLY <3>1
      <3> HIDE DEF one, After
      <3> QED
        BY ONLY <1>2, <1>3, <3>2, Zenon
    <2> QED
      BY ONLY <2>1, <2>2, <2>3, OutcomesAre, Zenon
  <1>5. f = [i \in 0 .. count |-> After(f, i)]
    <2>1. f[0] = After(f, 0)
      BY <1>2
    <2> HIDE DEF After
    <2>2. \A i \in 0 .. count : f[i] = After(f, i)
      BY <1>4, <2>1
    <2> QED
      BY <2>2
  <1>6. g = [i \in 0 .. count |-> After(g, i)]
    BY ONLY <1>5, Zenon
  <1>7. ReadItems(bytes, count, ReadOutput) = g[count]
    BY ONLY Zenon DEF ReadItems
  <1> HIDE DEF g
  <1>8. Goes(g, bytes, count, [i \in 1 .. count |-> ReadOutput(g[i - 1].rest)])
    <2>1. g[0] = ReadAs(<<>>, bytes)
      <3>1. 0 \in 0 .. count
        OBVIOUS
      <3>2. After(g, 0) = ReadAs(<<>>, bytes)
        BY ONLY Zenon
      <3> HIDE DEF After
      <3> QED
        BY ONLY <1>6, <3>1, <3>2
    <2> HIDE DEF After
    <2>2. ASSUME NEW i \in 1 .. count PROVE g[i] = Taken(g[i - 1], ReadOutput(g[i - 1].rest))
      <3>1. i \in 0 .. count
        OBVIOUS
      <3> QED
        BY ONLY <1>3, <1>6, <3>1
    <2> QED
      BY ONLY <2>1, <2>2 DEF Goes
  <1> QED
    BY ONLY <1>7, <1>8, Zenon

-----------------------------------------------------------------------------
(* A counted number of items *)

\* The items are as many as the length before them says, and within the limit.
LEMMA CountedByStep ==
    ASSUME NEW bytes
    PROVE  LET count == read_compact_size(bytes)
           IN  /\ ReadCounted(bytes, kBitcoinMaxInputs, ReadInput)
                      = IF count.ok /\ count.value \in 1 .. kBitcoinMaxInputs
                        THEN ReadItems(count.rest, count.value, ReadInput) ELSE NotRead
               /\ ReadCounted(bytes, kBitcoinMaxOutputs, ReadOutput)
                      = IF count.ok /\ count.value \in 1 .. kBitcoinMaxOutputs
                        THEN ReadItems(count.rest, count.value, ReadOutput) ELSE NotRead
  BY Zenon DEF ReadCounted, Then

\* What stands in bytes that were taken for a counted number of items.
CountStands(bytes, read, limit, T, wire) ==
    \E values \in Seq(T), rest \in Seq(Byte) :
        /\ read = ReadAs(values, rest) /\ Len(values) \in 1 .. limit
        /\ bytes = write_compact_size(Len(values)) \o (Laid(wire, values) \o rest)

\* Inputs that are read stood in the bytes behind their number.
LEMMA ReadingCountedInputs ==
    ASSUME NEW bytes \in Seq(Byte), ReadCounted(bytes, kBitcoinMaxInputs, ReadInput).ok
    PROVE  CountStands(bytes, ReadCounted(bytes, kBitcoinMaxInputs, ReadInput), kBitcoinMaxInputs,
                   InputRecords, InputWire)
  <1> DEFINE r == read_compact_size(bytes)
             all == ReadCounted(bytes, kBitcoinMaxInputs, ReadInput)
  <1>1. all = IF r.ok /\ r.value \in 1 .. kBitcoinMaxInputs
              THEN ReadItems(r.rest, r.value, ReadInput) ELSE NotRead
    BY CountedByStep
  <1>2. /\ r.ok /\ r.value \in 1 .. kBitcoinMaxInputs /\ all.ok
        /\ all = ReadItems(r.rest, r.value, ReadInput)
    <2> HIDE DEF r, all
    <2>1. all.ok
      BY DEF all
    <2> QED
      BY ONLY <1>1, <2>1, ReadFields, Zenon
  <1>3. PICK count \in Below(8), a \in Seq(Byte) : r = ReadAs(count, a) /\ bytes = write_compact_size(count) \o a
    BY ONLY <1>2, bytes \in Seq(Byte), ReadingLengths
  <1> HIDE DEF r, all
  <1>4. r.value = count /\ r.rest = a /\ count \in Nat
    BY <1>3, ReadFields, BelowIs
  <1>5. PICK g : /\ Goes(g, a, count, [i \in 1 .. count |-> ReadInput(g[i - 1].rest)])
                 /\ ReadItems(a, count, ReadInput) = g[count]
    BY ONLY <1>4, a \in Seq(Byte), InputsByStep
  <1>6. all = g[count] /\ g[count].ok
    BY ONLY <1>2, <1>4, <1>5, Zenon
  <1> DEFINE one == [i \in 1 .. count |-> ReadInput(g[i - 1].rest)]
  <1>7. ASSUME NEW i \in 1 .. count, g[i - 1].rest \in Seq(Byte), one[i].ok
        PROVE  \E v \in InputRecords, left \in Seq(Byte) :
                   one[i] = ReadAs(v, left) /\ g[i - 1].rest = InputWire[v] \o left
    <2>1. one[i] = ReadInput(g[i - 1].rest)
      BY ONLY i \in 1 .. count
    <2> HIDE DEF one
    <2>2. ReadInput(g[i - 1].rest).ok
      BY ONLY <1>7, <2>1, Zenon
    <2>3. PICK x \in Seq(Byte) : x = g[i - 1].rest
      BY <1>7
    <2>4. ReadInput(x).ok
      BY ONLY <2>2, <2>3, Zenon
    <2>5. \E v \in InputRecords, left \in Seq(Byte) : ReadInput(x) = ReadAs(v, left) /\ x = InputWire[v] \o left
      BY ONLY <2>4, x \in Seq(Byte), ReadingInputs
    <2> QED
      BY ONLY <2>1, <2>3, <2>5, Zenon
  <1>8. Goes(g, a, count, one)
    BY <1>5
  <1> HIDE DEF one
  <1>9. PICK values \in Seq(InputRecords), rest \in Seq(Byte) :
            g[count] = ReadAs(values, rest) /\ Len(values) = count /\ a = Laid(InputWire, values) \o rest
    <2>1. InputWire \in [InputRecords -> Seq(Byte)]
      BY InputOutcomes
    <2>2. EachStands(g, one, count, InputRecords, InputWire)
      BY ONLY <1>7, Zenon DEF EachStands
    <2>3. AllStand(g[count], a, count, InputRecords, InputWire)
      BY ONLY <1>4, <1>6, <1>8, <2>1, <2>2, a \in Seq(Byte), ItemsLaid, Zenon
    <2> QED
      BY ONLY <2>3, Zenon DEF AllStand
  <1>10. bytes = write_compact_size(Len(values)) \o (Laid(InputWire, values) \o rest)
    BY ONLY <1>3, <1>9, Zenon
  <1>11. Len(values) \in 1 .. kBitcoinMaxInputs /\ all = ReadAs(values, rest)
    BY ONLY <1>2, <1>4, <1>6, <1>9, Zenon
  <1> QED
    BY ONLY <1>10, <1>11, values \in Seq(InputRecords), rest \in Seq(Byte), Zenon DEF CountStands, all

\* Inputs are read from their number and their bytes, whatever follows.
LEMMA CountedInputsAreRead ==
    ASSUME NEW values \in Seq(InputRecords), Len(values) \in 1 .. kBitcoinMaxInputs, NEW rest \in Seq(Byte)
    PROVE  ReadCounted(write_compact_size(Len(values)) \o (Laid(InputWire, values) \o rest),
                       kBitcoinMaxInputs, ReadInput)
               = ReadAs(values, rest)
  <1> DEFINE count == Len(values)
             a == Laid(InputWire, values) \o rest
             bytes == write_compact_size(count) \o a
             r == read_compact_size(bytes)
             all == ReadCounted(bytes, kBitcoinMaxInputs, ReadInput)
  <1>1. InputWire \in [InputRecords -> Seq(Byte)]
    BY InputOutcomes
  <1>2. Laid(InputWire, values) \in Seq(Byte)
    BY ONLY <1>1, values \in Seq(InputRecords), LaidType, Zenon
  <1>3. a \in Seq(Byte)
    BY ONLY <1>2, rest \in Seq(Byte)
  <1>4. count \in Below(8) /\ count \in Nat /\ count \in 1 .. kBitcoinMaxInputs
    <2>1. count \in 1 .. kBitcoinMaxInputs
      OBVIOUS
    <2> HIDE DEF count
    <2>2. count \in Nat /\ count <= kBitcoinMaxInputs
      BY ONLY <2>1, BytesAssumption DEF BytesAssumption
    <2> QED
      BY ONLY <2>1, <2>2, WithinLimits, Zenon
  <1>5. PICK x : x = a
    OBVIOUS
  <1>6. r = ReadAs(count, a)
    <2> HIDE DEF count, a
    <2> QED
      BY ONLY <1>3, <1>4, LengthsAreRead, Zenon DEF r, bytes
  <1>7. all = IF r.ok /\ r.value \in 1 .. kBitcoinMaxInputs
              THEN ReadItems(r.rest, r.value, ReadInput) ELSE NotRead
    BY CountedByStep
  <1>8. all = ReadItems(a, count, ReadInput)
    <2> HIDE DEF r, all, a, count
    <2>1. r.ok /\ r.value = count /\ r.rest = a
      BY ONLY <1>6, ReadFields, Zenon
    <2> QED
      BY ONLY <1>4, <1>7, <2>1, Zenon
  <1> HIDE DEF all, r, bytes
  <1>9. PICK g : /\ Goes(g, a, count, [i \in 1 .. count |-> ReadInput(g[i - 1].rest)])
                 /\ ReadItems(a, count, ReadInput) = g[count]
    <2> HIDE DEF a, count
    <2> QED
      BY ONLY <1>3, <1>4, InputsByStep
  <1> DEFINE one == [i \in 1 .. count |-> ReadInput(g[i - 1].rest)]
  <1>10. ASSUME NEW i \in 1 .. Len(values), NEW left \in Seq(Byte), g[i - 1].rest = InputWire[values[i]] \o left
         PROVE  one[i] = ReadAs(values[i], left)
    <2>1. one[i] = ReadInput(g[i - 1].rest)
      BY ONLY i \in 1 .. Len(values)
    <2> HIDE DEF one
    <2>2. values[i] \in InputRecords
      BY ONLY values \in Seq(InputRecords), i \in 1 .. Len(values)
    <2>3. ReadInput(InputWire[values[i]] \o left) = ReadAs(values[i], left)
      BY ONLY <2>2, left \in Seq(Byte), InputsAreRead, Zenon
    <2> QED
      BY ONLY <1>10, <2>1, <2>3, Zenon
  <1>11. Goes(g, Laid(InputWire, values) \o rest, Len(values), one)
    BY ONLY <1>9, Zenon
  <1> HIDE DEF one
  <1>12. EachIsRead(g, one, values, InputWire)
    BY ONLY <1>10, Zenon DEF EachIsRead
  <1>13. g[Len(values)] = ReadAs(values, rest)
    BY ONLY <1>1, <1>11, <1>12, values \in Seq(InputRecords), rest \in Seq(Byte), ItemsRead, Zenon
  <1> QED
    BY ONLY <1>8, <1>9, <1>13, Zenon DEF all, bytes

\* Outputs that are read stood in the bytes behind their number.
LEMMA ReadingCountedOutputs ==
    ASSUME NEW bytes \in Seq(Byte), ReadCounted(bytes, kBitcoinMaxOutputs, ReadOutput).ok
    PROVE  CountStands(bytes, ReadCounted(bytes, kBitcoinMaxOutputs, ReadOutput), kBitcoinMaxOutputs,
                   OutputRecords, OutputWire)
  <1> DEFINE r == read_compact_size(bytes)
             all == ReadCounted(bytes, kBitcoinMaxOutputs, ReadOutput)
  <1>1. all = IF r.ok /\ r.value \in 1 .. kBitcoinMaxOutputs
              THEN ReadItems(r.rest, r.value, ReadOutput) ELSE NotRead
    BY CountedByStep
  <1>2. /\ r.ok /\ r.value \in 1 .. kBitcoinMaxOutputs /\ all.ok
        /\ all = ReadItems(r.rest, r.value, ReadOutput)
    <2> HIDE DEF r, all
    <2>1. all.ok
      BY DEF all
    <2> QED
      BY ONLY <1>1, <2>1, ReadFields, Zenon
  <1>3. PICK count \in Below(8), a \in Seq(Byte) : r = ReadAs(count, a) /\ bytes = write_compact_size(count) \o a
    BY ONLY <1>2, bytes \in Seq(Byte), ReadingLengths
  <1> HIDE DEF r, all
  <1>4. r.value = count /\ r.rest = a /\ count \in Nat
    BY <1>3, ReadFields, BelowIs
  <1>5. PICK g : /\ Goes(g, a, count, [i \in 1 .. count |-> ReadOutput(g[i - 1].rest)])
                 /\ ReadItems(a, count, ReadOutput) = g[count]
    BY ONLY <1>4, a \in Seq(Byte), OutputsByStep
  <1>6. all = g[count] /\ g[count].ok
    BY ONLY <1>2, <1>4, <1>5, Zenon
  <1> DEFINE one == [i \in 1 .. count |-> ReadOutput(g[i - 1].rest)]
  <1>7. ASSUME NEW i \in 1 .. count, g[i - 1].rest \in Seq(Byte), one[i].ok
        PROVE  \E v \in OutputRecords, left \in Seq(Byte) :
                   one[i] = ReadAs(v, left) /\ g[i - 1].rest = OutputWire[v] \o left
    <2>1. one[i] = ReadOutput(g[i - 1].rest)
      BY ONLY i \in 1 .. count
    <2> HIDE DEF one
    <2>2. ReadOutput(g[i - 1].rest).ok
      BY ONLY <1>7, <2>1, Zenon
    <2>3. PICK x \in Seq(Byte) : x = g[i - 1].rest
      BY <1>7
    <2>4. ReadOutput(x).ok
      BY ONLY <2>2, <2>3, Zenon
    <2>5. \E v \in OutputRecords, left \in Seq(Byte) : ReadOutput(x) = ReadAs(v, left) /\ x = OutputWire[v] \o left
      BY ONLY <2>4, x \in Seq(Byte), ReadingOutputs
    <2> QED
      BY ONLY <2>1, <2>3, <2>5, Zenon
  <1>8. Goes(g, a, count, one)
    BY <1>5
  <1> HIDE DEF one
  <1>9. PICK values \in Seq(OutputRecords), rest \in Seq(Byte) :
            g[count] = ReadAs(values, rest) /\ Len(values) = count /\ a = Laid(OutputWire, values) \o rest
    <2>1. OutputWire \in [OutputRecords -> Seq(Byte)]
      BY OutputOutcomes
    <2>2. EachStands(g, one, count, OutputRecords, OutputWire)
      BY ONLY <1>7, Zenon DEF EachStands
    <2>3. AllStand(g[count], a, count, OutputRecords, OutputWire)
      BY ONLY <1>4, <1>6, <1>8, <2>1, <2>2, a \in Seq(Byte), ItemsLaid, Zenon
    <2> QED
      BY ONLY <2>3, Zenon DEF AllStand
  <1>10. bytes = write_compact_size(Len(values)) \o (Laid(OutputWire, values) \o rest)
    BY ONLY <1>3, <1>9, Zenon
  <1>11. Len(values) \in 1 .. kBitcoinMaxOutputs /\ all = ReadAs(values, rest)
    BY ONLY <1>2, <1>4, <1>6, <1>9, Zenon
  <1> QED
    BY ONLY <1>10, <1>11, values \in Seq(OutputRecords), rest \in Seq(Byte), Zenon DEF CountStands, all

\* Outputs are read from their number and their bytes, whatever follows.
LEMMA CountedOutputsAreRead ==
    ASSUME NEW values \in Seq(OutputRecords), Len(values) \in 1 .. kBitcoinMaxOutputs, NEW rest \in Seq(Byte)
    PROVE  ReadCounted(write_compact_size(Len(values)) \o (Laid(OutputWire, values) \o rest),
                       kBitcoinMaxOutputs, ReadOutput)
               = ReadAs(values, rest)
  <1> DEFINE count == Len(values)
             a == Laid(OutputWire, values) \o rest
             bytes == write_compact_size(count) \o a
             r == read_compact_size(bytes)
             all == ReadCounted(bytes, kBitcoinMaxOutputs, ReadOutput)
  <1>1. OutputWire \in [OutputRecords -> Seq(Byte)]
    BY OutputOutcomes
  <1>2. Laid(OutputWire, values) \in Seq(Byte)
    BY ONLY <1>1, values \in Seq(OutputRecords), LaidType, Zenon
  <1>3. a \in Seq(Byte)
    BY ONLY <1>2, rest \in Seq(Byte)
  <1>4. count \in Below(8) /\ count \in Nat /\ count \in 1 .. kBitcoinMaxOutputs
    <2>1. count \in 1 .. kBitcoinMaxOutputs
      OBVIOUS
    <2> HIDE DEF count
    <2>2. count \in Nat /\ count <= kBitcoinMaxOutputs
      BY ONLY <2>1, BytesAssumption DEF BytesAssumption
    <2> QED
      BY ONLY <2>1, <2>2, WithinLimits, Zenon
  <1>5. PICK x : x = a
    OBVIOUS
  <1>6. r = ReadAs(count, a)
    <2> HIDE DEF count, a
    <2> QED
      BY ONLY <1>3, <1>4, LengthsAreRead, Zenon DEF r, bytes
  <1>7. all = IF r.ok /\ r.value \in 1 .. kBitcoinMaxOutputs
              THEN ReadItems(r.rest, r.value, ReadOutput) ELSE NotRead
    BY CountedByStep
  <1>8. all = ReadItems(a, count, ReadOutput)
    <2> HIDE DEF r, all, a, count
    <2>1. r.ok /\ r.value = count /\ r.rest = a
      BY ONLY <1>6, ReadFields, Zenon
    <2> QED
      BY ONLY <1>4, <1>7, <2>1, Zenon
  <1> HIDE DEF all, r, bytes
  <1>9. PICK g : /\ Goes(g, a, count, [i \in 1 .. count |-> ReadOutput(g[i - 1].rest)])
                 /\ ReadItems(a, count, ReadOutput) = g[count]
    <2> HIDE DEF a, count
    <2> QED
      BY ONLY <1>3, <1>4, OutputsByStep
  <1> DEFINE one == [i \in 1 .. count |-> ReadOutput(g[i - 1].rest)]
  <1>10. ASSUME NEW i \in 1 .. Len(values), NEW left \in Seq(Byte), g[i - 1].rest = OutputWire[values[i]] \o left
         PROVE  one[i] = ReadAs(values[i], left)
    <2>1. one[i] = ReadOutput(g[i - 1].rest)
      BY ONLY i \in 1 .. Len(values)
    <2> HIDE DEF one
    <2>2. values[i] \in OutputRecords
      BY ONLY values \in Seq(OutputRecords), i \in 1 .. Len(values)
    <2>3. ReadOutput(OutputWire[values[i]] \o left) = ReadAs(values[i], left)
      BY ONLY <2>2, left \in Seq(Byte), OutputsAreRead, Zenon
    <2> QED
      BY ONLY <1>10, <2>1, <2>3, Zenon
  <1>11. Goes(g, Laid(OutputWire, values) \o rest, Len(values), one)
    BY ONLY <1>9, Zenon
  <1> HIDE DEF one
  <1>12. EachIsRead(g, one, values, OutputWire)
    BY ONLY <1>10, Zenon DEF EachIsRead
  <1>13. g[Len(values)] = ReadAs(values, rest)
    BY ONLY <1>1, <1>11, <1>12, values \in Seq(OutputRecords), rest \in Seq(Byte), ItemsRead, Zenon
  <1> QED
    BY ONLY <1>8, <1>9, <1>13, Zenon DEF all, bytes

-----------------------------------------------------------------------------
(* Transactions *)

\* The transactions the wallet has a request for.
Transactions ==
    [version : {1, 2}, lock_time : Below(4),
     inputs : {ins \in Seq(InputRecords) : Len(ins) \in 1 .. kBitcoinMaxInputs},
     outputs : {outs \in Seq(OutputRecords) : Len(outs) \in 1 .. kBitcoinMaxOutputs}]

\* The pieces of a transaction as its reader meets them.
Pieces(tx, rest) ==
    write_u32(tx.version)
    \o (write_compact_size(Len(tx.inputs)) \o (Laid(InputWire, tx.inputs)
    \o (write_compact_size(Len(tx.outputs)) \o (Laid(OutputWire, tx.outputs)
    \o (write_u32(tx.lock_time) \o rest)))))

InOrder(a, b, c, d, e, f) ==
    /\ ((((a \o b) \o c) \o d) \o e) \o f = a \o (b \o (c \o (d \o (e \o (f \o <<>>)))))
    /\ ((((a \o b) \o c) \o d) \o e) \o f \in Seq(Byte)

\* Six pieces.
LEMMA SixPieces ==
    ASSUME NEW a \in Seq(Byte), NEW b \in Seq(Byte), NEW c \in Seq(Byte), NEW d \in Seq(Byte),
           NEW e \in Seq(Byte), NEW f \in Seq(Byte)
    PROVE  InOrder(a, b, c, d, e, f)
  <1>1. f \o <<>> = f /\ e \o f \in Seq(Byte) /\ d \o (e \o f) \in Seq(Byte)
        /\ c \o (d \o (e \o f)) \in Seq(Byte)
    OBVIOUS
  <1>2. a \o b \in Seq(Byte) /\ (a \o b) \o c \in Seq(Byte) /\ ((a \o b) \o c) \o d \in Seq(Byte)
        /\ (((a \o b) \o c) \o d) \o e \in Seq(Byte)
    OBVIOUS
  <1>3. ((((a \o b) \o c) \o d) \o e) \o f \in Seq(Byte)
    BY <1>2
  <1>4. Associate(((a \o b) \o c) \o d, e, f)
    BY ONLY <1>2, e \in Seq(Byte), f \in Seq(Byte), Associates, Zenon
  <1>5. Associate((a \o b) \o c, d, e \o f)
    BY ONLY <1>1, <1>2, d \in Seq(Byte), Associates, Zenon
  <1>6. Associate(a \o b, c, d \o (e \o f))
    BY ONLY <1>1, <1>2, c \in Seq(Byte), Associates, Zenon
  <1>7. Associate(a, b, c \o (d \o (e \o f)))
    BY ONLY <1>1, a \in Seq(Byte), b \in Seq(Byte), Associates, Zenon
  <1>8. ((((a \o b) \o c) \o d) \o e) \o f = a \o (b \o (c \o (d \o (e \o f))))
    BY ONLY <1>4, <1>5, <1>6, <1>7, Zenon DEF Associate
  <1> QED
    BY ONLY <1>1, <1>3, <1>8, Zenon DEF InOrder

\* The bytes of a transaction, piece by piece.
LEMMA TransactionBytes ==
    ASSUME NEW tx \in Transactions
    PROVE  UnsignedBytes(tx) = Pieces(tx, <<>>) /\ UnsignedBytes(tx) \in Seq(Byte)
  <1>1. /\ tx.version \in {1, 2} /\ tx.lock_time \in Below(4)
        /\ tx.inputs \in Seq(InputRecords) /\ Len(tx.inputs) \in 1 .. kBitcoinMaxInputs
        /\ tx.outputs \in Seq(OutputRecords) /\ Len(tx.outputs) \in 1 .. kBitcoinMaxOutputs
    BY DEF Transactions
  <1>2. tx.version \in Below(4) /\ Len(tx.inputs) \in Below(8) /\ Len(tx.outputs) \in Below(8)
    <2>1. 4 \in Nat /\ Reach[4] > 4
      BY ONLY ReachIs, PowersGrow
    <2>2. 1 \in Nat /\ 1 < Reach[4] /\ 2 \in Nat /\ 2 < Reach[4]
      BY <2>1, ReachIs
    <2>3. 1 \in Below(4) /\ 2 \in Below(4)
      BY <2>2, BelowIs
    <2>4. /\ Len(tx.inputs) \in Nat /\ Len(tx.inputs) <= kBitcoinMaxInputs
          /\ Len(tx.outputs) \in Nat /\ Len(tx.outputs) <= kBitcoinMaxOutputs
      BY ONLY <1>1, BytesAssumption DEF BytesAssumption
    <2>5. Len(tx.inputs) \in Below(8) /\ Len(tx.outputs) \in Below(8)
      BY ONLY <2>4, WithinLimits, Zenon
    <2>6. tx.version = 1 \/ tx.version = 2
      BY <1>1
    <2> QED
      BY ONLY <2>3, <2>5, <2>6, Zenon
  <1> DEFINE a == write_u32(tx.version)
             b == write_compact_size(Len(tx.inputs))
             c == Laid(InputWire, tx.inputs)
             d == write_compact_size(Len(tx.outputs))
             e == Laid(OutputWire, tx.outputs)
             f == write_u32(tx.lock_time)
  <1>3. a \in Seq(Byte) /\ f \in Seq(Byte)
    BY <1>1, <1>2, FieldBytes DEF write_u32
  <1>4. b \in Seq(Byte) /\ d \in Seq(Byte)
    BY ONLY <1>2, LengthWritten, Zenon
  <1>5. c \in Seq(Byte) /\ e \in Seq(Byte)
    BY ONLY <1>1, InputOutcomes, OutputOutcomes, LaidType, Zenon
  <1>6. c = FlattenSeq([i \in DOMAIN tx.inputs |->
                OutPoint(tx.inputs[i]) \o <<0>> \o write_u32(tx.inputs[i].sequence)])
    <2>1. DOMAIN tx.inputs = 1 .. Len(tx.inputs)
      BY <1>1
    <2>2. ASSUME NEW i \in 1 .. Len(tx.inputs)
          PROVE  InputWire[tx.inputs[i]]
                     = OutPoint(tx.inputs[i]) \o <<0>> \o write_u32(tx.inputs[i].sequence)
      <3>1. PICK input \in InputRecords : input = tx.inputs[i]
        BY <1>1
      <3>2. InputWire[input] = OutPoint(input) \o <<0>> \o write_u32(input.sequence)
        BY DEF InputWire
      <3> QED
        BY ONLY <3>1, <3>2, Zenon
    <2>3. [i \in 1 .. Len(tx.inputs) |-> InputWire[tx.inputs[i]]]
              = [i \in DOMAIN tx.inputs |->
                    OutPoint(tx.inputs[i]) \o <<0>> \o write_u32(tx.inputs[i].sequence)]
      BY ONLY <2>1, <2>2
    <2> QED
      BY ONLY <2>3, Zenon DEF Laid
  <1>7. e = serialize_outputs(tx.outputs)
    <2>1. DOMAIN tx.outputs = 1 .. Len(tx.outputs)
      BY <1>1
    <2>2. ASSUME NEW i \in 1 .. Len(tx.outputs)
          PROVE  OutputWire[tx.outputs[i]]
                     = write_u64(tx.outputs[i].value) \o write_compact_size(Len(tx.outputs[i].script))
                       \o tx.outputs[i].script
      <3>1. PICK output \in OutputRecords : output = tx.outputs[i]
        BY <1>1
      <3>2. OutputWire[output] = write_u64(output.value) \o write_compact_size(Len(output.script))
                                 \o output.script
        BY DEF OutputWire
      <3> QED
        BY ONLY <3>1, <3>2, Zenon
    <2>3. [i \in 1 .. Len(tx.outputs) |-> OutputWire[tx.outputs[i]]]
              = [i \in DOMAIN tx.outputs |->
                    write_u64(tx.outputs[i].value) \o write_compact_size(Len(tx.outputs[i].script))
                    \o tx.outputs[i].script]
      BY ONLY <2>1, <2>2
    <2> QED
      BY ONLY <2>3, Zenon DEF Laid, serialize_outputs
  <1>8. UnsignedBytes(tx) = ((((a \o b) \o c) \o d) \o e) \o f
    BY ONLY <1>6, <1>7, Zenon DEF UnsignedBytes
  <1> HIDE DEF a, b, c, d, e, f
  <1>9. InOrder(a, b, c, d, e, f)
    BY ONLY <1>3, <1>4, <1>5, SixPieces, Zenon
  <1> QED
    BY ONLY <1>8, <1>9, Zenon DEF InOrder, Pieces, a, b, c, d, e, f

\* parse_unsigned_transaction, one piece after another.
LEMMA ParseByStep ==
    ASSUME NEW bytes
    PROVE  LET version == ReadNumber(bytes, 4)
               ins == ReadCounted(version.rest, kBitcoinMaxInputs, ReadInput)
               outs == ReadCounted(ins.rest, kBitcoinMaxOutputs, ReadOutput)
               lock_time == ReadNumber(outs.rest, 4)
           IN  parse_unsigned_transaction(bytes)
                   = IF /\ version.ok /\ version.value \in {1, 2} /\ ins.ok /\ outs.ok
                        /\ lock_time.ok /\ lock_time.rest = <<>>
                     THEN ReadAs([version |-> version.value, inputs |-> ins.value,
                                  outputs |-> outs.value, lock_time |-> lock_time.value],
                                 lock_time.rest)
                     ELSE NotRead
  BY DEF parse_unsigned_transaction, Then, read_u32

\* What is accepted is a transaction within the limits, and its one encoding.
LEMMA AcceptedTransactions ==
    ASSUME NEW bytes \in Seq(Byte), parse_unsigned_transaction(bytes).ok
    PROVE  \E tx \in Transactions :
               parse_unsigned_transaction(bytes) = ReadAs(tx, <<>>) /\ UnsignedBytes(tx) = bytes
  <1> DEFINE r1 == ReadNumber(bytes, 4)
             r2 == ReadCounted(r1.rest, kBitcoinMaxInputs, ReadInput)
             r3 == ReadCounted(r2.rest, kBitcoinMaxOutputs, ReadOutput)
             r4 == ReadNumber(r3.rest, 4)
             all == parse_unsigned_transaction(bytes)
  <1>1. all = IF r1.ok /\ r1.value \in {1, 2} /\ r2.ok /\ r3.ok /\ r4.ok /\ r4.rest = <<>>
              THEN ReadAs([version |-> r1.value, inputs |-> r2.value,
                           outputs |-> r3.value, lock_time |-> r4.value], r4.rest)
              ELSE NotRead
    BY ParseByStep
  <1>2. /\ r1.ok /\ r1.value \in {1, 2} /\ r2.ok /\ r3.ok /\ r4.ok /\ r4.rest = <<>>
        /\ all = ReadAs([version |-> r1.value, inputs |-> r2.value,
                         outputs |-> r3.value, lock_time |-> r4.value], r4.rest)
    <2>1. all.ok
      OBVIOUS
    <2> HIDE DEF r1, r2, r3, r4, all
    <2> QED
      BY ONLY <1>1, <2>1, ReadFields, Zenon
  <1> HIDE DEF all
  <1>3. PICK version \in Below(4), a \in Seq(Byte) :
            r1 = ReadAs(version, a) /\ bytes = LittleEndian(version, 4) \o a
    <2>1. 4 \in Nat /\ ReadNumber(bytes, 4).ok
      BY <1>2
    <2> QED
      BY ONLY <2>1, bytes \in Seq(Byte), ReadingNumbers
  <1> HIDE DEF r1
  <1>4. r1.value = version /\ r1.rest = a
    BY ONLY <1>3 DEF ReadAs
  <1>5. PICK ins \in Seq(InputRecords), b \in Seq(Byte) :
            /\ r2 = ReadAs(ins, b) /\ Len(ins) \in 1 .. kBitcoinMaxInputs
            /\ a = write_compact_size(Len(ins)) \o (Laid(InputWire, ins) \o b)
    <2>1. r2 = ReadCounted(a, kBitcoinMaxInputs, ReadInput)
      BY <1>4
    <2> HIDE DEF r2
    <2>2. CountStands(a, r2, kBitcoinMaxInputs, InputRecords, InputWire)
      BY ONLY <1>2, <2>1, a \in Seq(Byte), ReadingCountedInputs, Zenon
    <2> QED
      BY ONLY <2>2, Zenon DEF CountStands
  <1> HIDE DEF r2
  <1>6. r2.value = ins /\ r2.rest = b
    BY ONLY <1>5 DEF ReadAs
  <1>7. PICK outs \in Seq(OutputRecords), c \in Seq(Byte) :
            /\ r3 = ReadAs(outs, c) /\ Len(outs) \in 1 .. kBitcoinMaxOutputs
            /\ b = write_compact_size(Len(outs)) \o (Laid(OutputWire, outs) \o c)
    <2>1. r3 = ReadCounted(b, kBitcoinMaxOutputs, ReadOutput)
      BY <1>6
    <2> HIDE DEF r3
    <2>2. CountStands(b, r3, kBitcoinMaxOutputs, OutputRecords, OutputWire)
      BY ONLY <1>2, <2>1, b \in Seq(Byte), ReadingCountedOutputs, Zenon
    <2> QED
      BY ONLY <2>2, Zenon DEF CountStands
  <1> HIDE DEF r3
  <1>8. r3.value = outs /\ r3.rest = c
    BY ONLY <1>7 DEF ReadAs
  <1>9. PICK lock_time \in Below(4), d \in Seq(Byte) :
            r4 = ReadAs(lock_time, d) /\ c = LittleEndian(lock_time, 4) \o d
    <2>1. 4 \in Nat /\ ReadNumber(c, 4).ok /\ r4 = ReadNumber(c, 4)
      BY <1>2, <1>8, Zenon
    <2>2. \E v \in Below(4), left \in Seq(Byte) :
              ReadNumber(c, 4) = ReadAs(v, left) /\ c = LittleEndian(v, 4) \o left
      BY ONLY <2>1, c \in Seq(Byte), ReadingNumbers
    <2> QED
      BY ONLY <2>1, <2>2, Zenon
  <1> HIDE DEF r4
  <1>10. r4.value = lock_time /\ r4.rest = d /\ d = <<>>
    BY ONLY <1>2, <1>9 DEF ReadAs
  <1>11. PICK tx : tx = [version |-> version, inputs |-> ins, outputs |-> outs, lock_time |-> lock_time]
    OBVIOUS
  <1>12. all = ReadAs(tx, <<>>)
    BY ONLY <1>2, <1>4, <1>6, <1>8, <1>10, <1>11, Zenon
  <1>13. tx \in Transactions
    <2>1. version \in {1, 2}
      BY ONLY <1>2, <1>4, Zenon
    <2> QED
      BY ONLY <1>5, <1>7, <1>11, <2>1, ins \in Seq(InputRecords), outs \in Seq(OutputRecords),
              lock_time \in Below(4) DEF Transactions
  <1>14. /\ tx.version = version /\ tx.inputs = ins /\ tx.outputs = outs
         /\ tx.lock_time = lock_time
    BY ONLY <1>11
  <1>15. Pieces(tx, <<>>) = bytes
    BY ONLY <1>3, <1>5, <1>7, <1>9, <1>10, <1>14, Zenon DEF Pieces, write_u32
  <1>16. UnsignedBytes(tx) = bytes
    BY ONLY <1>13, <1>15, TransactionBytes, Zenon
  <1> QED
    BY ONLY <1>12, <1>13, <1>16, Zenon DEF all

\* A transaction is parsed from its bytes.
LEMMA TransactionsParsed ==
    ASSUME NEW tx \in Transactions
    PROVE  parse_unsigned_transaction(UnsignedBytes(tx)) = ReadAs(tx, <<>>)
  <1>1. PICK version, ins, outs, lock_time :
            /\ version = tx.version /\ ins = tx.inputs /\ outs = tx.outputs
            /\ lock_time = tx.lock_time
    OBVIOUS
  <1>2. /\ version \in {1, 2} /\ lock_time \in Below(4)
        /\ ins \in Seq(InputRecords) /\ Len(ins) \in 1 .. kBitcoinMaxInputs
        /\ outs \in Seq(OutputRecords) /\ Len(outs) \in 1 .. kBitcoinMaxOutputs
        /\ tx = [version |-> version, inputs |-> ins, outputs |-> outs, lock_time |-> lock_time]
    BY <1>1 DEF Transactions
  <1> DEFINE d == write_u32(lock_time) \o <<>>
             c == write_compact_size(Len(outs)) \o (Laid(OutputWire, outs) \o d)
             b == write_compact_size(Len(ins)) \o (Laid(InputWire, ins) \o c)
             bytes == write_u32(version) \o b
  <1>3. UnsignedBytes(tx) = bytes
    <2>1. UnsignedBytes(tx) = Pieces(tx, <<>>)
      BY TransactionBytes
    <2> QED
      BY ONLY <1>1, <2>1, Zenon DEF Pieces
  <1>4. d \in Seq(Byte) /\ ReadNumber(d, 4) = ReadAs(lock_time, <<>>)
    <2>1. 4 \in Nat /\ <<>> \in Seq(Byte)
      OBVIOUS
    <2>2. ReadNumber(LittleEndian(lock_time, 4) \o <<>>, 4) = ReadAs(lock_time, <<>>)
      BY ONLY <1>2, <2>1, NumbersReadBack, Zenon
    <2>3. LittleEndian(lock_time, 4) \in Seq(Byte)
      BY ONLY <1>2, <2>1, FieldBytes, Zenon
    <2> QED
      BY ONLY <2>2, <2>3 DEF write_u32
  <1> HIDE DEF d
  <1>5. c \in Seq(Byte) /\ ReadCounted(c, kBitcoinMaxOutputs, ReadOutput) = ReadAs(outs, d)
    <2>1. ReadCounted(c, kBitcoinMaxOutputs, ReadOutput) = ReadAs(outs, d)
      BY ONLY <1>2, <1>4, CountedOutputsAreRead, Zenon
    <2>2. Laid(OutputWire, outs) \in Seq(Byte)
      BY ONLY <1>2, OutputOutcomes, LaidType, Zenon
    <2>3. write_compact_size(Len(outs)) \in Seq(Byte)
      <3>1. Len(outs) \in Nat /\ Len(outs) <= kBitcoinMaxOutputs
        BY ONLY <1>2, BytesAssumption DEF BytesAssumption
      <3>2. Len(outs) \in Below(8)
        BY ONLY <3>1, WithinLimits, Zenon
      <3> QED
        BY ONLY <3>2, LengthWritten, Zenon
    <2> QED
      BY ONLY <1>4, <2>1, <2>2, <2>3
  <1> HIDE DEF c
  <1>6. b \in Seq(Byte) /\ ReadCounted(b, kBitcoinMaxInputs, ReadInput) = ReadAs(ins, c)
    <2>1. ReadCounted(b, kBitcoinMaxInputs, ReadInput) = ReadAs(ins, c)
      BY ONLY <1>2, <1>5, CountedInputsAreRead, Zenon
    <2>2. Laid(InputWire, ins) \in Seq(Byte)
      BY ONLY <1>2, InputOutcomes, LaidType, Zenon
    <2>3. write_compact_size(Len(ins)) \in Seq(Byte)
      <3>1. Len(ins) \in Nat /\ Len(ins) <= kBitcoinMaxInputs
        BY ONLY <1>2, BytesAssumption DEF BytesAssumption
      <3>2. Len(ins) \in Below(8)
        BY ONLY <3>1, WithinLimits, Zenon
      <3> QED
        BY ONLY <3>2, LengthWritten, Zenon
    <2> QED
      BY ONLY <1>5, <2>1, <2>2, <2>3
  <1> HIDE DEF b
  <1>7. ReadNumber(bytes, 4) = ReadAs(version, b)
    <2>1. 4 \in Nat /\ Reach[4] > 4
      BY ONLY ReachIs, PowersGrow
    <2>2. version \in Nat /\ version < Reach[4]
      BY <1>2, <2>1, ReachIs
    <2>3. version \in Below(4)
      BY <2>1, <2>2, BelowIs
    <2>4. ReadNumber(LittleEndian(version, 4) \o b, 4) = ReadAs(version, b)
      BY ONLY <1>6, <2>1, <2>3, NumbersReadBack, Zenon
    <2> QED
      BY ONLY <2>4, Zenon DEF write_u32
  <1> HIDE DEF bytes
  <1>8. parse_unsigned_transaction(bytes) = ReadAs(tx, <<>>)
    <2> DEFINE r1 == ReadNumber(bytes, 4)
               r2 == ReadCounted(r1.rest, kBitcoinMaxInputs, ReadInput)
               r3 == ReadCounted(r2.rest, kBitcoinMaxOutputs, ReadOutput)
               r4 == ReadNumber(r3.rest, 4)
    <2>1. parse_unsigned_transaction(bytes)
              = IF r1.ok /\ r1.value \in {1, 2} /\ r2.ok /\ r3.ok /\ r4.ok /\ r4.rest = <<>>
                THEN ReadAs([version |-> r1.value, inputs |-> r2.value,
                             outputs |-> r3.value, lock_time |-> r4.value], r4.rest)
                ELSE NotRead
      BY ParseByStep
    <2>2. r1.ok /\ r1.value = version /\ r1.rest = b
      BY ONLY <1>7 DEF ReadAs
    <2> HIDE DEF r1
    <2>3. r2.ok /\ r2.value = ins /\ r2.rest = c
      <3>1. r2 = ReadAs(ins, c)
        BY ONLY <1>6, <2>2, Zenon DEF r2
      <3> QED
        BY ONLY <3>1 DEF ReadAs
    <2> HIDE DEF r2
    <2>4. r3.ok /\ r3.value = outs /\ r3.rest = d
      <3>1. r3 = ReadAs(outs, d)
        BY ONLY <1>5, <2>3, Zenon DEF r3
      <3> QED
        BY ONLY <3>1 DEF ReadAs
    <2> HIDE DEF r3
    <2>5. r4.ok /\ r4.value = lock_time /\ r4.rest = <<>>
      <3>1. r4 = ReadAs(lock_time, <<>>)
        BY ONLY <1>4, <2>4, Zenon DEF r4
      <3> QED
        BY ONLY <3>1 DEF ReadAs
    <2> HIDE DEF r4
    <2> QED
      BY ONLY <1>2, <2>1, <2>2, <2>3, <2>4, <2>5, Zenon
  <1> QED
    BY ONLY <1>3, <1>8, Zenon

\* What parse_unsigned_transaction accepts is the one encoding of the transaction it takes the bytes
\* for: no other bytes are read as the same transaction.
THEOREM TransactionsAreCanonical ==
    \A bytes \in Seq(Byte) : UnsignedIsCanonical(bytes)
  <1> SUFFICES ASSUME NEW bytes \in Seq(Byte), parse_unsigned_transaction(bytes).ok
               PROVE  UnsignedBytes(parse_unsigned_transaction(bytes).value) = bytes
    BY DEF UnsignedIsCanonical, EncodedAs
  <1>1. PICK tx \in Transactions :
            parse_unsigned_transaction(bytes) = ReadAs(tx, <<>>) /\ UnsignedBytes(tx) = bytes
    BY AcceptedTransactions
  <1>2. parse_unsigned_transaction(bytes).value = tx
    BY ONLY <1>1 DEF ReadAs
  <1> QED
    BY ONLY <1>1, <1>2, Zenon

\* Every transaction within the limits, whose outputs pay to scripts the wallet knows, is read from
\* its bytes: the parser refuses none of them and nothing of them is lost.
THEOREM TransactionsAreRead ==
    \A tx \in Transactions :
        UnsignedBytes(tx) \in Seq(Byte) /\ parse_unsigned_transaction(UnsignedBytes(tx)) = ReadAs(tx, <<>>)
  BY ONLY TransactionBytes, TransactionsParsed, Zenon

\* A length (read_compact_size) is accepted in its shortest form alone, and every length that fits
\* eight bytes reads back whatever follows it.
THEOREM LengthsAreCanonical ==
    /\ \A bytes \in Seq(Byte) : LengthIsCanonical(bytes)
    /\ \A value \in Below(8), tail \in Seq(Byte) : LengthReadsBack(value, tail)
  <1>1. ASSUME NEW bytes \in Seq(Byte), read_compact_size(bytes).ok
        PROVE  bytes = write_compact_size(read_compact_size(bytes).value) \o read_compact_size(bytes).rest
    <2>1. PICK value \in Below(8), rest \in Seq(Byte) :
              read_compact_size(bytes) = ReadAs(value, rest) /\ bytes = write_compact_size(value) \o rest
      BY ONLY <1>1, bytes \in Seq(Byte), ReadingLengths
    <2>2. read_compact_size(bytes).value = value /\ read_compact_size(bytes).rest = rest
      BY ONLY <2>1 DEF ReadAs
    <2> QED
      BY ONLY <2>1, <2>2, Zenon
  <1> QED
    BY ONLY <1>1, LengthsAreRead, Zenon DEF LengthIsCanonical, WrittenAs, LengthReadsBack
=============================================================================
