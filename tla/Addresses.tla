------------------------------ MODULE Addresses ------------------------------
(***************************************************************************)
(* From a key to an address and the key that goes with it (derive_address, *)
(* WalletEngine.cpp), and from an output script to an address              *)
(* (WalletAddresses.cpp).  A text is the record of what its encoding takes *)
(* in; Base58, Segwit and CryptoNote show that the texts themselves read   *)
(* back.  Hashes and curves are functions, hashes give 20 bytes.           *)
(***************************************************************************)
EXTENDS Coins

CONSTANTS
    Hash160(_),         \* of a sequence of bytes
    KeccakTail(_),      \* the last 20 bytes of crypto_keccak256 of 64 bytes
    Compressed(_),      \* public_key_from_private
    Uncompressed(_),    \* uncompressed_public_key_from_private, without the first byte
    SpendKey(_),        \* cryptonote_private_keys_from_seed
    ViewKey(_),         \* the view key that belongs to a spend key
    EdwardsKey(_)       \* cryptonote_public_key_from_scalar

kRipemd160Size == 20
OP_DUP == 118
OP_EQUAL == 135
OP_EQUALVERIFY == 136
OP_HASH160 == 169
OP_CHECKSIG == 172

Base58Text(payload, ripple) == [form |-> "base58", ripple |-> ripple, payload |-> payload]
SegwitText(hrp, program) == [form |-> "segwit", hrp |-> hrp, program |-> program]
NoText == [form |-> "none"]

-----------------------------------------------------------------------------
address_p2pkh(profile, public_key) ==
    Base58Text(<<profile.p2pkh_version>> \o Hash160(public_key), profile.ripple_alphabet)

RedeemScript(public_key) == <<0, kRipemd160Size>> \o Hash160(public_key)

\* Mutant: the version of another address type.
address_p2sh_with_p2pkh(profile, public_key) ==
    Base58Text(<<profile.p2pkh_version>> \o Hash160(RedeemScript(public_key)),
               profile.ripple_alphabet)

address_p2sh_p2wpkh(profile, public_key) ==
    Base58Text(<<profile.p2sh_version>> \o Hash160(RedeemScript(public_key)),
               profile.ripple_alphabet)

address_p2wpkh(profile, public_key) ==
    IF profile.bech32_hrp = null.id THEN NoText
    ELSE SegwitText(profile.bech32_hrp, Hash160(public_key))

address_evm(public_key) == [form |-> "evm", account |-> KeccakTail(public_key)]

address_keccak_base58(version, public_key) ==
    Base58Text(<<version>> \o KeccakTail(public_key), FALSE)

\* Bytes first, first + 1, ... of a script are these.
HasAt(script, first, bytes) == SubSeq(script, first, first + Len(bytes) - 1) = bytes

IsP2wpkh(script) == Len(script) = 22 /\ HasAt(script, 1, <<0, 20>>)
IsP2pkh(script) ==
    /\ Len(script) = 25
    /\ HasAt(script, 1, <<OP_DUP, OP_HASH160, 20>>) /\ HasAt(script, 24, <<OP_EQUALVERIFY, OP_CHECKSIG>>)
IsP2sh(script) ==
    Len(script) = 23 /\ HasAt(script, 1, <<OP_HASH160, 20>>) /\ HasAt(script, 23, <<OP_EQUAL>>)

address_from_script(profile, script) ==
    IF IsP2wpkh(script) /\ profile.bech32_hrp # null.id
    THEN SegwitText(profile.bech32_hrp, SubSeq(script, 3, 22))
    ELSE IF IsP2pkh(script)
    THEN Base58Text(<<profile.p2pkh_version>> \o SubSeq(script, 4, 23), profile.ripple_alphabet)
    ELSE IF IsP2sh(script)
    THEN Base58Text(<<profile.p2sh_version>> \o SubSeq(script, 3, 22), profile.ripple_alphabet)
    ELSE NoText

-----------------------------------------------------------------------------
(* derive_address.  fails is the step that returns an error: the check of the arguments,  *)
(* the way to the child, its public key, the encoding, or none.  before is what the       *)
(* caller's record holds.                                                                 *)

Steps == {"argument", "path", "public key", "encoding", "none"}

Cleared == [network |-> null, private_key |-> 0, address |-> NoText]
clear_derived_address(out) == Cleared

\* What is shown with the address is the key of the child, for CryptoNote the spend key.
EncodedAddress(network, child_key) ==
    LET key == IF network.encoding = "CryptoNote" THEN SpendKey(child_key) ELSE child_key
        encoding == network.encoding
    IN  [network |-> network, private_key |-> key,
         address |->
             CASE encoding = "CryptoNote" ->
                      [form |-> "cryptonote", prefix |-> network.account_version,
                       spend |-> EdwardsKey(key), view |-> EdwardsKey(ViewKey(key))]
               [] encoding = "Evm" -> address_evm(Uncompressed(key))
               [] encoding = "Tron" ->
                      address_keccak_base58(network.account_version, Uncompressed(key))
               [] encoding = "P2wpkh" -> address_p2wpkh(network.utxo, Compressed(key))
               [] encoding = "P2shP2wpkh" -> address_p2sh_p2wpkh(network.utxo, Compressed(key))
               [] encoding = "P2pkh" -> address_p2pkh(network.utxo, Compressed(key))]

\* What out holds when a step fails: the record is filled in before the steps are taken.
Unfinished(network, child_key, fails) ==
    IF fails = "path" THEN [Cleared EXCEPT !.network = network]
    ELSE [EncodedAddress(network, child_key) EXCEPT !.address = NoText]

\* A bad argument is refused before the record is touched, any later error clears it.
DerivedAddress(network, child_key, fails, before) ==
    LET done == EncodedAddress(network, child_key)
        failed == fails # "none" \/ done.address = NoText
    IN  IF fails = "argument" THEN [ok |-> FALSE, out |-> before]
        ELSE IF failed
        THEN [ok |-> FALSE, out |-> clear_derived_address(Unfinished(network, child_key, fails))]
        ELSE [ok |-> TRUE, out |-> done]

-----------------------------------------------------------------------------
kBitcoinMainnet == [p2pkh_version |-> 0, p2sh_version |-> 5, bech32_hrp |-> "bc",
                    ripple_alphabet |-> FALSE]

UtxoEncodings == {"P2wpkh", "P2shP2wpkh", "P2pkh"}

\* The script that pays to the hash of a key, as another wallet writes it.
ScriptTo(encoding, public_key) ==
    CASE encoding = "P2wpkh" -> <<0, 20>> \o Hash160(public_key)
      [] encoding = "P2shP2wpkh" ->
             <<OP_HASH160, 20>> \o Hash160(<<0, 20>> \o Hash160(public_key)) \o <<OP_EQUAL>>
      [] encoding = "P2pkh" ->
             <<OP_DUP, OP_HASH160, 20>> \o Hash160(public_key) \o <<OP_EQUALVERIFY, OP_CHECKSIG>>

\* The address belongs to the key that is shown with it, and the script that pays to this key
\* shows the same address.
AddressIsOwned(network, child_key, fails) ==
    LET derived == DerivedAddress(network, child_key, fails, Cleared)
        key == derived.out.private_key
        address == derived.out.address
    IN  /\ derived.ok <=> fails = "none"
        /\ derived.ok /\ network.encoding \in UtxoEncodings =>
               address = address_from_script(network.utxo,
                                             ScriptTo(network.encoding, Compressed(key)))
        /\ derived.ok /\ network.encoding = "CryptoNote" =>
               address.spend = EdwardsKey(key) /\ address.view = EdwardsKey(ViewKey(key))

\* The address of a key on one network is none on another, but for the networks of Ethereum,
\* which share it.
AddressesDiffer(child_key) ==
    \A i, j \in DOMAIN kNetworkProfiles :
        LET first == kNetworkProfiles[i]
            second == kNetworkProfiles[j]
        IN  i # j /\ ~(first.encoding = "Evm" /\ second.encoding = "Evm") =>
                DerivedAddress(first, child_key, "none", Cleared).out.address
                    # DerivedAddress(second, child_key, "none", Cleared).out.address

\* The scripts one change away from a script: a byte more, a byte less, another byte.
Neighbours(script) ==
    {Append(script, 0), Front(script)}
    \cup {[script EXCEPT ![i] = byte] : i \in DOMAIN script,
              byte \in {0, 20, OP_HASH160, OP_EQUAL, OP_CHECKSIG}}

\* In a transaction of Bitcoin two scripts show one address only when they are one script; what
\* is no template has none.
ScriptsAreNamed(script) ==
    LET address == address_from_script(kBitcoinMainnet, script)
    IN  /\ address # NoText
        /\ \A other \in Neighbours(script) \ {script} :
               address_from_script(kBitcoinMainnet, other) # address
=============================================================================
