---------------------------- MODULE MCBitcoinPsbt ----------------------------
(***************************************************************************)
(* Bounded instance of BitcoinPsbt: two wallets with the same fingerprint, *)
(* up to two inputs and two outputs, amounts around every limit.           *)
(***************************************************************************)
EXTENDS BitcoinPsbt, TLC

CONSTANTS a, b

MCWallets == {a, b}
MCFingerprint == (a :> 1) @@ (b :> 1)

Receive84 == [purpose |-> 84, branch |-> 0, shape |-> TRUE]
Change84 == [purpose |-> 84, branch |-> 1, shape |-> TRUE]
Change49 == [purpose |-> 49, branch |-> 1, shape |-> TRUE]
Strange84 == [purpose |-> 84, branch |-> 2, shape |-> TRUE]
Short84 == [purpose |-> 84, branch |-> 0, shape |-> FALSE]
MCPaths == {Receive84, Change84, Change49, Strange84, Short84}

P2pkh(key) == [kind |-> "P2pkh", hash |-> key]
Bare == [kind |-> "Bare", hash |-> derive(a, Receive84)]

Out(value, script) == [value |-> value, script |-> script]
Tx(ins, outs) == [supported |-> TRUE, inputs |-> ins, outputs |-> outs]
MCUnsignedTxs ==
    {Tx(1, <<Out(50, P2pkh(derive(b, Receive84)))>>),
     Tx(1, <<Out(200, P2wpkh(derive(a, Change84)))>>),
     Tx(2, <<Out(100, NestedScript(derive(a, Change49))), Out(100, P2wpkh(derive(a, Change84)))>>),
     Tx(3, <<Out(100, P2wpkh(derive(a, Change84)))>>),
     Tx(1, [i \in 1 .. 3 |-> Out(50, P2wpkh(derive(a, Change84)))]),
     Tx(1, <<Out(300, P2pkh(derive(b, Receive84)))>>),
     Tx(1, <<Out(100, Bare)>>),
     [Tx(1, <<Out(100, P2pkh(derive(b, Receive84)))>>) EXCEPT !.supported = FALSE]}

Utxo(value, script) == [type |-> "Utxo", value |-> value, script |-> script]
Derivation(print, path, key) ==
    [type |-> "Derivation", fingerprint |-> print, path |-> path, key |-> key]
Own(w, path) == Derivation(1, path, derive(w, path))
Redeem(script) == [type |-> "Redeem", script |-> script]

Derivations ==
    {Own(a, Receive84), Own(a, Change84), Own(a, Change49), Own(b, Change84),
     Own(a, Strange84), Own(a, Short84), Derivation(2, Change84, derive(a, Change84)),
     Derivation(1, Change84, derive(a, Receive84))}
MCOutputItems == Derivations \cup {[type |-> "Other"]}
MCInputItems ==
    Derivations
    \cup {Utxo(v, P2wpkh(derive(w, Change84))) : v \in {100, 200, 300}, w \in {a, b}}
    \cup {Utxo(200, s) : s \in {NestedScript(derive(a, Change49)), P2wpkh(derive(a, Change49)),
                                P2pkh(derive(a, Change84))}}
    \cup {Redeem(s) : s \in {P2wpkh(derive(a, Change49)), P2wpkh(derive(a, Change84)), Bare}}
    \cup {[type |-> "Sighash", all |-> all] : all \in BOOLEAN}
    \cup {[type |-> "Other"]}
=============================================================================
