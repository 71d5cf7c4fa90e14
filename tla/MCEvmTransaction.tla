-------------------------- MODULE MCEvmTransaction --------------------------
(***************************************************************************)
(* Bounded instance of EvmTransaction on a layout of 22 byte values: the   *)
(* short forms end at 5 bytes, so that the call data and the outer list    *)
(* take the long ones.  The host sends transfers that differ from a few    *)
(* plain ones in up to two fields, and every alteration of one byte of     *)
(* these.                                                                  *)
(***************************************************************************)
EXTENDS EvmTransaction, TLC

CONSTANTS w1, w2
Symmetry == Permutations({w1, w2})

MainNet == [chain_id |-> 1, coin |-> 60]
SideNet == [chain_id |-> 5, coin |-> 60]
Classic == [chain_id |-> 1, coin |-> 61]
MCNetworks == {MainNet, SideNet, Classic}

Token(network, contract, decimals, signing) ==
    [network |-> network, contract |-> contract, decimals |-> decimals, signing |-> signing]
Coin == Token(MainNet, <<7, 7>>, 2, TRUE)
Whole == Token(MainNet, <<7, 8>>, 0, TRUE)
Closed == Token(MainNet, <<7, 9>>, 2, FALSE)
Abroad == Token(SideNet, <<7, 7>>, 1, TRUE)
MCTokens == {Coin, Whole, Closed, Abroad}
MCSelector == <<9>>

Sig(y, r, s) == [y_parity |-> y, r |-> r, s |-> s]
MCSignatures == {Sig(0, 1, 10647), Sig(1, 484, 22), Sig(1, 30, 3)}

Plain == [type |-> "LegacyEip155", chain_id |-> 1, nonce |-> 3, priority |-> 0, price |-> 2, gas |-> 10,
          token |-> None, recipient |-> <<0, 5>>, amount |-> 25]
Plains == {Plain, [Plain EXCEPT !.type = "Eip1559", !.priority = 1],
           [Plain EXCEPT !.token = Coin], [Plain EXCEPT !.type = "Eip1559", !.token = Whole]}

\* Another value of one field.
Varied(t) ==
    {[t EXCEPT !.chain_id = v] : v \in {0, 5}}
    \cup {[t EXCEPT !.nonce = v] : v \in {0, 4, 483, 484}}
    \cup {[t EXCEPT !.price = v] : v \in {0, 1, 6, 7, 49}}
    \cup {[t EXCEPT !.gas = v] : v \in {4, 5, 30, 31}}
    \cup {[t EXCEPT !.token = v] : v \in {Coin, Whole, Closed, Abroad}}
    \cup {[t EXCEPT !.amount = v] : v \in {0, 1, 100, 1050, 10647}}
    \cup {[t EXCEPT !.priority = v] : v \in IF t.type = "Eip1559" THEN {0, 2, 3} ELSE {0}}
MCTransfers == Plains \cup UNION {Varied(t) : t \in UNION {Varied(u) : u \in Plains}}

Altered(s) ==
    {[s EXCEPT ![i] = byte] : i \in DOMAIN s, byte \in Byte}
    \cup {SubSeq(s, 1, i - 1) \o SubSeq(s, i + 1, Len(s)) : i \in DOMAIN s}
    \cup {SubSeq(s, 1, i) \o <<byte>> \o SubSeq(s, i + 1, Len(s)) : i \in 0 .. Len(s), byte \in {0, 4, 13}}

Encodings == {Encoding(t) : t \in MCTransfers}
MCTransactions == Encodings \cup UNION {Altered(Encoding(t)) : t \in Plains} \cup {<<>>}
=============================================================================
