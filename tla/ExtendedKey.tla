----------------------------- MODULE ExtendedKey -----------------------------
(***************************************************************************)
(* hd_serialize_private, hd_serialize_public and serialize_payload         *)
(* (WalletSecurity.cpp): a node becomes 78 bytes under a version, and the  *)
(* text of these bytes must begin with the name of the format.  The order  *)
(* of the curve and the versions are the real ones.                        *)
(***************************************************************************)
EXTENDS Base58

CONSTANT
    kExtendedKeyTextSize        \* 113

ExtendedKeyFormat == {"Xprv", "Xpub", "Zprv", "Zpub", "Tprv", "Tpub", "Vprv", "Vpub"}
PublicFormats == {"Xpub", "Zpub", "Tpub", "Vpub"}

\* Mutant: two public versions are exchanged.
kVersionsSwapped ==
    [Xprv |-> <<4, 136, 173, 228>>, Xpub |-> <<4, 178, 71, 70>>,
     Zprv |-> <<4, 178, 67, 12>>,   Zpub |-> <<4, 136, 178, 30>>,
     Tprv |-> <<4, 53, 131, 148>>,  Tpub |-> <<4, 53, 135, 207>>,
     Vprv |-> <<4, 95, 24, 188>>,   Vpub |-> <<4, 95, 28, 246>>]

\* kVersions, in the order of ExtendedKeyFormat.
kVersions ==
    [Xprv |-> <<4, 136, 173, 228>>, Xpub |-> <<4, 136, 178, 30>>,
     Zprv |-> <<4, 178, 67, 12>>,   Zpub |-> <<4, 178, 71, 70>>,
     Tprv |-> <<4, 53, 131, 148>>,  Tpub |-> <<4, 53, 135, 207>>,
     Vprv |-> <<4, 95, 24, 188>>,   Vpub |-> <<4, 95, 28, 246>>]

version_bytes(format, private_key) ==
    [ok |-> (format \in PublicFormats) # private_key, bytes |-> kVersions[format]]

Refused(error) == [ok |-> FALSE, error |-> error]

\* node has bytes for its key, chain_code, fingerprint and number, and a depth.
Payload(node, version, private_key) ==
    version \o <<node.depth>> \o node.parent_fingerprint \o node.child_number \o node.chain_code
    \o (IF private_key THEN <<0>> \o node.key ELSE node.key)

serialize_payload(node, format, private_key, out_size) ==
    LET version == version_bytes(format, private_key)
        coded == base58check(Payload(node, version.bytes, private_key), out_size)
    IN  IF out_size < kExtendedKeyTextSize THEN Refused("BufferTooSmall")
        ELSE IF ~version.ok THEN Refused("InvalidArgument")
        ELSE IF ~coded.ok THEN Refused("BufferTooSmall")
        ELSE [ok |-> TRUE, text |-> coded.text]

\* group.N of secp256k1, as mbedtls_mpi_read_binary reads bytes.
CurveOrder ==
    [i \in 1 .. 15 |-> 255] \o
    <<254, 186, 174, 220, 230, 175, 72, 160, 59, 191, 210, 94, 140, 208, 54, 65, 65>>

Below(bytes, limit) ==
    \E i \in DOMAIN bytes : /\ bytes[i] < limit[i]
                            /\ \A j \in 1 .. (i - 1) : bytes[j] = limit[j]

valid_key_bytes(key) == (\E i \in DOMAIN key : key[i] # 0) /\ Below(key, CurveOrder)

hd_serialize_private(node, format, out_size) ==
    IF valid_key_bytes(node.key) THEN serialize_payload(node, format, TRUE, out_size)
                                   ELSE Refused("InvalidKey")

hd_serialize_public(node, format, out_size) == serialize_payload(node, format, FALSE, out_size)

-----------------------------------------------------------------------------
\* The digits of the letters the names of the formats are made of.
Letters == [x |-> 55, z |-> 57, t |-> 51, v |-> 53, p |-> 47, r |-> 49, u |-> 52, b |-> 34]
TextName ==
    [Xprv |-> <<"x", "p", "r", "v">>, Xpub |-> <<"x", "p", "u", "b">>,
     Zprv |-> <<"z", "p", "r", "v">>, Zpub |-> <<"z", "p", "u", "b">>,
     Tprv |-> <<"t", "p", "r", "v">>, Tpub |-> <<"t", "p", "u", "b">>,
     Vprv |-> <<"v", "p", "r", "v">>, Vpub |-> <<"v", "p", "u", "b">>]

\* A node is written under the formats of its own kind only, and not when its secret is no
\* scalar of the curve (is_key); its text fits the buffer the callers have and begins with
\* the name of the format, whatever the rest of the node is.
KeyNamesItself(node, format, private_key, is_key) ==
    LET written == IF private_key THEN hd_serialize_private(node, format, kExtendedKeyTextSize)
                                  ELSE hd_serialize_public(node, format, kExtendedKeyTextSize)
    IN  /\ written.ok <=> /\ format \notin PublicFormats <=> private_key
                          /\ private_key => is_key
        /\ written.ok =>
               /\ Len(written.text) = 111
               /\ \A i \in 1 .. 4 : written.text[i] = Letters[TextName[format][i]]
=============================================================================
