------------------------------- MODULE HdKeys --------------------------------
(***************************************************************************)
(* BIP-32 in WalletSecurity.cpp: a private node is derived from a seed and *)
(* then child by child, in RAM, by hd_private_derive; the holder of an     *)
(* exported extended public key derives the same children with             *)
(* hd_public_derive, from other inputs and by other arithmetic.            *)
(* HMAC-SHA512 and HASH160 are any functions.                              *)
(***************************************************************************)
EXTENDS EcGroup

CONSTANTS
    Seeds,              \* the seeds of 16 to 64 bytes
    ChainCodes,         \* the right halves of an HMAC
    Hmac(_, _),         \* crypto_hmac_sha512, as [left, chain_code]
    kBip32Key,          \* the text "Bitcoin seed", the key of the first HMAC
    Fingerprint(_),     \* the first four bytes of HASH160
    kHardenedOffset,    \* 2^31
    IndexEnd,           \* 2^32
    MaxDepth            \* 255

VARIABLE node           \* the HdPrivateNode the firmware holds

Indices == 0 .. (IndexEnd - 1)

\* data[37]: one byte that tells a private key (0) from a compressed point (2 or 3), the
\* key, and the index.
HdData ==
    [form : {"private"}, key : Keys, index : Indices]
    \cup [form : {"public"}, key : PublicKeys, index : Indices]

Materials == [left : Scalars, chain_code : ChainCodes]

ASSUME HmacAssumption ==
    /\ \A seed \in Seeds : Hmac(kBip32Key, seed) \in Materials
    /\ \A code \in ChainCodes, data \in HdData : Hmac(code, data) \in Materials

ASSUME IndexAssumption ==
    /\ kHardenedOffset \in Nat /\ IndexEnd \in Nat /\ kHardenedOffset <= IndexEnd
    /\ IndexEnd > 0 /\ MaxDepth \in Nat

Ok(key) == [ok |-> TRUE, node |-> key]
Error(name) == [ok |-> FALSE, error |-> name]

-----------------------------------------------------------------------------
valid_private_key(key) == key > 0 /\ key < N

hd_private_from_seed(seed) ==
    LET material == Hmac(kBip32Key, seed)
    IN  IF valid_private_key(material.left)
        THEN Ok([private_key |-> material.left, chain_code |-> material.chain_code, depth |-> 0,
                 parent_fingerprint |-> 0, child_number |-> 0])
        ELSE Error("InvalidChild")

\* Mutant: the last normal index is derived as a hardened one.
DerivationDataEarly(parent, index) ==
    IF index >= kHardenedOffset - 1
    THEN [form |-> "private", key |-> parent.private_key, index |-> index]
    ELSE [form |-> "public", key |-> Multiple[parent.private_key], index |-> index]

\* What the HMAC of a private derivation is taken of.
DerivationData(parent, index) ==
    IF index >= kHardenedOffset
    THEN [form |-> "private", key |-> parent.private_key, index |-> index]
    ELSE [form |-> "public", key |-> Multiple[parent.private_key], index |-> index]

\* mbedtls_mpi_cmp_int(&left, 0) > 0 && mbedtls_mpi_cmp_mpi(&left, &group.N) < 0
ValidOffset(left) == left > 0 /\ left < N

ChildKey(parent, left) == (left + parent.private_key) % N

hd_private_derive(parent, index) ==
    IF ~valid_private_key(parent.private_key) \/ parent.depth = MaxDepth
    THEN Error("InvalidArgument")
    ELSE LET material == Hmac(parent.chain_code, DerivationData(parent, index))
             child_key == ChildKey(parent, material.left)
         IN  IF ValidOffset(material.left) /\ child_key # 0
             THEN Ok([private_key |-> child_key, chain_code |-> material.chain_code,
                      depth |-> parent.depth + 1,
                      parent_fingerprint |-> Fingerprint(Multiple[parent.private_key]),
                      child_number |-> index])
             ELSE Error("InvalidChild")

hd_public_neuter(private) ==
    IF ~valid_private_key(private.private_key) THEN Error("InvalidKey")
    ELSE Ok([public_key |-> Multiple[private.private_key], chain_code |-> private.chain_code,
             depth |-> private.depth, parent_fingerprint |-> private.parent_fingerprint,
             child_number |-> private.child_number])

\* R = left * G + 1 * parent, through mbedtls_ecp_muladd.
ChildPoint(parent, left) == Add(Multiple[left], parent.public_key)

PublicOffset(parent, left) == check_pubkey(parent.public_key) /\ ValidOffset(left)

hd_public_derive(parent, index) ==
    IF index >= kHardenedOffset THEN Error("HardenedPublicDerivation")
    ELSE IF parent.depth = MaxDepth THEN Error("InvalidArgument")
    ELSE LET material == Hmac(parent.chain_code,
                              [form |-> "public", key |-> parent.public_key, index |-> index])
         IN  IF /\ PublicOffset(parent, material.left)
                /\ check_pubkey(ChildPoint(parent, material.left))
             THEN Ok([public_key |-> ChildPoint(parent, material.left),
                      chain_code |-> material.chain_code, depth |-> parent.depth + 1,
                      parent_fingerprint |-> Fingerprint(parent.public_key),
                      child_number |-> index])
             ELSE Error("InvalidChild")

-----------------------------------------------------------------------------
(* The node a wallet operation walks through: hd_private_derive_path keeps one node *)
(* and replaces it by its child.                                                    *)

HdInit ==
    \E seed \in Seeds :
        hd_private_from_seed(seed).ok /\ node = hd_private_from_seed(seed).node

Derive(index) ==
    hd_private_derive(node, index).ok /\ node' = hd_private_derive(node, index).node

HdNext == \E index \in Indices : Derive(index)

HdSpec == HdInit /\ [][HdNext]_node

-----------------------------------------------------------------------------
\* Every node the device reaches has a usable key and a depth of one byte.
NodeOK ==
    /\ node.private_key \in Keys
    /\ node.chain_code \in ChainCodes
    /\ node.depth \in 0 .. MaxDepth
    /\ node.child_number \in Indices

Neutered(result) == IF result.ok THEN hd_public_neuter(result.node) ELSE result

\* A watch-only wallet that holds the extended public key of a node sees what the device
\* sees: for every index that is not hardened, hd_public_derive of the neutered node and the
\* neutered hd_private_derive of the node give the same key, chain code, depth and
\* fingerprint, or refuse for the same reason - also when the left half of the HMAC is zero
\* or not below the order, when the child would be infinity, and at the last depth.
PublicFollowsPrivate ==
    \A index \in 0 .. (kHardenedOffset - 1) :
        hd_public_derive(hd_public_neuter(node).node, index)
            = Neutered(hd_private_derive(node, index))
=============================================================================
