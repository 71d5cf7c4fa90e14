-------------------------------- MODULE Ecdsa --------------------------------
(***************************************************************************)
(* secp256k1_sign_digest_recoverable (WalletSecurity.cpp): the signature   *)
(* mbedTLS makes is brought to its low-S form and given the parity an EVM  *)
(* node needs to recover the signer.  mbedtls_ecdsa_sign_det_ext and       *)
(* mbedtls_ecdsa_verify are modelled by what they compute; the nonce that  *)
(* RFC 6979 yields is any scalar.  The key is that of the node a wallet    *)
(* operation has walked to; it signs once with it.                         *)
(***************************************************************************)
EXTENDS HdKeys

CONSTANTS
    X(_), Y(_)          \* the affine coordinates of a point other than Zero

VARIABLE out_signature  \* the digest and the nonce of a signature, and what came of it

\* The order is a prime.
ASSUME InverseAssumption == \A a \in Keys : \E b \in Keys : (a * b) % N = 1

\* A point and its opposite differ in the parity of their ordinate, and in nothing else of it;
\* no other point has their abscissa.
ASSUME CurveAssumption ==
    /\ \A point \in PublicKeys : X(point) \in Nat /\ Y(point) \in Nat
    /\ \A a \in Keys : X(Multiple[N - a]) = X(Multiple[a])
    /\ \A p, q \in PublicKeys : X(p) = X(q) /\ Y(p) % 2 = Y(q) % 2 => p = q

InverseTable == [a \in Keys |-> CHOOSE b \in Keys : (a * b) % N = 1]
Inverse_mod(a) == InverseTable[a]

Signed(signature) == [ok |-> TRUE, signature |-> signature]
CryptoFailure == Error("CryptoFailure")

\* mbedtls_ecdsa_sign_det_ext asks RFC 6979 for another nonce until neither half is zero.
NonceR(nonce) == X(Multiple[nonce]) % N
NonceS(private_key, z, nonce) ==
    (Inverse_mod(nonce) * ((z % N) + NonceR(nonce) * private_key)) % N

UsableNonce(private_key, z, nonce) ==
    nonce \in Keys /\ NonceR(nonce) # 0 /\ NonceS(private_key, z, nonce) # 0

\* s > N >> 1 is replaced by N - s.
LowS(s) == IF s > N \div 2 THEN N - s ELSE s

\* u1 * G + u2 * Q with u1 = z / s and u2 = r / s.
VerificationPoint(public_key, z, r, s) ==
    LET inverse_s == Inverse_mod(s)
    IN  Add(Times(((z % N) * inverse_s) % N, G), Times((r * inverse_s) % N, public_key))

\* mbedtls_ecdsa_verify
Verifies(public_key, z, r, s) ==
    LET point == VerificationPoint(public_key, z, r, s)
    IN  r \in Keys /\ s \in Keys /\ point # Zero /\ X(point) % N = r

\* Mutant: the nonce's point, before s was negated.
recovery_point_of_nonce(private_key, z, r, s, nonce) == Multiple[nonce]

\* The point whose parity is published.
recovery_point(private_key, z, r, s, nonce) ==
    VerificationPoint(Multiple[private_key], z, r, s)

secp256k1_sign_digest_recoverable(private_key, z, nonce) ==
    LET r == NonceR(nonce)
        s == LowS(NonceS(private_key, z, nonce))
        point == recovery_point(private_key, z, r, s, nonce)
    IN  IF ~valid_private_key(private_key) THEN Error("InvalidArgument")
        ELSE IF /\ Verifies(Multiple[private_key], z, r, s)
                /\ X(point) % N = r
                /\ X(point) < N
        THEN Signed([r |-> r, s |-> s, y_parity |-> Y(point) % 2])
        ELSE CryptoFailure

-----------------------------------------------------------------------------
(* A wallet operation: down the tree, and then one signature. *)

NotSigned == [done |-> FALSE]

EcInit == HdInit /\ out_signature = NotSigned

Walk == out_signature = NotSigned /\ HdNext /\ UNCHANGED out_signature

SignDigest(z, nonce) ==
    /\ out_signature = NotSigned
    /\ UsableNonce(node.private_key, z, nonce)
    /\ out_signature' =
           [done |-> TRUE, digest |-> z, nonce |-> nonce,
            result |-> secp256k1_sign_digest_recoverable(node.private_key, z, nonce)]
    /\ UNCHANGED node

EcNext == Walk \/ \E z \in Scalars, nonce \in Keys : SignDigest(z, nonce)

EcSpec == EcInit /\ [][EcNext]_<<node, out_signature>>

-----------------------------------------------------------------------------
\* ecrecover, as an EVM node does it with v - 27 or yParity: the point with that abscissa and
\* parity is taken for the nonce point.
Recovered(z, signature) ==
    LET nonce_point == CHOOSE point \in PublicKeys :
                           X(point) = signature.r /\ Y(point) % 2 = signature.y_parity
        inverse_r == Inverse_mod(signature.r)
    IN  Add(Times((signature.s * inverse_r) % N, nonce_point),
            Times(((N - (z % N)) * inverse_r) % N, G))

\* Whatever the key, the digest and the nonce: a signature that is returned is in low-S form,
\* verifies, and names its signer through the parity; one is refused only for a nonce point
\* whose abscissa is not below the order.
IsRecoverable(result, private_key, z, nonce) ==
    IF result.ok
    THEN /\ result.signature.s \in 1 .. (N \div 2)
         /\ Verifies(Multiple[private_key], z, result.signature.r, result.signature.s)
         /\ Recovered(z, result.signature) = Multiple[private_key]
    ELSE X(Multiple[nonce]) >= N

\* What secp256k1_sign_digest_recoverable returned for the key of the node, whichever node the
\* wallet has derived, is such a signature or such a refusal.
SignatureRecovers ==
    out_signature # NotSigned =>
        IsRecoverable(out_signature.result, node.private_key, out_signature.digest,
                      out_signature.nonce)
=============================================================================
