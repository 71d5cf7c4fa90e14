------------------------------- MODULE EcGroup -------------------------------
(***************************************************************************)
(* The group mbedTLS offers the firmware as MBEDTLS_ECP_DP_SECP256K1: its  *)
(* order, its generator and its addition, as the calls of WalletSecurity   *)
(* use them (mbedtls_ecp_mul, mbedtls_ecp_muladd, mbedtls_ecp_check_pubkey,*)
(* the mbedtls_mpi_*_mod calls).  A point is what its coordinates are; a   *)
(* scalar is a number of the width of a private key.                       *)
(***************************************************************************)
EXTENDS Naturals

CONSTANTS
    N,                  \* group.N, a prime
    G,                  \* group.G
    Zero,               \* the point at infinity
    Add(_, _),          \* the sum of two points
    ScalarEnd           \* 2^256: scalars are read from 32 bytes

Scalars == 0 .. (ScalarEnd - 1)
Keys == 1 .. (N - 1)

\* mbedtls_ecp_mul: the k-fold sum of a point.
Times(k, point) ==
    LET sum[j \in 0 .. k] == IF j = 0 THEN Zero ELSE Add(sum[j - 1], point)
    IN  sum[k]

Multiple == [k \in 0 .. (N - 1) |-> Times(k, G)]
PublicKeys == {Multiple[k] : k \in Keys}

\* mbedtls_ecp_check_pubkey refuses what is not a point of the group, and infinity.
check_pubkey(point) == point \in PublicKeys

ASSUME OrderAssumption == N \in Nat /\ N > 2 /\ ScalarEnd \in Nat /\ ScalarEnd > N

\* G generates a group of order N: its multiples add as their factors do, and only the
\* multiple by zero is infinity.
ASSUME GroupLaw ==
    /\ \A a, b \in 0 .. (N - 1) : Add(Multiple[a], Multiple[b]) = Multiple[(a + b) % N]
    /\ Zero \notin PublicKeys
    /\ Multiple[0] = Zero
=============================================================================
