---------------------------- MODULE AccountProof ----------------------------
(***************************************************************************)
(* An account's keys, and what it signs on an EVM network.                 *)
(*                                                                         *)
(* Keys: the public derivation of HdKeys follows the private one, for      *)
(* every group that meets GroupLaw, every HMAC, every offset and depth.    *)
(* Transactions: what is parsed, shown and signed, for every layout of the *)
(* bytes, network, token table and stream of bytes.                        *)
(***************************************************************************)
EXTENDS Ecdsa, EvmTransaction, FoldFacts, SequenceTheorems

-----------------------------------------------------------------------------
(* Keys *)

\* The keys are the factors valid_private_key accepts, and each has a public key check_pubkey accepts.
LEMMA KeysAreFactors ==
    /\ N \in Nat /\ ScalarEnd \in Nat
    /\ Keys \subseteq Nat /\ Keys \subseteq 0 .. (N - 1)
    /\ \A k \in Nat : valid_private_key(k) <=> k \in Keys
    /\ \A k \in Keys : Multiple[k] \in PublicKeys /\ check_pubkey(Multiple[k])
  BY OrderAssumption DEF Keys, valid_private_key, PublicKeys, check_pubkey

\* The sum of a valid offset and a key is a key, or zero: the range of % N.
LEMMA ChildInRange ==
    ASSUME NEW left \in Keys, NEW key \in Keys
    PROVE  (left + key) % N \in 0 .. (N - 1)
  <1>1. N \in Nat /\ N > 0 /\ left + key \in Nat
    BY OrderAssumption DEF Keys
  <1> QED
    BY <1>1

\* left * G + 1 * parent is the point of the child's key, and is a public key exactly when
\* that key is not zero.
LEMMA PointOfChild ==
    ASSUME NEW left \in Keys, NEW key \in Keys
    PROVE  /\ Add(Multiple[left], Multiple[key]) = Multiple[(left + key) % N]
           /\ check_pubkey(Add(Multiple[left], Multiple[key])) <=> (left + key) % N # 0
           /\ (left + key) % N # 0 => (left + key) % N \in Keys
  <1> DEFINE child == (left + key) % N
  <1>1. child \in 0 .. (N - 1)
    BY ChildInRange
  <1>2. Add(Multiple[left], Multiple[key]) = Multiple[child]
    BY GroupLaw, KeysAreFactors
  <1>3. child # 0 => child \in Keys
    BY <1>1, OrderAssumption DEF Keys
  <1>4. CASE child = 0
    <2>1. Multiple[child] = Zero
      BY <1>4, GroupLaw
    <2>2. ~check_pubkey(Multiple[child])
      BY <2>1, GroupLaw DEF check_pubkey
    <2> QED
      BY <2>2, <1>2, <1>3, <1>4
  <1>5. CASE child # 0
    BY <1>2, <1>3, <1>5, KeysAreFactors
  <1> QED
    BY <1>4, <1>5

-----------------------------------------------------------------------------
\* What hd_private_from_seed returns is a usable node at depth zero.
LEMMA MasterIsANode ==
    ASSUME NEW seed \in Seeds, hd_private_from_seed(seed).ok
    PROVE  LET master == hd_private_from_seed(seed).node
           IN  /\ master.private_key \in Keys /\ master.chain_code \in ChainCodes
               /\ master.depth = 0 /\ master.child_number = 0
  <1> DEFINE material == Hmac(kBip32Key, seed)
  <1>1. material.left \in Nat /\ material.chain_code \in ChainCodes
    BY HmacAssumption, OrderAssumption DEF Materials, Scalars
  <1>2. valid_private_key(material.left)
    BY DEF hd_private_from_seed, Error
  <1>3. hd_private_from_seed(seed).node =
            [private_key |-> material.left, chain_code |-> material.chain_code, depth |-> 0,
             parent_fingerprint |-> 0, child_number |-> 0]
    BY <1>2 DEF hd_private_from_seed, Ok
  <1> QED
    BY <1>1, <1>2, <1>3, KeysAreFactors

\* The data hashed for a child of a usable node is data the hash is defined on.
LEMMA DataOfANode ==
    ASSUME NodeOK, NEW index \in Indices
    PROVE  /\ DerivationData(node, index) \in HdData
           /\ Hmac(node.chain_code, DerivationData(node, index)) \in Materials
  <1>1. DerivationData(node, index) \in HdData
    BY KeysAreFactors DEF NodeOK, DerivationData, HdData
  <1> QED
    BY <1>1, HmacAssumption DEF NodeOK

\* One level of hd_private_derive, taken or refused, leaves a usable node behind.
LEMMA DeriveKeepsNode ==
    ASSUME NodeOK, NEW index \in Indices, Derive(index)
    PROVE  NodeOK'
  <1> DEFINE material == Hmac(node.chain_code, DerivationData(node, index))
  <1> DEFINE child_key == ChildKey(node, material.left)
  <1>1. material.left \in Nat /\ material.chain_code \in ChainCodes
    BY DataOfANode, OrderAssumption DEF Materials, Scalars
  <1>2. /\ valid_private_key(node.private_key) /\ node.depth # MaxDepth
        /\ ValidOffset(material.left) /\ child_key # 0
    BY DEF Derive, hd_private_derive, Error
  <1>3. node' = [private_key |-> child_key, chain_code |-> material.chain_code,
                 depth |-> node.depth + 1,
                 parent_fingerprint |-> Fingerprint(Multiple[node.private_key]),
                 child_number |-> index]
    BY <1>2 DEF Derive, hd_private_derive, Ok
  <1>4. material.left \in Keys
    BY <1>1, <1>2, OrderAssumption DEF ValidOffset, Keys
  <1>5. child_key \in Keys
    BY <1>2, <1>4, PointOfChild DEF ChildKey, NodeOK
  <1>6. node.depth + 1 \in 0 .. MaxDepth
    BY <1>2, IndexAssumption DEF NodeOK
  <1> QED
    BY <1>1, <1>3, <1>5, <1>6 DEF NodeOK

\* Every node the firmware can reach from a seed has a key between 1 and N - 1 and a depth that
\* fits its byte.
THEOREM NodesAreUsable == HdSpec => []NodeOK
  <1>1. HdInit => NodeOK
    <2> SUFFICES ASSUME NEW seed \in Seeds, hd_private_from_seed(seed).ok,
                        node = hd_private_from_seed(seed).node
                 PROVE  NodeOK
      BY DEF HdInit
    <2>1. 0 \in Indices /\ 0 \in 0 .. MaxDepth
      BY IndexAssumption DEF Indices
    <2> QED
      BY <2>1, MasterIsANode DEF NodeOK
  <1>2. NodeOK /\ [HdNext]_node => NodeOK'
    <2> SUFFICES ASSUME NodeOK, [HdNext]_node PROVE NodeOK'
      OBVIOUS
    <2>1. CASE HdNext
      BY <2>1, DeriveKeepsNode DEF HdNext
    <2>2. CASE UNCHANGED node
      BY <2>2 DEF NodeOK
    <2> QED
      BY <2>1, <2>2
  <1> QED
    BY <1>1, <1>2, PTL DEF HdSpec

-----------------------------------------------------------------------------
\* The two derivations of one child, from the same left half and chain code.
LEMMA ChildrenAgree ==
    ASSUME NodeOK, NEW index \in 0 .. (kHardenedOffset - 1)
    PROVE  hd_public_derive(hd_public_neuter(node).node, index)
               = Neutered(hd_private_derive(node, index))
  <1> DEFINE public == hd_public_neuter(node).node
             data == [form |-> "public", key |-> Multiple[node.private_key], index |-> index]
             material == Hmac(node.chain_code, data)
             child_key == ChildKey(node, material.left)
  <1>1. /\ node.private_key \in Keys /\ valid_private_key(node.private_key)
        /\ node.private_key \in Nat
    BY KeysAreFactors DEF NodeOK
  <1>2. public = [public_key |-> Multiple[node.private_key], chain_code |-> node.chain_code,
                  depth |-> node.depth, parent_fingerprint |-> node.parent_fingerprint,
                  child_number |-> node.child_number]
    BY <1>1 DEF hd_public_neuter, Ok
  <1>3. index \in Indices /\ ~(index >= kHardenedOffset)
    BY IndexAssumption DEF Indices
  <1>4. DerivationData(node, index) = data
    BY <1>3 DEF DerivationData
  <1>5. material.left \in Nat
    BY <1>3, <1>4, DataOfANode, OrderAssumption DEF Materials, Scalars
  <1>6. check_pubkey(public.public_key)
    BY <1>1, <1>2, KeysAreFactors
  <1>7. ValidOffset(material.left) => material.left \in Keys
    BY <1>5, OrderAssumption DEF ValidOffset, Keys
  <1>8. ChildPoint(public, material.left) = Add(Multiple[material.left], Multiple[node.private_key])
    BY <1>2 DEF ChildPoint
  <1>9. CASE node.depth = MaxDepth
    BY <1>2, <1>3, <1>9 DEF hd_public_derive, hd_private_derive, Neutered, Error
  <1>10. CASE node.depth # MaxDepth /\ ~ValidOffset(material.left)
    <2>1. hd_private_derive(node, index) = Error("InvalidChild")
      BY <1>1, <1>4, <1>10 DEF hd_private_derive
    <2>2. hd_public_derive(public, index) = Error("InvalidChild")
      BY <1>2, <1>3, <1>10 DEF hd_public_derive, PublicOffset
    <2> QED
      BY <2>1, <2>2 DEF Neutered, Error
  <1>11. CASE node.depth # MaxDepth /\ ValidOffset(material.left) /\ child_key = 0
    <2>1. hd_private_derive(node, index) = Error("InvalidChild")
      BY <1>1, <1>4, <1>11 DEF hd_private_derive
    <2>2. ~check_pubkey(ChildPoint(public, material.left))
      BY <1>1, <1>7, <1>8, <1>11, PointOfChild DEF ChildKey
    <2>3. hd_public_derive(public, index) = Error("InvalidChild")
      BY <1>2, <1>3, <1>11, <2>2 DEF hd_public_derive
    <2> QED
      BY <2>1, <2>3 DEF Neutered, Error
  <1>12. CASE node.depth # MaxDepth /\ ValidOffset(material.left) /\ child_key # 0
    <2> DEFINE child == [private_key |-> child_key, chain_code |-> material.chain_code,
                         depth |-> node.depth + 1,
                         parent_fingerprint |-> Fingerprint(Multiple[node.private_key]),
                         child_number |-> index]
    <2>1. hd_private_derive(node, index) = Ok(child)
      BY <1>1, <1>4, <1>12 DEF hd_private_derive
    <2>2. /\ ChildPoint(public, material.left) = Multiple[child_key]
          /\ check_pubkey(ChildPoint(public, material.left))
          /\ child_key \in Keys
      BY <1>1, <1>7, <1>8, <1>12, PointOfChild DEF ChildKey
    <2>3. valid_private_key(child_key)
      BY <2>2, KeysAreFactors
    <2>4. Neutered(Ok(child)) =
              Ok([public_key |-> Multiple[child_key], chain_code |-> material.chain_code,
                  depth |-> node.depth + 1,
                  parent_fingerprint |-> Fingerprint(Multiple[node.private_key]),
                  child_number |-> index])
      BY <2>3 DEF Neutered, Ok, hd_public_neuter
    <2>5. PublicOffset(public, material.left)
      BY <1>6, <1>12 DEF PublicOffset
    <2>6. hd_public_derive(public, index) =
              Ok([public_key |-> Multiple[child_key], chain_code |-> material.chain_code,
                  depth |-> node.depth + 1,
                  parent_fingerprint |-> Fingerprint(Multiple[node.private_key]),
                  child_number |-> index])
      BY <1>2, <1>3, <1>12, <2>2, <2>5 DEF hd_public_derive
    <2> QED
      BY <2>1, <2>4, <2>6
  <1> QED
    BY <1>9, <1>10, <1>11, <1>12

\* Whoever holds the extended public key of a node sees the children the device derives, and
\* sees none the device refuses.
THEOREM WatchersFollow == HdSpec => []PublicFollowsPrivate
  <1>1. NodeOK => PublicFollowsPrivate
    BY ChildrenAgree DEF PublicFollowsPrivate
  <1> QED
    BY <1>1, NodesAreUsable, PTL

-----------------------------------------------------------------------------
(* The signer of a recoverable signature *)

\* Whole divisors do not count in a remainder.
LEMMA RemainderShift ==
    ASSUME NEW d \in Nat \ {0}, NEW n \in Nat, NEW q \in Nat
    PROVE  (d * q + n) % d = n % d
  <1> DEFINE p == n \div d
             t == n % d
  <1>1. p \in Nat /\ t \in Nat /\ t < d /\ n = d * p + t
    BY QuotientOf
  <1> HIDE DEF p, t
  <1>2. d * q + n = d * (q + p) + t
    BY <1>1
  <1>3. (d * (q + p) + t) % d = t
    BY <1>1, QuotientIs
  <1> QED
    BY <1>2, <1>3 DEF t

\* A sum and a product may be reduced before or after.
LEMMA RemainderFirst ==
    ASSUME NEW d \in Nat \ {0}, NEW a \in Nat, NEW b \in Nat
    PROVE  /\ ((a % d) + b) % d = (a + b) % d
           /\ ((a % d) * b) % d = (a * b) % d
  <1> DEFINE q == a \div d
             t == a % d
  <1>1. q \in Nat /\ t \in Nat /\ a = d * q + t
    BY QuotientOf
  <1> HIDE DEF q, t
  <1>2. a + b = d * q + (t + b) /\ t + b \in Nat
    BY <1>1
  <1>3. a * b = d * (q * b) + t * b /\ q * b \in Nat /\ t * b \in Nat
    <2>1. \A x, y, z \in Nat : (x + y) * z = x * z + y * z /\ (x * y) * z = x * (y * z)
      OBVIOUS
    <2>2. d * q \in Nat /\ q * b \in Nat /\ t * b \in Nat
      BY <1>1
    <2> QED
      BY <1>1, <2>1, <2>2
  <1>4. (d * q + (t + b)) % d = (t + b) % d
    BY <1>1, <1>2, RemainderShift
  <1>5. (d * (q * b) + t * b) % d = (t * b) % d
    BY <1>3, RemainderShift
  <1> QED
    BY <1>2, <1>3, <1>4, <1>5 DEF t

\* A remainder of what is below the divisor.
LEMMA RemainderOfLess == ASSUME NEW d \in Nat \ {0}, NEW n \in Nat, n < d PROVE n % d = n
  OBVIOUS

\* What a multiple of G in the table is a multiple by.
Factors == 0 .. N - 1

\* The factors, and what their remainders are.
LEMMA FactorsAre ==
    /\ N \in Nat \ {0} /\ N > 2
    /\ Factors \subseteq Nat /\ Keys \subseteq Factors /\ 0 \notin Keys /\ 0 \in Factors
    /\ \A n \in Nat : n % N \in Factors /\ (n \in Factors => n % N = n)
    /\ \A n \in Factors : n # 0 => n \in Keys
  <1>1. N \in Nat \ {0} /\ N > 2
    BY OrderAssumption
  <1> QED
    BY <1>1 DEF Factors, Keys

\* Numbers of one remainder by the order have multiples of one remainder.
LEMMA MultiplesAgree ==
    ASSUME NEW a \in Nat, NEW b \in Nat, NEW c \in Nat, a % N = b % N
    PROVE  (a * c) % N = (b * c) % N
  <1>1. N \in Nat \ {0} /\ N > 2
    BY FactorsAre
  <1>2. ((a % N) * c) % N = (a * c) % N /\ ((b % N) * c) % N = (b * c) % N
    BY <1>1, RemainderFirst
  <1> QED
    BY ONLY <1>2, a % N = b % N, Zenon

\* A remainder by the order may be taken of a term and of a factor first.
LEMMA RemainderPlus ==
    ASSUME NEW a \in Nat, NEW b \in Nat
    PROVE  ((a % N) + b) % N = (a + b) % N
  BY FactorsAre, RemainderFirst

LEMMA RemainderTimes ==
    ASSUME NEW a \in Nat, NEW b \in Nat
    PROVE  ((a % N) * b) % N = (a * b) % N
  BY FactorsAre, RemainderFirst

\* A number times its inverse leaves what it multiplies.
LEMMA InversesCancel ==
    ASSUME NEW a \in Nat, NEW b \in Nat, NEW c \in Nat, (a * b) % N = 1
    PROVE  ((a * b) * c) % N = c % N
  <1> DEFINE d == a * b
  <1>1. d \in Nat /\ d % N = 1
    OBVIOUS
  <1> HIDE DEF d
  <1>2. ((d % N) * c) % N = (d * c) % N
    BY ONLY <1>1, c \in Nat, RemainderTimes, Zenon
  <1>3. 1 * c = c
    OBVIOUS
  <1>4. (d * c) % N = c % N
    BY ONLY <1>1, <1>2, <1>3, Zenon
  <1> QED
    BY <1>4 DEF d

\* The only multiple of the order between zero and its double is the order.
LEMMA OrderDivides ==
    ASSUME NEW n \in Nat, n > 0, n < 2 * N, n % N = 0
    PROVE  n = N
  <1>1. N \in Nat \ {0}
    BY FactorsAre
  <1>2. ~(n < N)
    BY <1>1
  <1>3. ASSUME n > N PROVE FALSE
    <2> DEFINE t == n - N
    <2>1. t \in Nat /\ t < N /\ t > 0 /\ n = N * 1 + t
      BY <1>1, <1>3
    <2> HIDE DEF t
    <2>2. (N * 1 + t) % N = t
      BY <1>1, <2>1, QuotientIs
    <2> QED
      BY <2>1, <2>2
  <1> QED
    BY <1>1, <1>2, <1>3

\* The k-fold sum of a multiple of G is a multiple of G.
LEMMA TimesOfMultiple ==
    ASSUME NEW d \in Factors, NEW k \in Nat
    PROVE  Times(k, Multiple[d]) = Multiple[(k * d) % N]
  <1> DEFINE point == Multiple[d]
             D == 0 .. k
             V == {Multiple[m] : m \in Factors}
             step == [x \in D \X V |-> Add(x[2], point)]
             Sums(f) == f = [j \in D |-> IF j = 0 THEN Zero ELSE Add(f[j - 1], point)]
  <1>1. \E f : Sums(f)
    <2>1. Zero \in V
      BY GroupLaw, FactorsAre
    <2>2. \A n \in D \ {0}, v \in V : step[<<n, v>>] \in V
      <3> SUFFICES ASSUME NEW n \in D \ {0}, NEW v \in V PROVE step[<<n, v>>] \in V
        OBVIOUS
      <3>1. step[<<n, v>>] = Add(v, point)
        OBVIOUS
      <3>2. PICK m \in Factors : v = Multiple[m]
        OBVIOUS
      <3>3. Add(Multiple[m], Multiple[d]) = Multiple[(m + d) % N]
        BY <3>2, GroupLaw DEF Factors
      <3>4. (m + d) % N \in Factors
        BY <3>2, FactorsAre
      <3> QED
        BY <3>1, <3>2, <3>3, <3>4
    <2>3. D \subseteq Nat /\ 0 \in D /\ \A n \in D : n >= 0 /\ (n # 0 => n - 1 \in D)
      OBVIOUS
    <2>4. PICK f \in [D -> V] : Counts(f, D, 0, Zero, step)
      <3> HIDE DEF D, V, step
      <3> QED
        BY <2>1, <2>2, <2>3, NatRecursion
    <2>5. Sums(f)
      <3>1. f = [j \in D |-> IF j = 0 THEN Zero ELSE step[<<j, f[j - 1]>>]]
        BY <2>4 DEF Counts
      <3>2. \A j \in D : j # 0 => step[<<j, f[j - 1]>>] = Add(f[j - 1], point)
        BY <2>3, <2>4
      <3>3. \A j \in D : f[j] = IF j = 0 THEN Zero ELSE Add(f[j - 1], point)
        <4> HIDE DEF step, point
        <4> QED
          BY <3>1, <3>2
      <3> QED
        BY <2>4, <3>3
    <2> QED
      BY <2>5
  <1> DEFINE g == CHOOSE f : Sums(f)
  <1>2. Sums(g)
    BY <1>1
  <1>3. Times(k, point) = g[k]
    BY DEF Times
  <1> HIDE DEF g
  <1>4. g[0] = Zero /\ \A j \in 0 .. k - 1 : g[j + 1] = Add(g[j], point)
    <2>1. \A j \in D : g[j] = IF j = 0 THEN Zero ELSE Add(g[j - 1], point)
      BY <1>2
    <2>2. 0 \in D /\ \A j \in 0 .. k - 1 : j + 1 \in D /\ j + 1 # 0 /\ (j + 1) - 1 = j
      OBVIOUS
    <2> HIDE DEF D, point, Sums
    <2> QED
      BY <2>1, <2>2
  <1> DEFINE Good == {j \in Nat : j <= k => g[j] = Multiple[(j * d) % N]}
  <1>5. 0 \in Good
    <2>1. (0 * d) % N = 0
      BY FactorsAre DEF Factors
    <2> QED
      BY <1>4, <2>1, GroupLaw
  <1>6. \A j \in Nat : j \in Good => j + 1 \in Good
    <2> SUFFICES ASSUME NEW j \in Nat, j \in Good, j + 1 <= k
                 PROVE  g[j + 1] = Multiple[((j + 1) * d) % N]
      OBVIOUS
    <2>1. g[j] = Multiple[(j * d) % N] /\ j \in 0 .. k - 1
      OBVIOUS
    <2>2. d \in Nat /\ j * d \in Nat /\ (j + 1) * d = j * d + d
      BY FactorsAre
    <2>3. (j * d) % N \in Factors
      BY <2>2, FactorsAre
    <2>4. Add(Multiple[(j * d) % N], Multiple[d]) = Multiple[(((j * d) % N) + d) % N]
      BY <2>3, GroupLaw DEF Factors
    <2>5. (((j * d) % N) + d) % N = (j * d + d) % N
      BY <2>2, RemainderFirst, FactorsAre
    <2> QED
      BY <1>4, <2>1, <2>2, <2>4, <2>5
  <1> HIDE DEF Good
  <1>7. Nat \subseteq Good
    BY <1>5, <1>6, NatSetInduction
  <1> QED
    BY <1>3, <1>7 DEF Good

\* A multiple of G by a factor is in the table.
LEMMA TimesOfGenerator == ASSUME NEW a \in Factors PROVE Times(a, G) = Multiple[a]
  BY DEF Multiple, Factors

\* Every key has an inverse.
LEMMA InverseIs ==
    ASSUME NEW a \in Keys PROVE Inverse_mod(a) \in Keys /\ (a * Inverse_mod(a)) % N = 1
  BY InverseAssumption DEF Inverse_mod, InverseTable

\* The sum of two multiples, by factors that are products.
LEMMA SumOfMultiples ==
    ASSUME NEW a \in Nat, NEW b \in Nat, NEW d \in Factors
    PROVE  Add(Times(a % N, G), Times(b % N, Multiple[d])) = Multiple[(a + b * d) % N]
           /\ Add(Times(b % N, Multiple[d]), Times(a % N, G)) = Multiple[(a + b * d) % N]
  <1>1. a % N \in Factors /\ b % N \in Factors /\ d \in Nat /\ b * d \in Nat
        /\ (b * d) % N \in Factors /\ b % N \in Nat /\ (b * d) % N \in Nat
    <2>1. b * d \in Nat /\ d \in Nat
      BY FactorsAre
    <2> QED
      BY <2>1, FactorsAre
  <1>2. Times(a % N, G) = Multiple[a % N]
    BY <1>1, TimesOfGenerator
  <1>3. Times(b % N, Multiple[d]) = Multiple[(b * d) % N]
    <2>1. Times(b % N, Multiple[d]) = Multiple[((b % N) * d) % N]
      BY <1>1, TimesOfMultiple
    <2>2. ((b % N) * d) % N = (b * d) % N
      BY <1>1, RemainderFirst, FactorsAre
    <2> QED
      BY <2>1, <2>2
  <1>4. Add(Multiple[a % N], Multiple[(b * d) % N]) = Multiple[((a % N) + ((b * d) % N)) % N]
        /\ Add(Multiple[(b * d) % N], Multiple[a % N]) = Multiple[(((b * d) % N) + (a % N)) % N]
    BY <1>1, GroupLaw DEF Factors
  <1>5. ((a % N) + ((b * d) % N)) % N = (a + b * d) % N
    <2>1. ((a % N) + ((b * d) % N)) % N = (a + ((b * d) % N)) % N
      BY <1>1, RemainderFirst, FactorsAre
    <2>2. (((b * d) % N) + a) % N = (b * d + a) % N
      BY <1>1, RemainderFirst, FactorsAre
    <2>3. a + ((b * d) % N) = ((b * d) % N) + a /\ a + b * d = b * d + a
      <3> DEFINE x == (b * d) % N
                 y == b * d
      <3>1. x \in Nat /\ y \in Nat
        BY <1>1
      <3> HIDE DEF x, y
      <3>2. a + x = x + a /\ a + y = y + a
        BY <3>1
      <3> QED
        BY <3>2 DEF x, y
    <2> QED
      BY <2>1, <2>2, <2>3
  <1>6. ((b * d) % N) + (a % N) = (a % N) + ((b * d) % N)
    <2> DEFINE x == (b * d) % N
               y == a % N
    <2>1. x \in Nat /\ y \in Nat
      BY <1>1, FactorsAre
    <2> HIDE DEF x, y
    <2>2. x + y = y + x
      BY <2>1
    <2> QED
      BY <2>2 DEF x, y
  <1> QED
    BY <1>2, <1>3, <1>4, <1>5, <1>6

\* What the verifier of a signature computes: the digest and the key, over the half s.
FactorOf(private_key, z, r, s) == (((z % N) + r * private_key) * Inverse_mod(s)) % N

\* The verifier of mbedtls_ecdsa_verify, and of the recovery parity, comes to that multiple of G.
LEMMA VerificationPointIs ==
    ASSUME NEW private_key \in Keys, NEW z \in Nat, NEW r \in Keys, NEW s \in Keys
    PROVE  VerificationPoint(Multiple[private_key], z, r, s)
               = Multiple[FactorOf(private_key, z, r, s)]
  <1> DEFINE w == Inverse_mod(s)
             z0 == z % N
  <1>1. /\ w \in Nat /\ z0 \in Nat /\ r \in Nat /\ private_key \in Nat /\ private_key \in Factors
        /\ z0 * w \in Nat /\ r * w \in Nat
    <2>1. /\ w \in Nat /\ z0 \in Nat /\ r \in Nat /\ private_key \in Nat
          /\ private_key \in Factors
      BY FactorsAre, InverseIs
    <2> HIDE DEF w, z0
    <2> QED
      BY <2>1
  <1> HIDE DEF w, z0
  <1>2. z0 * w + (r * w) * private_key = (z0 + r * private_key) * w
    <2>1. (r * w) * private_key = (r * private_key) * w
      <3>1. \A x, y, u \in Nat : (x * y) * u = (x * u) * y
        OBVIOUS
      <3> QED
        BY <1>1, <3>1
    <2>2. r * private_key \in Nat
      BY <1>1
    <2>3. \A x, y, u \in Nat : (x + y) * u = x * u + y * u
      OBVIOUS
    <2> QED
      BY <1>1, <2>1, <2>2, <2>3
  <1>3. Add(Times((z0 * w) % N, G), Times((r * w) % N, Multiple[private_key]))
            = Multiple[(z0 * w + (r * w) * private_key) % N]
    BY <1>1, SumOfMultiples
  <1> QED
    BY <1>2, <1>3 DEF VerificationPoint, FactorOf, w, z0

\* The half s of a usable nonce times the nonce is the digest and the key.
LEMMA HalfTimesNonce ==
    ASSUME NEW private_key \in Keys, NEW z \in Nat, NEW nonce \in Keys, NEW r \in Nat
    PROVE  (((Inverse_mod(nonce) * ((z % N) + r * private_key)) % N) * nonce) % N
               = ((z % N) + r * private_key) % N
  <1> DEFINE w == Inverse_mod(nonce)
             y == (z % N) + r * private_key
  <1>1. w \in Nat /\ nonce \in Nat /\ (nonce * w) % N = 1
    BY FactorsAre, InverseIs
  <1>2. y \in Nat
    <2>1. z % N \in Nat /\ private_key \in Nat
      BY FactorsAre
    <2>2. r * private_key \in Nat
      BY <2>1
    <2> DEFINE a == z % N
               b == r * private_key
    <2>3. a \in Nat /\ b \in Nat
      BY <2>1, <2>2
    <2> HIDE DEF a, b
    <2>4. a + b \in Nat
      BY <2>3
    <2> QED
      BY <2>4 DEF a, b
  <1> HIDE DEF w, y
  <1>3. (((w * y) % N) * nonce) % N = ((w * y) * nonce) % N
    <2> DEFINE c == w * y
    <2>1. c \in Nat /\ nonce \in Nat
      BY <1>1, <1>2
    <2> HIDE DEF c
    <2>2. ((c % N) * nonce) % N = (c * nonce) % N
      BY ONLY <2>1, RemainderTimes, Zenon
    <2> QED
      BY <2>2 DEF c
  <1>4. (w * y) * nonce = (nonce * w) * y
    BY <1>1, <1>2
  <1>5. ((nonce * w) * y) % N = y % N
    BY ONLY <1>1, <1>2, InversesCancel, Zenon
  <1>6. (((w * y) % N) * nonce) % N = y % N
    BY ONLY <1>3, <1>4, <1>5, Zenon
  <1> QED
    BY <1>6, Zenon DEF w, y

\* The verifier comes to the nonce's point or to its opposite, as s was kept or negated.
LEMMA FactorIsNonce ==
    ASSUME NEW private_key \in Keys, NEW z \in Nat, NEW nonce \in Keys, NEW r \in Nat,
           NEW s0 \in Keys, s0 = (Inverse_mod(nonce) * ((z % N) + r * private_key)) % N
    PROVE  /\ LowS(s0) \in 1 .. (N \div 2)
           /\ LowS(s0) \in Keys
           /\ FactorOf(private_key, z, r, LowS(s0)) \in {nonce, N - nonce}
  <1> DEFINE s == LowS(s0)
             w == Inverse_mod(s)
             y == (z % N) + r * private_key
             v == (y * w) % N
  <1>1. s0 \in Nat /\ nonce \in Nat /\ N \in Nat \ {0} /\ N > 2 /\ s0 < N /\ s0 > 0
        /\ nonce < N /\ nonce > 0
    BY FactorsAre DEF Keys
  <1>2. s \in 1 .. (N \div 2) /\ s \in Keys /\ (s = s0 \/ s = N - s0)
    BY <1>1 DEF LowS, Keys
  <1> HIDE DEF s
  <1>3. w \in Nat /\ (s * w) % N = 1 /\ s \in Nat
    BY <1>2, InverseIs, FactorsAre
  <1>4. y \in Nat
    <2> DEFINE a == z % N
               b == r * private_key
    <2>1. a \in Nat /\ b \in Nat
      BY FactorsAre
    <2> HIDE DEF a, b
    <2>2. a + b \in Nat
      BY <2>1
    <2> QED
      BY <2>2 DEF a, b
  <1>5. (s0 * nonce) % N = y % N
    BY HalfTimesNonce
  <1> HIDE DEF w, y
  <1>6. v = ((s0 * nonce) * w) % N
    <2> DEFINE c == s0 * nonce
    <2>1. c \in Nat /\ c % N = y % N
      BY <1>1, <1>5
    <2> HIDE DEF c
    <2>2. (y * w) % N = (c * w) % N
      <3>1. y % N = c % N
        BY <2>1
      <3> QED
        BY ONLY <1>3, <1>4, <2>1, <3>1, MultiplesAgree, Zenon
    <2> QED
      BY <2>2, Zenon DEF c
  <1>7. (s0 * nonce) * w = (s0 * w) * nonce /\ s0 * w \in Nat /\ (s0 * w) * nonce \in Nat
    BY <1>1, <1>3
  <1>8. CASE s = s0
    <2>1. ((s0 * w) * nonce) % N = nonce % N
      <3>1. (s0 * w) % N = 1 /\ s0 \in Nat /\ w \in Nat /\ nonce \in Nat
        BY <1>1, <1>3, <1>8
      <3> QED
        BY ONLY <3>1, InversesCancel, Zenon
    <2>2. nonce % N = nonce
      BY <1>1
    <2>3. v = nonce
      BY <1>6, <1>7, <2>1, <2>2
    <2> QED
      BY <1>2, <2>3 DEF FactorOf, s, w, y, v
  <1>9. CASE s = N - s0
    <2>1. (s * w) * nonce + (s0 * w) * nonce = N * (w * nonce)
      <3>1. s0 + s = N
        BY <1>1, <1>9
      <3>2. (s * w) * nonce + (s0 * w) * nonce = (s0 + s) * (w * nonce)
        BY <1>1, <1>3
      <3> QED
        BY <3>1, <3>2
    <2>2. ((s * w) * nonce) % N = nonce
      <3>1. s \in Nat /\ w \in Nat /\ nonce \in Nat /\ (s * w) % N = 1
        BY <1>1, <1>3
      <3>2. ((s * w) * nonce) % N = nonce % N
        BY ONLY <3>1, InversesCancel, Zenon
      <3>3. nonce % N = nonce
        BY <1>1
      <3> QED
        BY <3>2, <3>3
    <2>3. (nonce + v) % N = 0
      <3> DEFINE a == (s * w) * nonce
                 b == (s0 * w) * nonce
      <3>1. a \in Nat /\ b \in Nat /\ w * nonce \in Nat
        BY <1>1, <1>3
      <3>2. a % N = nonce /\ b % N = v
        BY <1>6, <1>7, <2>2
      <3>3. a + b = N * (w * nonce) + 0
        BY <2>1, <3>1, <1>1
      <3> HIDE DEF a, b, v
      <3>4. (a + b) % N = 0
        <4>1. (N * (w * nonce) + 0) % N = 0
          BY ONLY <1>1, <3>1, QuotientIs
        <4> QED
          BY <3>3, <4>1
      <3>5. ((a % N) + b) % N = (a + b) % N
        BY ONLY <3>1, RemainderPlus, Zenon
      <3>6. nonce + b = b + nonce
        BY <1>1, <3>1
      <3>7. ((b % N) + nonce) % N = (b + nonce) % N
        <4>1. b \in Nat /\ nonce \in Nat
          BY <3>1, <1>1
        <4> QED
          BY ONLY <4>1, RemainderPlus, Zenon
      <3>8. v + nonce = nonce + v
        <4>1. v \in Nat
          BY <3>1, <3>2, FactorsAre
        <4> QED
          BY <4>1, <1>1
      <3> QED
        BY <3>2, <3>4, <3>5, <3>6, <3>7, <3>8
    <2>4. v \in 0 .. N - 1
      <3> DEFINE u == y * w
      <3>1. u \in Nat
        BY <1>3, <1>4
      <3> HIDE DEF u
      <3>2. u % N \in 0 .. N - 1
        BY <3>1, <1>1
      <3> QED
        BY <3>2 DEF u
    <2>5. v = N - nonce
      <3> HIDE DEF v
      <3>1. nonce + v = N
        <4>1. nonce + v \in Nat /\ nonce + v > 0 /\ nonce + v < 2 * N
          BY <1>1, <2>4
        <4> QED
          BY <2>3, <4>1, OrderDivides
      <3> QED
        BY <3>1, <1>1, <2>4
    <2> QED
      BY <1>2, <2>5 DEF FactorOf, s, w, y, v
  <1> QED
    BY <1>2, <1>8, <1>9

\* A verified signature, r and the verifier's point give the key back.
LEMMA RecoveryFactor ==
    ASSUME NEW private_key \in Keys, NEW z \in Nat, NEW r \in Keys, NEW s \in Keys
    PROVE  ((N - (z % N)) * Inverse_mod(r)
               + (s * Inverse_mod(r)) * FactorOf(private_key, z, r, s)) % N = private_key
  <1> DEFINE u == Inverse_mod(r)
             w == Inverse_mod(s)
             z0 == z % N
             rest == N - z0
             part == r * private_key
             y == z0 + part
             v == FactorOf(private_key, z, r, s)
  <1>1. /\ r \in Nat /\ s \in Nat /\ private_key \in Nat /\ u \in Nat /\ w \in Nat
        /\ (r * u) % N = 1 /\ (s * w) % N = 1 /\ private_key % N = private_key
        /\ z0 \in Nat /\ rest \in Nat /\ rest + z0 = N /\ N \in Nat \ {0}
    <2>1. z0 \in 0 .. N - 1 /\ N \in Nat \ {0}
      BY FactorsAre DEF Factors
    <2>2. /\ r \in Nat /\ s \in Nat /\ private_key \in Nat /\ u \in Nat /\ w \in Nat
          /\ (r * u) % N = 1 /\ (s * w) % N = 1 /\ private_key % N = private_key
      BY FactorsAre, InverseIs
    <2> HIDE DEF z0, u, w
    <2>3. rest \in Nat /\ rest + z0 = N
      BY <2>1
    <2> QED
      BY <2>1, <2>2, <2>3
  <1>a. s \in Nat /\ u \in Nat /\ w \in Nat /\ rest \in Nat /\ private_key \in Nat /\ 1 \in Nat
    BY <1>1
  <1>2. part \in Nat
    BY <1>1
  <1> HIDE DEF z0, u, w, rest
  <1>3. y \in Nat
    <2> HIDE DEF part
    <2> QED
      BY <1>1, <1>2
  <1>4. v = (y * w) % N
    BY DEF FactorOf, y, w, z0, v
  <1> HIDE DEF part, y, v
  <1>5. v \in Nat
    <2>1. y * w \in Nat
      BY <1>1, <1>3
    <2> QED
      BY <1>4, <2>1, FactorsAre
  <1>6. (v * s) % N = y % N
    <2>1. y * w \in Nat
      BY <1>1, <1>3
    <2>2. (v * s) % N = ((y * w) * s) % N
      <3> DEFINE c == y * w
      <3>1. c \in Nat /\ v = c % N
        BY <1>4, <2>1
      <3> HIDE DEF c
      <3>2. ((c % N) * s) % N = (c * s) % N
        BY ONLY <1>a, <3>1, RemainderTimes, Zenon
      <3> QED
        BY <3>1, <3>2, Zenon DEF c
    <2>3. (y * w) * s = (s * w) * y
      BY <1>1, <1>3
    <2>4. s \in Nat /\ w \in Nat /\ (s * w) % N = 1
      BY <1>1
    <2>5. ((s * w) * y) % N = y % N
      BY ONLY <1>3, <2>4, InversesCancel, Zenon
    <2> QED
      BY ONLY <2>2, <2>3, <2>5, Zenon
  <1> DEFINE vs == v * s
  <1>7. vs \in Nat
    BY <1>1, <1>5
  <1>8. rest * u + (s * u) * v = (vs + rest) * u
    BY <1>1, <1>5
  <1> HIDE DEF vs
  <1>9. (vs + rest) % N = part % N
    <2>1. ((vs % N) + rest) % N = (vs + rest) % N
      <3>1. rest \in Nat
        BY <1>a
      <3> QED
        BY ONLY <1>7, <3>1, RemainderPlus, Zenon
    <2>2. ((y % N) + rest) % N = (y + rest) % N
      <3>1. rest \in Nat
        BY <1>a
      <3> QED
        BY ONLY <1>3, <3>1, RemainderPlus, Zenon
    <2>3. vs % N = y % N
      BY <1>6 DEF vs
    <2>4. y + rest = N * 1 + part
      BY <1>1, <1>2 DEF y
    <2>5. (N * 1 + part) % N = part % N
      <3>1. N \in Nat \ {0} /\ 1 \in Nat
        BY <1>1
      <3> QED
        BY ONLY <1>2, <3>1, RemainderShift
    <2> QED
      BY ONLY <2>1, <2>2, <2>3, <2>4, <2>5, Zenon
  <1>10. ((vs + rest) * u) % N = (part * u) % N
    <2> DEFINE sum == vs + rest
    <2>1. sum \in Nat /\ u \in Nat /\ part \in Nat /\ sum % N = part % N
      BY <1>1, <1>2, <1>7, <1>9
    <2> HIDE DEF sum
    <2>2. (sum * u) % N = (part * u) % N
      BY ONLY <2>1, MultiplesAgree, Zenon
    <2> QED
      BY <2>2 DEF sum
  <1>11. (part * u) % N = private_key
    <2>1. part * u = (r * u) * private_key
      BY <1>1 DEF part
    <2>2. r \in Nat /\ u \in Nat /\ private_key \in Nat /\ (r * u) % N = 1
      BY <1>1
    <2>3. ((r * u) * private_key) % N = private_key % N
      BY ONLY <2>2, InversesCancel, Zenon
    <2>4. private_key % N = private_key
      BY <1>1
    <2> QED
      BY ONLY <1>1, <2>1, <2>3, <2>4, Zenon
  <1>12. (rest * u + (s * u) * v) % N = private_key
    BY ONLY <1>8, <1>10, <1>11, Zenon
  <1> QED
    BY <1>12, Zenon DEF rest, z0, u, v

\* The one point of an abscissa and a parity is the verifier's, so that the key is recovered.
LEMMA KeyIsRecovered ==
    ASSUME NEW private_key \in Keys, NEW z \in Nat, NEW r \in Keys, NEW s \in Keys,
           NEW point, point = Multiple[FactorOf(private_key, z, r, s)],
           point \in PublicKeys, X(point) = r
    PROVE  Recovered(z, [r |-> r, s |-> s, y_parity |-> Y(point) % 2]) = Multiple[private_key]
  <1> DEFINE signature == [r |-> r, s |-> s, y_parity |-> Y(point) % 2]
             nonce_point == CHOOSE p \in PublicKeys :
                                X(p) = signature.r /\ Y(p) % 2 = signature.y_parity
             u == Inverse_mod(r)
             v == FactorOf(private_key, z, r, s)
  <1>1. signature.r = r /\ signature.s = s /\ signature.y_parity = Y(point) % 2
    OBVIOUS
  <1> HIDE DEF signature
  <1>2. nonce_point = point
    <2>1. \E p \in PublicKeys : X(p) = signature.r /\ Y(p) % 2 = signature.y_parity
      BY <1>1
    <2>2. /\ nonce_point \in PublicKeys /\ X(nonce_point) = signature.r
          /\ Y(nonce_point) % 2 = signature.y_parity
      BY ONLY <2>1
    <2> HIDE DEF nonce_point
    <2>3. X(nonce_point) = X(point) /\ Y(nonce_point) % 2 = Y(point) % 2
      BY <1>1, <2>2
    <2> QED
      BY ONLY <2>2, <2>3, point \in PublicKeys, CurveAssumption, Zenon
  <1>3. Recovered(z, signature)
            = Add(Times((s * u) % N, nonce_point), Times(((N - (z % N)) * u) % N, G))
    BY <1>1, Zenon DEF Recovered
  <1> HIDE DEF nonce_point
  <1>4. u \in Nat /\ s * u \in Nat /\ (N - (z % N)) * u \in Nat
    <2> DEFINE rest == N - (z % N)
    <2>1. z % N \in 0 .. N - 1 /\ N \in Nat
      BY FactorsAre DEF Factors
    <2>2. rest \in Nat
      BY <2>1
    <2>3. u \in Nat /\ s \in Nat
      BY InverseIs, FactorsAre
    <2> HIDE DEF rest, u
    <2>4. s * u \in Nat /\ rest * u \in Nat
      BY <2>2, <2>3
    <2> QED
      BY <2>3, <2>4 DEF rest
  <1>5. v \in Factors
    <2>1. ((z % N) + r * private_key) * Inverse_mod(s) \in Nat
      <3> DEFINE a == z % N
                 b == r * private_key
                 w == Inverse_mod(s)
      <3>1. a \in Nat /\ w \in Nat /\ private_key \in Nat /\ r \in Nat
        BY FactorsAre, InverseIs
      <3>2. b \in Nat
        BY <3>1
      <3> HIDE DEF a, b, w
      <3>3. (a + b) * w \in Nat
        BY <3>1, <3>2
      <3> QED
        BY <3>3 DEF a, b, w
    <2> QED
      BY <2>1, FactorsAre DEF FactorOf
  <1>6. Add(Times((s * u) % N, Multiple[v]), Times(((N - (z % N)) * u) % N, G))
            = Multiple[((N - (z % N)) * u + (s * u) * v) % N]
    <2> DEFINE a == (N - (z % N)) * u
               b == s * u
    <2>1. a \in Nat /\ b \in Nat
      BY <1>4
    <2> HIDE DEF a, b, v
    <2>2. Add(Times(b % N, Multiple[v]), Times(a % N, G)) = Multiple[(a + b * v) % N]
      BY <1>5, <2>1, SumOfMultiples
    <2> QED
      BY <2>2, Zenon DEF a, b
  <1>7. ((N - (z % N)) * u + (s * u) * v) % N = private_key
    BY RecoveryFactor
  <1>8. nonce_point = Multiple[v]
    BY <1>2
  <1>9. Recovered(z, signature) = Multiple[private_key]
    BY ONLY <1>3, <1>6, <1>7, <1>8, Zenon
  <1> QED
    BY <1>9, Zenon DEF signature

\* Every key signs every digest with every usable nonce so that the key is recovered.
LEMMA EveryKeyIsRecovered ==
    ASSUME NEW private_key \in Keys, NEW z \in Nat, NEW nonce \in Keys,
           UsableNonce(private_key, z, nonce)
    PROVE  IsRecoverable(secp256k1_sign_digest_recoverable(private_key, z, nonce),
                         private_key, z, nonce)
  <1> DEFINE r == NonceR(nonce)
             s0 == NonceS(private_key, z, nonce)
             s == LowS(s0)
             v == FactorOf(private_key, z, r, s)
             point == Multiple[v]
  <1>1. Multiple[nonce] \in PublicKeys /\ X(Multiple[nonce]) \in Nat
    BY CurveAssumption DEF PublicKeys
  <1>2. r \in Keys /\ r \in Nat
    <2>1. r \in Factors /\ r # 0
      BY <1>1, FactorsAre DEF NonceR, UsableNonce
    <2> QED
      BY <2>1, FactorsAre
  <1>3. s0 = (Inverse_mod(nonce) * ((z % N) + r * private_key)) % N
    BY DEF NonceS
  <1> HIDE DEF r
  <1>4. s0 \in Keys
    <2>1. Inverse_mod(nonce) * ((z % N) + r * private_key) \in Nat
      <3> DEFINE a == z % N
                 b == r * private_key
                 w == Inverse_mod(nonce)
      <3>1. a \in Nat /\ w \in Nat /\ private_key \in Nat
        BY FactorsAre, InverseIs
      <3>2. b \in Nat
        BY <1>2, <3>1
      <3> HIDE DEF a, b, w
      <3>3. w * (a + b) \in Nat
        BY <3>1, <3>2
      <3> QED
        BY <3>3 DEF a, b, w
    <2>2. s0 # 0
      BY DEF UsableNonce
    <2> QED
      BY <1>3, <2>1, <2>2, FactorsAre
  <1> HIDE DEF s0
  <1>5. s \in 1 .. (N \div 2) /\ s \in Keys /\ v \in {nonce, N - nonce}
    BY <1>2, <1>3, <1>4, FactorIsNonce
  <1> HIDE DEF s
  <1>6. v \in Keys /\ X(point) = X(Multiple[nonce])
    <2>1. N - nonce \in Keys
      BY FactorsAre DEF Keys
    <2>2. X(Multiple[N - nonce]) = X(Multiple[nonce])
      BY CurveAssumption
    <2> QED
      BY <1>5, <2>1, <2>2
  <1>7. VerificationPoint(Multiple[private_key], z, r, s) = point
    BY <1>2, <1>5, VerificationPointIs
  <1> HIDE DEF v
  <1>8. point \in PublicKeys /\ point # Zero
    BY <1>6, GroupLaw DEF PublicKeys
  <1> HIDE DEF point
  <1>9. X(point) \in Nat /\ X(point) % N = r
    BY <1>1, <1>6 DEF NonceR, r
  <1>10. Verifies(Multiple[private_key], z, r, s)
    BY <1>2, <1>5, <1>7, <1>8, <1>9, Zenon DEF Verifies
  <1> DEFINE signature == [r |-> r, s |-> s, y_parity |-> Y(point) % 2]
             result == secp256k1_sign_digest_recoverable(private_key, z, nonce)
  <1>11. result = IF X(point) < N THEN Signed(signature) ELSE CryptoFailure
    <2>1. recovery_point(private_key, z, r, s, nonce) = point
      BY <1>7, Zenon DEF recovery_point
    <2>2. valid_private_key(private_key)
      BY FactorsAre DEF Keys, valid_private_key
    <2>3. result =
            IF Verifies(Multiple[private_key], z, r, s) /\ X(point) % N = r /\ X(point) < N
            THEN Signed(signature) ELSE CryptoFailure
      BY <2>1, <2>2, Zenon DEF secp256k1_sign_digest_recoverable, r, s, s0
    <2> QED
      BY <1>9, <1>10, <2>3, Zenon
  <1> HIDE DEF result
  <1>12. CASE X(point) < N
    <2>1. result.ok = TRUE /\ result.signature = signature
      BY <1>11, <1>12 DEF Signed
    <2>2. signature.r = r /\ signature.s = s
      OBVIOUS
    <2>3. X(point) = r
      BY <1>9, <1>12, FactorsAre
    <2>4. Recovered(z, signature) = Multiple[private_key]
      BY <1>2, <1>5, <1>8, <2>3, KeyIsRecovered DEF point, v
    <2> HIDE DEF signature
    <2> QED
      BY <1>5, <1>10, <2>1, <2>2, <2>4, Zenon DEF IsRecoverable, result
  <1>13. CASE ~(X(point) < N)
    <2>1. result.ok = FALSE
      BY <1>11, <1>13 DEF CryptoFailure, Error
    <2>2. X(Multiple[nonce]) >= N
      BY <1>6, <1>9, <1>13, FactorsAre
    <2> QED
      BY <2>1, <2>2, Zenon DEF IsRecoverable, result
  <1> QED
    BY <1>12, <1>13

\* A wallet operation walks as hd_private_derive_path does.
LEMMA OperationsWalk == EcSpec => HdSpec
  <1>1. EcInit => HdInit
    BY DEF EcInit
  <1>2. [EcNext]_<<node, out_signature>> => [HdNext]_node
    BY DEF EcNext, Walk, SignDigest
  <1> QED
    BY <1>1, <1>2, PTL DEF EcSpec, HdSpec

\* What was signed, with a nonce RFC 6979 may yield, was signed with the key of the node.
NodeSigned ==
    out_signature # NotSigned =>
        /\ out_signature.digest \in Scalars /\ out_signature.nonce \in Keys
        /\ UsableNonce(node.private_key, out_signature.digest, out_signature.nonce)
        /\ out_signature.result =
               secp256k1_sign_digest_recoverable(node.private_key, out_signature.digest,
                                                 out_signature.nonce)

\* For every group, seed, path, digest and nonce: a signature made with the key of a node the wallet
\* has derived is in low-S form, verifies, and its parity gives the signer's public key back to a
\* node of the network; a nonce is refused only if its abscissa is not below the order.
THEOREM SignersAreRecovered == EcSpec => []SignatureRecovers
  <1>1. EcInit => NodeSigned
    BY DEF EcInit, NodeSigned
  <1>2. NodeSigned /\ [EcNext]_<<node, out_signature>> => NodeSigned'
    <2> SUFFICES ASSUME NodeSigned, [EcNext]_<<node, out_signature>> PROVE NodeSigned'
      OBVIOUS
    <2>1. CASE Walk
      BY <2>1 DEF Walk, NodeSigned
    <2>2. ASSUME NEW z \in Scalars, NEW nonce \in Keys, SignDigest(z, nonce) PROVE NodeSigned'
      <3> DEFINE result == secp256k1_sign_digest_recoverable(node.private_key, z, nonce)
      <3>1. /\ UsableNonce(node.private_key, z, nonce) /\ node' = node
            /\ out_signature' = [done |-> TRUE, digest |-> z, nonce |-> nonce, result |-> result]
        BY <2>2 DEF SignDigest
      <3> HIDE DEF result
      <3>2. /\ out_signature'.digest = z /\ out_signature'.nonce = nonce
            /\ out_signature'.result = result
        BY <3>1
      <3>3. /\ out_signature'.digest \in Scalars /\ out_signature'.nonce \in Keys
            /\ UsableNonce(node'.private_key, out_signature'.digest, out_signature'.nonce)
            /\ out_signature'.result =
                   secp256k1_sign_digest_recoverable(node'.private_key, out_signature'.digest,
                                                     out_signature'.nonce)
        BY <2>2, <3>1, <3>2, Zenon DEF result
      <3> QED
        BY <3>3, Zenon DEF NodeSigned
    <2>3. CASE UNCHANGED <<node, out_signature>>
      BY <2>3 DEF NodeSigned
    <2> QED
      BY <2>1, <2>2, <2>3 DEF EcNext
  <1>3. NodeOK /\ NodeSigned => SignatureRecovers
    <2> SUFFICES ASSUME NodeOK, NodeSigned, out_signature # NotSigned
                 PROVE  IsRecoverable(out_signature.result, node.private_key, out_signature.digest,
                                      out_signature.nonce)
      BY Zenon DEF SignatureRecovers
    <2>1. /\ out_signature.digest \in Scalars /\ out_signature.nonce \in Keys
          /\ UsableNonce(node.private_key, out_signature.digest, out_signature.nonce)
          /\ out_signature.result =
                 secp256k1_sign_digest_recoverable(node.private_key, out_signature.digest,
                                                   out_signature.nonce)
      BY Zenon DEF NodeSigned
    <2>2. node.private_key \in Keys /\ out_signature.digest \in Nat
      BY <2>1, OrderAssumption DEF NodeOK, Scalars
    <2> QED
      BY <2>1, <2>2, EveryKeyIsRecovered
  <1>4. EcSpec => []NodeOK
    BY OperationsWalk, NodesAreUsable, PTL
  <1> QED
    BY <1>1, <1>2, <1>3, <1>4, PTL DEF EcSpec

-----------------------------------------------------------------------------
(* Numbers as bytes *)

\* The sizes of the encoding are numbers, the base at least 7, and the bytes are numbers.
LEMMA BaseType == ByteBase \in Nat /\ ByteBase >= 7 /\ Single \in Nat /\ Short \in Nat /\ LengthBytes \in Nat
                  /\ SizeBytes \in Nat /\ ListBase \in Nat /\ Byte \subseteq Nat
  BY RlpAssumption DEF ByteBase, ListBase, Byte

\* The weights are the powers of the base.
LEMMA WeightsArePowers == PowersOf(Weight, ByteBase) /\ ByteBase \in Nat /\ ByteBase >= 2
  <1>1. ByteBase \in Nat /\ ByteBase >= 2
    BY BaseType
  <1>2. Weight = CHOOSE f : f = [k \in Nat |-> IF k = 0 THEN 1 ELSE ByteBase * f[k - 1]]
    BY DEF Weight
  <1> QED
    BY <1>1, <1>2, PowersAre

\* Weight is the function its recursion says.
LEMMA WeightRecursion ==
    /\ Weight \in [Nat -> Nat] /\ Weight[0] = 1
    /\ \A k \in Nat : Weight[k + 1] = ByteBase * Weight[k]
  BY WeightsArePowers DEF PowersOf

\* The powers of the base are positive, grow with the exponent and outgrow it.
LEMMA WeightGrows ==
    /\ \A k \in Nat : Weight[k] > 0 /\ Weight[k] > k
    /\ \A k \in Nat : Weight[k + 1] >= 7 * Weight[k]
    /\ \A j, k \in Nat : j <= k => Weight[j] <= Weight[k]
  <1>1. \A k \in Nat : Weight[k] \in Nat /\ Weight[k + 1] >= 7 * Weight[k]
    <2> SUFFICES ASSUME NEW k \in Nat PROVE Weight[k] \in Nat /\ Weight[k + 1] >= 7 * Weight[k]
      OBVIOUS
    <2>1. Weight[k] \in Nat /\ Weight[k + 1] = ByteBase * Weight[k]
      BY WeightRecursion
    <2>2. \A b, w \in Nat : b >= 7 => b * w >= 7 * w
      OBVIOUS
    <2> QED
      BY <2>1, <2>2, BaseType
  <1> QED
    BY <1>1, WeightsArePowers, PowersGrow

\* Digits(n) is the least count of bytes that hold n, and at most n.
LEMMA DigitsFit ==
    ASSUME NEW n \in Nat
    PROVE  /\ Digits(n) \in 0 .. n
           /\ n < Weight[Digits(n)] /\ (Digits(n) = 0 \/ n >= Weight[Digits(n) - 1])
  <1> DEFINE Suffices(k) == n < Weight[k] /\ (k = 0 \/ n >= Weight[k - 1])
  <1>1. \E k \in 0 .. n : Suffices(k)
    BY WeightsArePowers, LeastPower
  <1>2. Digits(n) = CHOOSE d \in 0 .. n : Suffices(d)
    BY DEF Digits
  <1> HIDE DEF Suffices
  <1>3. Digits(n) \in 0 .. n /\ Suffices(Digits(n))
    BY <1>1, <1>2
  <1> QED
    BY <1>3 DEF Suffices

\* A number below a power of the base is written in at most that many bytes.
LEMMA DigitsBelow ==
    ASSUME NEW n \in Nat, NEW k \in Nat, n < Weight[k]
    PROVE  Digits(n) <= k
  <1>1. Digits(n) \in Nat /\ (Digits(n) = 0 \/ n >= Weight[Digits(n) - 1])
    BY DigitsFit
  <1>2. SUFFICES ASSUME Digits(n) > k PROVE FALSE
    BY <1>1
  <1>3. Digits(n) - 1 \in Nat /\ k <= Digits(n) - 1
    BY <1>1, <1>2
  <1>4. Weight[k] <= Weight[Digits(n) - 1] /\ Weight[k] \in Nat /\ Weight[Digits(n) - 1] \in Nat
    BY <1>3, WeightGrows, WeightRecursion
  <1> QED
    BY <1>1, <1>2, <1>4

\* A number's big-endian bytes are bytes, as many as Digits says.
LEMMA ToBytesType ==
    ASSUME NEW n \in Nat
    PROVE  ToBytes(n) \in Seq(Byte) /\ Len(ToBytes(n)) = Digits(n) /\ Digits(n) \in Nat
  <1>1. Digits(n) \in Nat
    BY DigitsFit
  <1>2. ASSUME NEW i \in 1 .. Digits(n)
        PROVE  (n \div Weight[Digits(n) - i]) % ByteBase \in Byte
    <2>1. Digits(n) - i \in Nat
      BY <1>1
    <2>2. Weight[Digits(n) - i] \in Nat \ {0}
      BY <2>1, WeightGrows, WeightRecursion
    <2> DEFINE d == Weight[Digits(n) - i]
    <2> HIDE DEF d
    <2>3. n \div d \in Nat
      BY <2>2 DEF d
    <2> QED
      BY <2>3, BaseType DEF Byte, d
  <1> QED
    BY <1>1, <1>2 DEF ToBytes

-----------------------------------------------------------------------------
(* What the reader returns *)

\* An item over a set of byte values, read whole.
ItemType(S) == [ok : {TRUE}, list : BOOLEAN, data : Seq(S), rest : Seq(S)]

\* A string over some numbers is a string of numbers.
LEMMA StringsOver == ASSUME NEW S, S \subseteq Nat PROVE Seq(S) \subseteq Seq(Nat)
  <1> SUFFICES ASSUME NEW s \in Seq(S) PROVE s \in Seq(Nat)
    OBVIOUS
  <1>1. Len(s) \in Nat /\ s = [i \in 1 .. Len(s) |-> s[i]] /\ \A i \in 1 .. Len(s) : s[i] \in Nat
    OBVIOUS
  <1> QED
    BY <1>1

\* A string of bytes is a string of numbers.
LEMMA ByteSeqs == Seq(Byte) \subseteq Seq(Nat)
  BY BaseType, StringsOver

\* Bytes stand for a natural number.
LEMMA ValueType == ASSUME NEW bytes \in Seq(Nat) PROVE Value(bytes) \in Nat
  <1>1. PICK v : Reads(v, ByteBase, bytes) /\ Numeral(ByteBase, bytes) = v[Len(bytes)]
    BY WeightsArePowers, NumeralByDigit
  <1>2. Value(bytes) = Numeral(ByteBase, bytes)
    BY Zenon DEF Value, Numeral
  <1> QED
    BY <1>1, <1>2 DEF Reads

\* The reader, case by case: what the prefix says, and what is taken for it.
IsList(s) == Head(s) >= ListBase
ShortSize(s) == Head(s) - IF IsList(s) THEN ListBase ELSE Single
LongSize(s) == Value(SubSeq(s, 2, ShortSize(s) - Short + 1))
Payload(s, first, size) ==
    IF /\ size <= Len(s) - first + 1
       /\ SmallByteApart(IsList(s), SubSeq(s, first, first + size - 1))
    THEN Item(IsList(s), SubSeq(s, first, first + size - 1), SubSeq(s, first + size, Len(s)))
    ELSE Refused

\* read_rlp_item by the prefix: a byte by itself, a payload of short size, or one whose size is read first.
LEMMA ReadCases ==
    ASSUME NEW s \in Seq(Nat), s # <<>>
    PROVE  /\ Head(s) \in Nat /\ IsList(s) \in BOOLEAN /\ ShortSize(s) \in Int
           /\ Head(s) < Single => read_rlp_item(s) = Item(FALSE, <<Head(s)>>, Tail(s))
           /\ Head(s) >= Single /\ ShortSize(s) <= Short =>
                  read_rlp_item(s) = Payload(s, 2, ShortSize(s)) /\ ShortSize(s) \in Nat
           /\ Head(s) >= Single /\ ShortSize(s) > Short =>
                  read_rlp_item(s) =
                      IF read_rlp_length(Tail(s), ShortSize(s) - Short) /\ LongSize(s) > Short
                      THEN Payload(s, ShortSize(s) - Short + 2, LongSize(s)) ELSE Refused
  <1>1. Head(s) \in Nat
    OBVIOUS
  <1>2. IsList(s) \in BOOLEAN
    <2> DEFINE prefix == Head(s)
    <2> HIDE DEF prefix
    <2>1. (prefix >= ListBase) \in BOOLEAN
      BY <1>1, BaseType DEF prefix
    <2> QED
      BY <2>1 DEF IsList, prefix
  <1>3. ShortSize(s) \in Int /\ (Head(s) >= Single => ShortSize(s) >= 0)
    <2>1. CASE Head(s) >= ListBase
      BY <1>1, <2>1, BaseType DEF ShortSize, IsList
    <2>2. CASE ~(Head(s) >= ListBase)
      BY <1>1, <2>2, BaseType DEF ShortSize, IsList
    <2> QED
      BY <2>1, <2>2
  <1>4. CASE Head(s) < Single
    <2>1. ~(Head(s) >= Single)
      BY <1>1, <1>4, BaseType
    <2>2. read_rlp_item(s) = Item(FALSE, <<Head(s)>>, Tail(s))
      BY <1>4, <2>1, Zenon DEF read_rlp_item
    <2> QED
      BY <1>1, <1>2, <1>3, <2>1, <2>2, Zenon
  <1>5. CASE Head(s) >= Single /\ ShortSize(s) <= Short
    <2>1. ~(Head(s) < Single) /\ ~(ShortSize(s) > Short) /\ ShortSize(s) \in Nat
      BY <1>1, <1>3, <1>5, BaseType
    <2>2. read_rlp_item(s) = Payload(s, 2, ShortSize(s))
      BY <1>5, <2>1, ZenonT(30) DEF read_rlp_item, ShortSize, IsList, Payload
    <2> QED
      BY <1>1, <1>2, <1>3, <2>1, <2>2, Zenon
  <1>6. CASE Head(s) >= Single /\ ShortSize(s) > Short
    <2>1. ~(Head(s) < Single) /\ ~(ShortSize(s) <= Short)
      BY <1>1, <1>3, <1>6, BaseType
    <2>2. read_rlp_item(s) = IF read_rlp_length(Tail(s), ShortSize(s) - Short) /\ LongSize(s) > Short
                             THEN Payload(s, ShortSize(s) - Short + 2, LongSize(s)) ELSE Refused
      BY <1>6, <2>1, ZenonT(30) DEF read_rlp_item, ShortSize, LongSize, IsList, Payload
    <2> QED
      BY <1>1, <1>2, <1>3, <2>1, <2>2, Zenon
  <1>7. Head(s) < Single \/ (Head(s) >= Single /\ (ShortSize(s) <= Short \/ ShortSize(s) > Short))
    BY <1>1, <1>3, BaseType
  <1> QED
    BY <1>4, <1>5, <1>6, <1>7

\* An item that is accepted has a string for data and leaves a string.
LEMMA ReadItemType ==
    ASSUME NEW S, S \subseteq Nat, NEW s \in Seq(S), read_rlp_item(s).ok
    PROVE  read_rlp_item(s) \in ItemType(S)
  <1>1. ~Refused.ok
    BY DEF Refused
  <1>0. s \in Seq(Nat)
    BY StringsOver
  <1>2. s # <<>>
    BY <1>1 DEF read_rlp_item
  <1>3. Len(s) \in Nat /\ Tail(s) \in Seq(S) /\ Head(s) \in S
    BY <1>2
  <1>4. Head(s) \in Nat /\ IsList(s) \in BOOLEAN /\ ShortSize(s) \in Int
    BY <1>0, <1>2, ReadCases
  <1>5. ASSUME NEW first \in Nat \ {0}, NEW size \in Nat, Payload(s, first, size).ok
        PROVE  Payload(s, first, size) \in ItemType(S)
    <2>1. size <= Len(s) - first + 1
      BY <1>1, <1>5 DEF Payload
    <2>2. SubSeq(s, first, first + size - 1) \in Seq(S) /\ SubSeq(s, first + size, Len(s)) \in Seq(S)
      BY <1>3, <2>1
    <2>3. Payload(s, first, size) =
              Item(IsList(s), SubSeq(s, first, first + size - 1), SubSeq(s, first + size, Len(s)))
      BY <1>1, <1>5 DEF Payload
    <2> QED
      BY <1>4, <2>2, <2>3 DEF Item, ItemType
  <1>6. CASE Head(s) < Single
    <2>1. read_rlp_item(s) = Item(FALSE, <<Head(s)>>, Tail(s))
      BY <1>0, <1>2, <1>6, ReadCases
    <2>2. <<Head(s)>> \in Seq(S)
      BY <1>3
    <2> QED
      BY <1>3, <2>1, <2>2 DEF Item, ItemType
  <1>7. CASE Head(s) >= Single /\ ShortSize(s) <= Short
    <2>1. read_rlp_item(s) = Payload(s, 2, ShortSize(s)) /\ ShortSize(s) \in Nat
      BY <1>0, <1>2, <1>7, ReadCases
    <2> QED
      BY <1>5, <2>1
  <1>8. CASE Head(s) >= Single /\ ShortSize(s) > Short
    <2> DEFINE n == ShortSize(s) - Short
    <2>1. read_rlp_item(s) = IF read_rlp_length(Tail(s), n) /\ LongSize(s) > Short
                             THEN Payload(s, n + 2, LongSize(s)) ELSE Refused
      BY <1>0, <1>2, <1>8, ReadCases
    <2>2. read_rlp_length(Tail(s), n) /\ n \in Nat
      BY <1>1, <1>4, <1>8, <2>1, BaseType
    <2>3. SubSeq(s, 2, n + 1) \in Seq(Nat)
      <3>1. n + 1 <= Len(s)
        BY <1>2, <1>3, <2>2 DEF read_rlp_length
      <3> QED
        BY <1>0, <2>2, <3>1
    <2>4. LongSize(s) \in Nat
      BY <2>3, ValueType DEF LongSize
    <2> HIDE DEF n
    <2> QED
      BY <1>1, <1>5, <2>1, <2>2, <2>4
  <1> QED
    BY <1>4, <1>6, <1>7, <1>8, BaseType

\* What a list of items is read into, one at a time.
ReadType(S) == [ok : BOOLEAN, items : Seq(ItemType(S)), rest : Seq(S)]
ReadNext(read) ==
    LET item == IF read.ok THEN read_rlp_item(read.rest) ELSE Refused
    IN  IF item.ok THEN [ok |-> TRUE, items |-> Append(read.items, item), rest |-> item.rest]
                   ELSE [ok |-> FALSE, items |-> read.items, rest |-> read.rest]

\* One more item read adds one to the items, and only while none was refused.
LEMMA ReadNextType ==
    ASSUME NEW S, S \subseteq Nat, NEW read \in ReadType(S)
    PROVE  /\ ReadNext(read) \in ReadType(S)
           /\ ReadNext(read).ok => Len(ReadNext(read).items) = Len(read.items) + 1 /\ read.ok
  <1>1. CASE ~read.ok \/ ~read_rlp_item(read.rest).ok
    <2>1. ReadNext(read) = [ok |-> FALSE, items |-> read.items, rest |-> read.rest]
      BY <1>1 DEF ReadNext, Refused
    <2> QED
      BY <2>1 DEF ReadType
  <1>2. CASE read.ok /\ read_rlp_item(read.rest).ok
    <2> DEFINE item == read_rlp_item(read.rest)
    <2>1. item \in ItemType(S)
      BY <1>2, ReadItemType DEF ReadType
    <2>2. ReadNext(read) = [ok |-> TRUE, items |-> Append(read.items, item), rest |-> item.rest]
      BY <1>2 DEF ReadNext
    <2> HIDE DEF item
    <2>3. item.rest \in Seq(S)
      BY <2>1 DEF ItemType
    <2>4. Append(read.items, item) \in Seq(ItemType(S)) /\ Len(Append(read.items, item)) = Len(read.items) + 1
      BY <2>1 DEF ReadType
    <2> QED
      BY <1>2, <2>2, <2>3, <2>4 DEF ReadType
  <1> QED
    BY <1>1, <1>2

\* Items are read one at a time.
ReadsItems(read, s, n) ==
    /\ read[0] = [ok |-> TRUE, items |-> <<>>, rest |-> s]
    /\ \A k \in 1 .. n : read[k] = ReadNext(read[k - 1])

\* The items of a list are read one after the other, each from what the last one left.
LEMMA ReadItemsByStep ==
    ASSUME NEW s \in Seq(Nat), NEW n \in Nat
    PROVE  \E read : ReadsItems(read, s, n) /\ ReadItems(s, n) = read[n]
  <1> DEFINE base == [ok |-> TRUE, items |-> <<>>, rest |-> s]
             step == [p \in (1 .. n) \X ReadType(Nat) |-> ReadNext(p[2])]
             Equation(fold) == fold = [S \in SUBSET (1 .. n) |->
                 IF S = {} THEN base ELSE ReadNext(fold[S \ {Max(S)}])]
  <1>1. base \in ReadType(Nat)
    BY DEF ReadType
  <1>2. ASSUME NEW i \in 1 .. n, NEW read \in ReadType(Nat)
        PROVE  step[<<i, read>>] = ReadNext(read) /\ step[<<i, read>>] \in ReadType(Nat)
    BY ReadNextType
  <1>3. PICK fold \in [SUBSET (1 .. n) -> ReadType(Nat)] : FoldsLeft(fold, n, base, step)
    <2> HIDE DEF step, base
    <2> QED
      BY <1>1, <1>2, FoldExists
  <1>4. Equation(fold)
    <2> DEFINE again == [S \in SUBSET (1 .. n) |->
                 IF S = {} THEN base ELSE ReadNext(fold[S \ {Max(S)}])]
    <2>1. ASSUME NEW S \in SUBSET (1 .. n) PROVE fold[S] = again[S]
      <3>1. CASE S = {}
        BY <1>3, <3>1 DEF FoldsLeft
      <3>2. CASE S # {}
        <4>1. Max(S) \in 1 .. n /\ S \ {Max(S)} \in SUBSET (1 .. n)
          BY <3>2, MaxIsLargest
        <4>2. fold[S] = step[<<Max(S), fold[S \ {Max(S)}]>>]
          BY <1>3, <3>2 DEF FoldsLeft
        <4>3. fold[S \ {Max(S)}] \in ReadType(Nat)
          BY <4>1
        <4> HIDE DEF step
        <4> QED
          BY <1>2, <3>2, <4>1, <4>2, <4>3
      <3> QED
        BY <3>1, <3>2
    <2>2. fold = again
      BY <1>3, <2>1
    <2> QED
      BY <2>2
  <1> DEFINE g == CHOOSE f : Equation(f)
  <1>5. Equation(g)
    BY <1>4
  <1>6. ReadItems(s, n) = g[1 .. n]
    <2>1. DOMAIN [i \in 1 .. n |-> i] = 1 .. n
      OBVIOUS
    <2> QED
      BY <2>1, Zenon DEF ReadItems, FoldLeft, MapThenFoldSet, ReadNext
  <1>7. g[1 .. 0] = base /\ \A k \in 1 .. n : g[1 .. k] = ReadNext(g[1 .. k - 1])
    <2>1. 1 .. 0 = {} /\ {} \in SUBSET (1 .. n)
      OBVIOUS
    <2>2. g[{}] = base
      BY <1>5, <2>1
    <2>3. ASSUME NEW k \in 1 .. n PROVE g[1 .. k] = ReadNext(g[1 .. k - 1])
      <3>1. 1 .. k \in SUBSET (1 .. n) /\ 1 .. k # {} /\ Max(1 .. k) = k /\ (1 .. k) \ {k} = 1 .. k - 1
        BY FirstOnes
      <3>2. g[1 .. k] = ReadNext(g[(1 .. k) \ {Max(1 .. k)}])
        BY <1>5, <3>1
      <3> QED
        BY <3>1, <3>2
    <2> QED
      BY <2>1, <2>2, <2>3
  <1> HIDE DEF g
  <1> DEFINE read == [k \in 0 .. n |-> g[1 .. k]]
  <1>8. read[0] = base /\ read[n] = g[1 .. n]
    BY <1>7
  <1>9. \A k \in 1 .. n : read[k] = ReadNext(read[k - 1])
    <2> SUFFICES ASSUME NEW k \in 1 .. n PROVE read[k] = ReadNext(read[k - 1])
      OBVIOUS
    <2>1. k \in 0 .. n /\ k - 1 \in 0 .. n
      OBVIOUS
    <2>2. read[k] = g[1 .. k] /\ read[k - 1] = g[1 .. k - 1]
      BY <2>1
    <2> QED
      BY <1>7, <2>2
  <1> HIDE DEF read
  <1>10. ReadsItems(read, s, n)
    BY <1>8, <1>9 DEF ReadsItems
  <1> QED
    BY <1>6, <1>8, <1>10

\* As many items as there are to be, each read whole.
LEMMA ReadItemsType ==
    ASSUME NEW S, S \subseteq Nat, NEW s \in Seq(S), NEW n \in Nat
    PROVE  /\ ReadItems(s, n) \in ReadType(S)
           /\ ReadItems(s, n).ok => Len(ReadItems(s, n).items) = n
  <1>1. PICK read : ReadsItems(read, s, n) /\ ReadItems(s, n) = read[n]
    BY StringsOver, ReadItemsByStep
  <1> DEFINE Good == {k \in Nat : k <= n => /\ read[k] \in ReadType(S)
                                            /\ read[k].ok => Len(read[k].items) = k}
  <1>2. 0 \in Good
    <2>1. read[0] = [ok |-> TRUE, items |-> <<>>, rest |-> s]
      BY <1>1 DEF ReadsItems
    <2>2. read[0] \in ReadType(S) /\ Len(read[0].items) = 0
      BY <2>1 DEF ReadType
    <2> QED
      BY <2>2
  <1>3. ASSUME NEW k \in Nat, k \in Good, k + 1 <= n PROVE k + 1 \in Good
    <2>1. k + 1 \in 1 .. n /\ (k + 1) - 1 = k
      BY <1>3
    <2>2. read[k + 1] = ReadNext(read[k])
      BY <1>1, <2>1 DEF ReadsItems
    <2>3. read[k] \in ReadType(S) /\ (read[k].ok => Len(read[k].items) = k)
      BY <1>3
    <2> DEFINE last == read[k]
               next == ReadNext(last)
    <2> HIDE DEF last
    <2>4. next \in ReadType(S) /\ (next.ok => Len(next.items) = Len(last.items) + 1 /\ last.ok)
      BY <2>3, ReadNextType DEF last
    <2>5. read[k + 1] = next
      BY <2>2 DEF last
    <2>6. read[k + 1] \in ReadType(S) /\ (read[k + 1].ok => Len(read[k + 1].items) = k + 1)
      <3> HIDE DEF next
      <3> QED
        BY <2>3, <2>4, <2>5 DEF last
    <2> QED
      BY <2>6
  <1>4. Nat \subseteq Good
    <2>1. \A k \in Nat : k \in Good => k + 1 \in Good
      BY <1>3
    <2> HIDE DEF Good
    <2> QED
      BY <1>2, <2>1, NatSetInduction
  <1> QED
    BY <1>1, <1>4

-----------------------------------------------------------------------------
(* Parsing *)

FieldType == [{"chain_id", "nonce", "priority", "price", "gas", "to", "value", "data"} -> ItemType(Byte)]

\* The fields the parser compares are items it has read whole.
LEMMA FieldsType ==
    ASSUME NEW items \in Seq(ItemType(Byte)), Len(items) = 9, NEW type
    PROVE  FieldsOf(type, items) \in FieldType
  <1>1. \A i \in 1 .. 9 : items[i] \in ItemType(Byte)
    BY Elements
  <1>2. Item(FALSE, <<>>, <<>>) \in ItemType(Byte)
    BY DEF Item, ItemType
  <1>3. /\ items[1] \in ItemType(Byte) /\ items[2] \in ItemType(Byte) /\ items[3] \in ItemType(Byte)
        /\ items[4] \in ItemType(Byte) /\ items[5] \in ItemType(Byte) /\ items[6] \in ItemType(Byte)
        /\ items[7] \in ItemType(Byte) /\ items[8] \in ItemType(Byte)
    BY <1>1
  <1>4. CASE type = "Eip1559"
    BY <1>3, <1>4 DEF FieldsOf, FieldType
  <1>5. CASE type # "Eip1559"
    <2> DEFINE absent == Item(FALSE, <<>>, <<>>)
    <2>1. FieldsOf(type, items) =
              [nonce |-> items[1], price |-> items[2], gas |-> items[3], to |-> items[4],
               value |-> items[5], data |-> items[6], chain_id |-> items[7], priority |-> absent]
      BY <1>5, Zenon DEF FieldsOf
    <2>2. absent \in ItemType(Byte)
      BY <1>2
    <2> HIDE DEF absent
    <2> QED
      BY <1>3, <2>1, <2>2 DEF FieldType
  <1> QED
    BY <1>4, <1>5

\* A request that is not refused comes from fields the parser accepted, and serializes to what was received.
LEMMA ParsedFrom ==
    ASSUME NEW tx \in Seq(Byte), NEW network, NEW w, NEW index,
           evm_parse_transaction(tx, network, w, index) # None
    PROVE  \E f \in FieldType :
               /\ evm_parse_transaction(tx, network, w, index) = ParsedRequest(tx, f, network, w, index)
               /\ FieldsAccepted(f, network) /\ TransferAccepted(f, network)
               /\ tx # <<>> /\ Len(tx) <= MaxUnsigned
               /\ serialize_transaction(ParsedRequest(tx, f, network, w, index), None) = tx
  <1> DEFINE body == IF TypeOf(tx) = "Eip1559" THEN Tail(tx) ELSE tx
             outer == read_rlp_item(body)
             read == ReadItems(outer.data, 9)
             f == FieldsOf(TypeOf(tx), read.items)
  <1>1. /\ evm_parse_transaction(tx, network, w, index) = ParsedRequest(tx, f, network, w, index)
        /\ FieldsAccepted(f, network) /\ TransferAccepted(f, network)
        /\ tx # <<>> /\ Len(tx) <= MaxUnsigned /\ outer.ok /\ read.ok
        /\ serialize_transaction(ParsedRequest(tx, f, network, w, index), None) = tx
    BY DEF evm_parse_transaction
  <1>2. body \in Seq(Byte)
    BY <1>1
  <1> HIDE DEF body
  <1>3. outer.data \in Seq(Byte)
    BY <1>1, <1>2, BaseType, ReadItemType DEF ItemType
  <1> HIDE DEF outer
  <1>4. read.items \in Seq(ItemType(Byte)) /\ Len(read.items) = 9
    <2>1. Byte \subseteq Nat /\ 9 \in Nat /\ read.ok
      BY <1>1, BaseType
    <2>2. read \in ReadType(Byte) /\ (read.ok => Len(read.items) = 9)
      BY <1>3, <2>1, ReadItemsType, Zenon
    <2> HIDE DEF read
    <2> QED
      BY ONLY <2>1, <2>2 DEF ReadType
  <1> HIDE DEF read
  <1>5. f \in FieldType
    BY <1>4, FieldsType
  <1> HIDE DEF f
  <1> QED
    BY <1>1, <1>5

\* The data of every field is a string of bytes, and stands for a number.
LEMMA FieldNumbers ==
    ASSUME NEW f \in FieldType
    PROVE  /\ \A name \in {"chain_id", "nonce", "priority", "price", "gas", "value"} :
                  f[name].data \in Seq(Byte) /\ Value(f[name].data) \in Nat
           /\ f.to.data \in Seq(Byte) /\ f.data.data \in Seq(Byte)
  <1>1. \A name \in DOMAIN f : f[name].data \in Seq(Byte)
    BY DEF FieldType, ItemType
  <1>2. \A name \in DOMAIN f : Value(f[name].data) \in Nat
    BY <1>1, ByteSeqs, ValueType
  <1> QED
    BY <1>1, <1>2 DEF FieldType

\* What a quotient's bound says of the product.
LEMMA ProductOfQuotient ==
    ASSUME NEW a \in Nat, NEW b \in Nat \ {0}, NEW m \in Nat, a <= m \div b
    PROVE  a * b <= m
  <1>1. m \div b \in Nat /\ b * (m \div b) <= m
    OBVIOUS
  <1>2. a * b <= b * (m \div b)
    <2> DEFINE q == m \div b
    <2> HIDE DEF q
    <2>1. \A x, y, z \in Nat : x <= y => x * z <= z * y
      OBVIOUS
    <2> QED
      BY <1>1, <2>1 DEF q
  <1>3. a * b \in Nat /\ b * (m \div b) \in Nat
    BY <1>1
  <1> QED
    BY <1>1, <1>2, <1>3

\* What a parsed request's fee is.
FeeTold(r) ==
    /\ r.gas_limit * r.gas_price_or_max_fee = r.maximum_fee /\ r.maximum_fee <= MaxFee
    /\ r.max_priority_fee <= r.gas_price_or_max_fee

\* The fee of a parsed request is gas times price, within the cap, and its tip within the price.
LEMMA ParsedFee ==
    ASSUME NEW tx \in Seq(Byte), NEW network, NEW w, NEW index,
           evm_parse_transaction(tx, network, w, index) # None
    PROVE  FeeTold(evm_parse_transaction(tx, network, w, index))
  <1> DEFINE r == evm_parse_transaction(tx, network, w, index)
  <1>1. PICK f \in FieldType : r = ParsedRequest(tx, f, network, w, index) /\ FieldsAccepted(f, network)
    BY ParsedFrom
  <1> HIDE DEF r
  <1> DEFINE gas == Value(f.gas.data)
             price == Value(f.price.data)
  <1>2. gas \in Nat /\ price \in Nat
    BY FieldNumbers
  <1>3. price # 0 /\ gas <= MaxFee \div price /\ Value(f.priority.data) <= price
    BY <1>1 DEF FieldsAccepted, FeeAccepted
  <1>4. /\ r.gas_limit = gas /\ r.gas_price_or_max_fee = price
        /\ r.max_priority_fee = Value(f.priority.data) /\ r.maximum_fee = (gas * price) % WordMod
    BY <1>1 DEF ParsedRequest
  <1> HIDE DEF gas, price
  <1>5. MaxFee \in Nat /\ MaxFee < WordMod /\ WordMod \in Nat
    BY SizeAssumption, WeightRecursion DEF WordMod
  <1>6. gas * price <= MaxFee /\ gas * price \in Nat
    <2>1. price \in Nat \ {0} /\ \A x, y \in Nat : x * y \in Nat
      BY <1>2, <1>3
    <2>2. gas * price <= MaxFee
      BY <1>2, <1>3, <1>5, <2>1, ProductOfQuotient, Zenon
    <2> QED
      BY <1>2, <2>1, <2>2, Zenon
  <1>7. (gas * price) % WordMod = gas * price
    <2>1. \A n, m \in Nat : n < m => n % m = n
      OBVIOUS
    <2> QED
      BY <1>5, <1>6, <2>1
  <1> QED
    BY <1>3, <1>4, <1>6, <1>7 DEF FeeTold, r

-----------------------------------------------------------------------------
(* Writing *)

\* How long what the writer puts down can get.
LEMMA PrefixLength ==
    ASSUME NEW size \in Nat, NEW list
    PROVE  /\ write_rlp_prefix(size, list) \in Seq(Nat)
           /\ Len(write_rlp_prefix(size, list)) >= 1
           /\ size <= Short => Len(write_rlp_prefix(size, list)) = 1
           /\ Len(write_rlp_prefix(size, list)) <= 1 + Digits(size)
  <1> DEFINE base == IF list THEN ListBase ELSE Single
  <1>1. base \in Nat /\ Digits(size) \in Nat /\ Short \in Nat
    BY BaseType, ToBytesType
  <1>2. CASE size <= Short
    <2>1. write_rlp_prefix(size, list) = <<base + size>>
      BY <1>2 DEF write_rlp_prefix
    <2>2. base + size \in Nat
      BY <1>1
    <2> HIDE DEF base
    <2> QED
      BY <1>1, <2>1, <2>2
  <1>3. CASE ~(size <= Short)
    <2>1. write_rlp_prefix(size, list) = <<base + Short + Digits(size)>> \o ToBytes(size)
      BY <1>3 DEF write_rlp_prefix
    <2>2. ToBytes(size) \in Seq(Nat) /\ Len(ToBytes(size)) = Digits(size)
      BY ToBytesType, ByteSeqs
    <2>3. base + Short + Digits(size) \in Nat
      BY <1>1
    <2> HIDE DEF base
    <2>4. <<base + Short + Digits(size)>> \in Seq(Nat) /\ Len(<<base + Short + Digits(size)>>) = 1
      BY <2>3
    <2> QED
      BY <1>1, <1>3, <2>1, <2>2, <2>4
  <1> QED
    BY <1>2, <1>3

\* write_rlp_bytes writes a string, at most one byte longer when the data is short.
LEMMA WrittenBytes ==
    ASSUME NEW data \in Seq(Nat)
    PROVE  /\ write_rlp_bytes(data) \in Seq(Nat)
           /\ Len(data) <= Short => Len(write_rlp_bytes(data)) <= 1 + Len(data)
  <1>1. CASE Len(data) = 1 /\ data[1] < Single
    <2>1. write_rlp_bytes(data) = data
      BY <1>1 DEF write_rlp_bytes
    <2> QED
      BY <2>1
  <1>2. CASE ~(Len(data) = 1 /\ data[1] < Single)
    <2> DEFINE head == write_rlp_prefix(Len(data), FALSE)
    <2>1. write_rlp_bytes(data) = head \o data
      BY <1>2 DEF write_rlp_bytes
    <2>2. head \in Seq(Nat) /\ (Len(data) <= Short => Len(head) = 1)
      <3>1. Len(data) \in Nat
        OBVIOUS
      <3> QED
        BY <3>1, PrefixLength, Zenon
    <2> HIDE DEF head
    <2>3. head \o data \in Seq(Nat) /\ Len(head \o data) = Len(head) + Len(data)
      BY <2>2
    <2>4. Len(data) <= Short => Len(head \o data) = 1 + Len(data)
      BY <2>2, <2>3
    <2>5. Len(data) \in Nat
      OBVIOUS
    <2>6. write_rlp_bytes(data) \in Seq(Nat)
      BY <2>1, <2>3
    <2>7. Len(data) <= Short => Len(write_rlp_bytes(data)) <= 1 + Len(data)
      BY <2>1, <2>4, <2>5
    <2> QED
      BY <2>6, <2>7
  <1> QED
    BY <1>1, <1>2

\* write_rlp_integer writes a string, at most one byte longer than the number's bytes when they are few.
LEMMA WrittenInteger ==
    ASSUME NEW n \in Nat
    PROVE  /\ write_rlp_integer(n) \in Seq(Nat)
           /\ \A k \in Nat : n < Weight[k] /\ k <= Short => Len(write_rlp_integer(n)) <= 1 + k
  <1>1. ToBytes(n) \in Seq(Nat) /\ Len(ToBytes(n)) = Digits(n) /\ Digits(n) \in Nat
    BY ToBytesType, ByteSeqs
  <1>2. ASSUME NEW k \in Nat, n < Weight[k], k <= Short PROVE Digits(n) <= k
    BY <1>2, DigitsBelow
  <1>3. /\ write_rlp_integer(n) \in Seq(Nat)
        /\ Len(ToBytes(n)) <= Short => Len(write_rlp_integer(n)) <= 1 + Len(ToBytes(n))
    BY <1>1, WrittenBytes DEF write_rlp_integer
  <1>4. Len(write_rlp_integer(n)) \in Nat /\ Short \in Nat
    BY <1>3, BaseType
  <1> QED
    BY <1>1, <1>2, <1>3, <1>4

\* write_rlp_list adds a prefix of one byte and, for a long payload, its size.
LEMMA WrittenList ==
    ASSUME NEW payload \in Seq(Nat)
    PROVE  /\ write_rlp_list(payload) \in Seq(Nat)
           /\ Len(write_rlp_list(payload)) >= 1 + Len(payload)
           /\ Len(write_rlp_list(payload)) <= 1 + Digits(Len(payload)) + Len(payload)
  <1> DEFINE size == Len(payload)
             head == write_rlp_prefix(size, TRUE)
  <1>1. size \in Nat
    OBVIOUS
  <1>2. Digits(size) \in Nat
    BY <1>1, ToBytesType
  <1>3. head \in Seq(Nat) /\ Len(head) >= 1 /\ Len(head) <= 1 + Digits(size)
    <2> HIDE DEF size
    <2> QED
      BY <1>1, PrefixLength, Zenon
  <1> HIDE DEF head
  <1>4. head \o payload \in Seq(Nat) /\ Len(head \o payload) = Len(head) + size
    BY <1>3
  <1>5. write_rlp_list(payload) = head \o payload
    BY DEF write_rlp_list, head
  <1> QED
    BY <1>1, <1>2, <1>3, <1>4, <1>5

\* The parts of a request that are written.
Written(r) ==
    /\ {r.network.chain_id, r.nonce, r.gas_limit, r.gas_price_or_max_fee, r.max_priority_fee} \subseteq Nat
    /\ r.contract \in Seq(Nat) /\ r.data \in Seq(Nat)
    /\ r.token = None => r.amount \in Nat

\* The fields both serializations begin with are a string of bytes.
LEMMA SignedFieldsType == ASSUME NEW r, Written(r) PROVE SignedFields(r) \in Seq(Nat)
  <1> DEFINE fees == IF r.type = "Eip1559" THEN <<r.max_priority_fee, r.gas_price_or_max_fee>>
                                           ELSE <<r.gas_price_or_max_fee>>
             chain == IF r.type = "Eip1559" THEN <<r.network.chain_id>> ELSE <<>>
             numbers == chain \o <<r.nonce>> \o fees \o <<r.gas_limit>>
             texts == [i \in DOMAIN numbers |-> write_rlp_integer(numbers[i])]
             amount == IF r.token = None THEN r.amount ELSE 0
             closing == IF r.type = "Eip1559" THEN write_rlp_list(<<>>) ELSE <<>>
  <1>1. fees \in Seq(Nat) /\ chain \in Seq(Nat) /\ <<r.nonce>> \in Seq(Nat) /\ <<r.gas_limit>> \in Seq(Nat)
    BY DEF Written
  <1> HIDE DEF fees, chain
  <1>2. numbers \in Seq(Nat)
    BY <1>1
  <1> HIDE DEF numbers
  <1>3. texts \in Seq(Seq(Nat))
    <2>1. Len(numbers) \in Nat /\ DOMAIN numbers = 1 .. Len(numbers)
      BY <1>2
    <2>2. \A i \in 1 .. Len(numbers) : write_rlp_integer(numbers[i]) \in Seq(Nat)
      BY <1>2, Elements, WrittenInteger
    <2> QED
      BY <2>1, <2>2
  <1>4. FlattenSeq(texts) \in Seq(Nat)
    <2> HIDE DEF texts
    <2> QED
      BY <1>3, FlattenType
  <1>5. amount \in Nat
    BY DEF Written
  <1>6. /\ write_rlp_bytes(r.contract) \in Seq(Nat) /\ write_rlp_bytes(r.data) \in Seq(Nat)
        /\ write_rlp_integer(amount) \in Seq(Nat)
    <2> HIDE DEF amount
    <2> QED
      BY <1>5, WrittenBytes, WrittenInteger DEF Written
  <1>7. closing \in Seq(Nat)
    <2>1. <<>> \in Seq(Nat)
      OBVIOUS
    <2> QED
      BY <2>1, WrittenList
  <1>8. SignedFields(r) = FlattenSeq(texts) \o write_rlp_bytes(r.contract) \o write_rlp_integer(amount)
                          \o write_rlp_bytes(r.data) \o closing
    BY DEF SignedFields, texts, numbers, chain, fees
  <1> HIDE DEF texts, closing, amount
  <1> QED
    BY <1>4, <1>6, <1>7, <1>8

\* The parts of a parsed request are numbers and strings that can be written.
LEMMA ParsedWritten ==
    ASSUME NEW tx \in Transactions, NEW network \in Networks, NEW w, NEW index,
           evm_parse_transaction(tx, network, w, index) # None
    PROVE  Written(evm_parse_transaction(tx, network, w, index))
  <1> DEFINE r == evm_parse_transaction(tx, network, w, index)
  <1>1. tx \in Seq(Byte) /\ network.chain_id \in Nat
    BY ByteAssumption
  <1>2. PICK f \in FieldType : r = ParsedRequest(tx, f, network, w, index) /\ TransferAccepted(f, network)
    BY <1>1, ParsedFrom
  <1> HIDE DEF r
  <1>3. /\ r.network = network /\ r.nonce = Value(f.nonce.data) /\ r.gas_limit = Value(f.gas.data)
        /\ r.gas_price_or_max_fee = Value(f.price.data) /\ r.max_priority_fee = Value(f.priority.data)
        /\ r.contract = f.to.data /\ r.data = f.data.data
        /\ r.token = IF f.data.data = <<>> THEN None ELSE find_token(network, f.to.data)
        /\ f.data.data = <<>> => r.amount = Value(f.value.data)
    BY <1>2 DEF ParsedRequest
  <1>4. f.data.data # <<>> => find_token(network, f.to.data) # None
    BY <1>2 DEF TransferAccepted
  <1>5. /\ Value(f.nonce.data) \in Nat /\ Value(f.gas.data) \in Nat /\ Value(f.price.data) \in Nat
        /\ Value(f.priority.data) \in Nat /\ Value(f.value.data) \in Nat
        /\ f.to.data \in Seq(Nat) /\ f.data.data \in Seq(Nat)
    BY FieldNumbers, ByteSeqs
  <1> QED
    BY <1>1, <1>3, <1>4, <1>5 DEF Written, r

\* The two halves of a signature and the recovery byte.
LEMMA WeightSteps == /\ Weight[U64Size] \in Nat /\ Weight[U64Size] >= 7
                     /\ Weight[U64Size + 1] >= 7 * Weight[U64Size] /\ Weight[U64Size + 1] \in Nat
  <1>1. U64Size \in Nat /\ 1 <= U64Size
    BY SizeAssumption
  <1>2. 1 = 0 + 1 /\ Weight[0 + 1] >= 7 * Weight[0] /\ Weight[0] = 1
    BY WeightGrows, WeightRecursion
  <1>3. Weight[1] <= Weight[U64Size]
    BY <1>1, WeightGrows
  <1>4. Weight[1] \in Nat /\ Weight[U64Size] \in Nat /\ Weight[U64Size + 1] \in Nat
    BY <1>1, WeightRecursion
  <1> QED
    BY <1>1, <1>2, <1>3, <1>4, WeightGrows

\* The three fields of a signature take no more than a 64-bit and two 256-bit numbers do.
LEMMA SignatureFieldsFit ==
    ASSUME NEW r, r.network.chain_id \in Nat, r.network.chain_id < WordMod, NEW signature \in Signatures
    PROVE  /\ SignatureFields(r, signature) \in Seq(Nat)
           /\ Len(SignatureFields(r, signature)) <= (1 + U64Size + 1) + 2 * (1 + Uint256Size)
  <1> DEFINE v == RecoveryByte(r, signature)
  <1>1. signature # None /\ signature.y_parity \in 0 .. 1
        /\ signature.r \in 0 .. Weight[Uint256Size] - 1 /\ signature.s \in 0 .. Weight[Uint256Size] - 1
    BY NoneAssumption, ByteAssumption
  <1>2. U64Size \in Nat /\ Uint256Size \in Nat /\ U64Size + 1 <= Short /\ Uint256Size <= Short
    BY SizeAssumption, RoomAssumption
  <1>3. v \in Nat /\ v < Weight[U64Size + 1]
    <2>1. CASE r.type = "Eip1559"
      BY <1>1, <2>1, WeightSteps DEF RecoveryByte
    <2>2. CASE r.type # "Eip1559"
      <3>1. v = 2 * r.network.chain_id + 35 + signature.y_parity
        BY <2>2 DEF RecoveryByte
      <3> HIDE DEF v
      <3> QED
        BY <1>1, <3>1, WeightSteps DEF WordMod
    <2> QED
      BY <2>1, <2>2
  <1>4. signature.r \in Nat /\ signature.s \in Nat
        /\ signature.r < Weight[Uint256Size] /\ signature.s < Weight[Uint256Size]
    <2>1. Weight[Uint256Size] \in Nat
      BY <1>2, WeightRecursion
    <2> QED
      BY <1>1, <2>1
  <1> HIDE DEF v
  <1>5. /\ write_rlp_integer(v) \in Seq(Nat) /\ Len(write_rlp_integer(v)) <= 1 + (U64Size + 1)
        /\ write_rlp_integer(signature.r) \in Seq(Nat) /\ Len(write_rlp_integer(signature.r)) <= 1 + Uint256Size
        /\ write_rlp_integer(signature.s) \in Seq(Nat) /\ Len(write_rlp_integer(signature.s)) <= 1 + Uint256Size
    <2>1. U64Size + 1 \in Nat
      BY <1>2
    <2> QED
      BY <1>2, <1>3, <1>4, <2>1, WrittenInteger
  <1>6. SignatureFields(r, signature) =
            write_rlp_integer(v) \o write_rlp_integer(signature.r) \o write_rlp_integer(signature.s)
    BY <1>1, Zenon DEF SignatureFields, v
  <1>7. \A a, b, c \in Seq(Nat) : a \o b \o c \in Seq(Nat) /\ Len(a \o b \o c) = Len(a) + Len(b) + Len(c)
    OBVIOUS
  <1>8. \A a \in Seq(Nat) : Len(a) \in Nat
    OBVIOUS
  <1> QED
    BY <1>2, <1>5, <1>6, <1>7, <1>8

\* The recovery byte, the halves and the longer length fit the reserve.
LEMMA SignedFits ==
    ASSUME NEW tx \in Transactions, NEW network \in Networks, NEW w, NEW index,
           evm_parse_transaction(tx, network, w, index) # None, NEW signature \in Signatures
    PROVE  LET bytes == serialize_transaction(evm_parse_transaction(tx, network, w, index), signature)
           IN  bytes \in Seq(Nat) /\ Fits(bytes)
  <1> DEFINE r == evm_parse_transaction(tx, network, w, index)
             head == IF r.type = "Eip1559" THEN <<Eip1559Type>> ELSE <<>>
             fields == SignedFields(r)
             unsigned == SignatureFields(r, None)
             added == SignatureFields(r, signature)
             size == Len(fields \o added)
  <1>1. tx \in Seq(Byte) /\ network.chain_id \in Nat /\ network.chain_id < WordMod
    BY ByteAssumption
  <1>2. r.network = network /\ serialize_transaction(r, None) = tx /\ Len(tx) <= MaxUnsigned
    <2>1. PICK f \in FieldType :
             /\ r = ParsedRequest(tx, f, network, w, index) /\ Len(tx) <= MaxUnsigned
             /\ serialize_transaction(ParsedRequest(tx, f, network, w, index), None) = tx
      BY <1>1, ParsedFrom
    <2>2. r.network = network
      BY <2>1 DEF ParsedRequest
    <2> HIDE DEF r
    <2> QED
      BY <2>1, <2>2
  <1>3. Written(r)
    BY ParsedWritten
  <1> HIDE DEF r
  <1>4. fields \in Seq(Nat)
    BY <1>3, SignedFieldsType
  <1>5. added \in Seq(Nat) /\ Len(added) <= (1 + U64Size + 1) + 2 * (1 + Uint256Size)
    BY <1>1, <1>2, SignatureFieldsFit
  <1>6. unsigned \in Seq(Nat)
    <2>1. /\ write_rlp_integer(r.network.chain_id) \in Seq(Nat) /\ write_rlp_integer(0) \in Seq(Nat)
          /\ <<>> \in Seq(Nat)
      BY <1>1, <1>2, WrittenInteger
    <2>2. unsigned = IF r.type = "LegacyEip155"
                     THEN write_rlp_integer(r.network.chain_id) \o write_rlp_integer(0) \o write_rlp_integer(0)
                     ELSE <<>>
      BY Zenon DEF SignatureFields
    <2> HIDE DEF unsigned
    <2> QED
      BY <2>1, <2>2
  <1>7. head \in Seq(Nat) /\ Len(head) \in Nat
    BY DEF Eip1559Type
  <1>8. /\ serialize_transaction(r, None) = head \o write_rlp_list(fields \o unsigned)
        /\ serialize_transaction(r, signature) = head \o write_rlp_list(fields \o added)
    BY DEF serialize_transaction
  <1> HIDE DEF head, fields, unsigned, added
  <1>9. /\ fields \o unsigned \in Seq(Nat) /\ Len(fields \o unsigned) >= Len(fields)
        /\ fields \o added \in Seq(Nat) /\ size = Len(fields) + Len(added)
        /\ Len(fields) \in Nat /\ Len(unsigned) \in Nat /\ Len(added) \in Nat /\ size \in Nat
    BY <1>4, <1>5, <1>6
  <1>10. /\ write_rlp_list(fields \o unsigned) \in Seq(Nat)
         /\ Len(write_rlp_list(fields \o unsigned)) >= 1 + Len(fields)
         /\ write_rlp_list(fields \o added) \in Seq(Nat)
         /\ Len(write_rlp_list(fields \o added)) <= 1 + Digits(size) + size
    <2>1. /\ write_rlp_list(fields \o unsigned) \in Seq(Nat)
          /\ Len(write_rlp_list(fields \o unsigned)) >= 1 + Len(fields \o unsigned)
      BY <1>9, WrittenList
    <2>2. /\ write_rlp_list(fields \o added) \in Seq(Nat)
          /\ Len(write_rlp_list(fields \o added)) <= 1 + Digits(size) + size
      BY <1>9, WrittenList
    <2>3. Len(fields \o unsigned) \in Nat /\ Len(write_rlp_list(fields \o unsigned)) \in Nat
      BY <1>9, <2>1
    <2> QED
      BY <1>9, <2>1, <2>2, <2>3
  <1>11. /\ Len(tx) = Len(head) + Len(write_rlp_list(fields \o unsigned))
         /\ Len(serialize_transaction(r, signature)) = Len(head) + Len(write_rlp_list(fields \o added))
    BY <1>2, <1>7, <1>8, <1>10
  <1>12. /\ MaxUnsigned \in Nat /\ MaxSigned \in Nat /\ U64Size \in Nat /\ Uint256Size \in Nat /\ SizeBytes \in Nat
         /\ MaxUnsigned + SizeBytes + (1 + U64Size + 1) + 2 * (1 + Uint256Size) <= MaxSigned
         /\ MaxSigned < Weight[SizeBytes]
    BY SizeAssumption, RoomAssumption, BaseType
  <1> HIDE DEF size
  <1>13. /\ Len(write_rlp_list(fields \o unsigned)) \in Nat /\ Len(write_rlp_list(fields \o added)) \in Nat
         /\ Len(tx) \in Nat
    BY <1>1, <1>10
  <1>14. Len(head) + 1 + Len(fields) <= MaxUnsigned
    BY <1>2, <1>7, <1>9, <1>10, <1>11, <1>12, <1>13
  <1>15. Digits(size) <= SizeBytes /\ Digits(size) \in Nat
    <2>1. size <= MaxSigned
      BY <1>5, <1>7, <1>9, <1>12, <1>14
    <2>2. Weight[SizeBytes] \in Nat
      BY <1>12, WeightRecursion
    <2>3. size < Weight[SizeBytes]
      BY <1>9, <1>12, <2>1, <2>2
    <2> QED
      BY <1>9, <1>12, <2>3, DigitsBelow, ToBytesType
  <1>16. Len(serialize_transaction(r, signature)) <= MaxSigned
    <2> DEFINE n == Len(write_rlp_list(fields \o added))
    <2>1. n \in Nat /\ n <= 1 + Digits(size) + size
      BY <1>10, <1>13
    <2>2. Len(serialize_transaction(r, signature)) = Len(head) + n
      BY <1>11
    <2> HIDE DEF n
    <2>3. Len(head) + n <= MaxUnsigned + Digits(size) + Len(added)
      <3>1. n <= 1 + Digits(size) + (Len(fields) + Len(added))
        BY <1>9, <2>1
      <3>2. /\ Len(head) \in Nat /\ Len(fields) \in Nat /\ Len(added) \in Nat /\ n \in Nat
            /\ Digits(size) \in Nat /\ MaxUnsigned \in Nat
        BY <1>7, <1>9, <1>12, <1>15, <2>1
      <3> QED
        BY ONLY <1>14, <3>1, <3>2
    <2>4. MaxUnsigned + Digits(size) + Len(added) <= MaxSigned
      BY <1>5, <1>9, <1>12, <1>15
    <2>5. /\ Len(head) \in Nat /\ n \in Nat /\ Len(added) \in Nat /\ Digits(size) \in Nat
          /\ MaxUnsigned \in Nat /\ MaxSigned \in Nat
      BY <1>7, <1>9, <1>12, <1>15, <2>1
    <2> QED
      BY ONLY <2>2, <2>3, <2>4, <2>5
  <1>17. serialize_transaction(r, signature) \in Seq(Nat)
    BY <1>7, <1>8, <1>10
  <1> QED
    BY <1>16, <1>17 DEF Fits, r

-----------------------------------------------------------------------------
(* The bytes of a number, read back *)

\* One more byte multiplies the weight by the base.
LEMMA WeightStep ==
    ASSUME NEW k \in Nat
    PROVE  Weight[k] \in Nat \ {0} /\ Weight[k + 1] = ByteBase * Weight[k] /\ ByteBase \in Nat \ {0}
  <1>1. Weight[k] \in Nat /\ Weight[k + 1] = ByteBase * Weight[k]
    BY WeightRecursion
  <1>2. Weight[k] > 0
    BY WeightGrows
  <1>3. ByteBase \in Nat /\ ByteBase # 0
    BY BaseType
  <1> QED
    BY <1>1, <1>2, <1>3

\* The bytes of a number are read back as the number.
LEMMA ValueOfBytes == ASSUME NEW n \in Nat PROVE Value(ToBytes(n)) = n
  <1> DEFINE bytes == ToBytes(n)
  <1>1. bytes \in Seq(Nat) /\ Len(bytes) = Digits(n) /\ Digits(n) \in Nat
    BY ToBytesType, ByteSeqs
  <1>2. DigitsOf(bytes, n, ByteBase, Weight)
    BY <1>1 DEF ToBytes, DigitsOf
  <1>3. n < Weight[Len(bytes)]
    BY <1>1, DigitsFit
  <1> HIDE DEF bytes
  <1>4. Numeral(ByteBase, bytes) = n
    BY <1>1, <1>2, <1>3, WeightsArePowers, NumeralOfDigits
  <1> QED
    BY <1>4, Zenon DEF Value, Numeral, bytes

\* And its first byte is not zero.
LEMMA FirstByte == ASSUME NEW n \in Nat \ {0} PROVE Digits(n) >= 1 /\ ToBytes(n)[1] # 0
  <1> DEFINE D == Digits(n)
             w == Weight[D - 1]
  <1>1. D \in Nat /\ n < Weight[D] /\ (D = 0 \/ n >= Weight[D - 1])
    BY DigitsFit
  <1>2. D # 0
    BY <1>1, WeightRecursion
  <1>3. D - 1 \in Nat /\ (D - 1) + 1 = D /\ 1 \in 1 .. D
    BY <1>1, <1>2
  <1>4. w \in Nat \ {0} /\ Weight[D] = ByteBase * w /\ ByteBase \in Nat \ {0}
    <2>1. Weight[D - 1] \in Nat \ {0} /\ Weight[(D - 1) + 1] = ByteBase * Weight[D - 1]
          /\ ByteBase \in Nat \ {0}
      BY <1>3, WeightStep
    <2> QED
      BY <1>3, <2>1
  <1>5. ToBytes(n)[1] = (n \div w) % ByteBase
    BY <1>1, <1>3 DEF ToBytes
  <1> HIDE DEF D, w
  <1>6. n >= w /\ n < ByteBase * w
    BY <1>1, <1>2, <1>4 DEF w
  <1>7. n \div w >= 1 /\ n \div w < ByteBase
    <2>1. n \div w \in Nat /\ n % w \in 0 .. w - 1 /\ n = w * (n \div w) + (n % w)
      BY <1>4, QuotientOf
    <2> DEFINE q == n \div w
               t == n % w
    <2> HIDE DEF q, t
    <2>2. q \in Nat /\ t \in Nat /\ t < w /\ n = w * q + t
      BY <1>4, <2>1 DEF q, t
    <2>3. q # 0
      BY <1>4, <1>6, <2>2
    <2>4. q < ByteBase
      <3>1. q >= ByteBase => w * q >= w * ByteBase
        <4>1. \A x, y \in Nat : x >= y => w * x >= w * y
          BY <1>4
        <4> QED
          BY <1>4, <2>2, <4>1
      <3>2. w * ByteBase = ByteBase * w /\ w * q \in Nat /\ ByteBase * w \in Nat
        BY <1>4, <2>2
      <3> QED
        BY <1>4, <1>6, <2>2, <3>1, <3>2
    <2>5. q >= 1 /\ q < ByteBase
      BY <2>2, <2>3, <2>4
    <2> QED
      BY <2>5 DEF q
  <1>8. (n \div w) % ByteBase = n \div w
    <2> DEFINE q == n \div w
    <2>1. q \in Nat
      BY <1>4, QuotientOf
    <2> HIDE DEF q
    <2>2. \A b \in Nat : q < b => q % b = q
      BY <2>1
    <2> QED
      BY <1>4, <1>7, <2>2 DEF q
  <1> QED
    BY <1>1, <1>2, <1>5, <1>7, <1>8 DEF D

-----------------------------------------------------------------------------
(* An item, read back *)

\* What is in a part of a string, place by place; nothing when it ends before it begins.
PartOf(q, s, a, b) ==
    /\ q \in Seq(Nat) /\ DOMAIN q = 1 .. Len(q)
    /\ Len(q) = IF a <= b THEN b - a + 1 ELSE 0
    /\ \A i \in 1 .. Len(q) : q[i] = s[a + i - 1]

\* SubSeq takes a part.
LEMMA Part ==
    ASSUME NEW s \in Seq(Nat), NEW a \in Nat \ {0}, NEW b \in Nat, b <= Len(s)
    PROVE  PartOf(SubSeq(s, a, b), s, a, b)
  <1>1. CASE a <= b
    BY <1>1 DEF PartOf
  <1>2. CASE ~(a <= b)
    BY <1>2 DEF PartOf
  <1> QED
    BY <1>1, <1>2

\* The first places of a string.
FirstOf(q, s, b) ==
    q \in Seq(Nat) /\ Len(q) = b /\ DOMAIN q = 1 .. b /\ \A i \in 1 .. b : q[i] = s[i]

\* SubSeq takes the first places.
LEMMA FirstPart ==
    ASSUME NEW s \in Seq(Nat), NEW b \in Nat, b <= Len(s)
    PROVE  FirstOf(SubSeq(s, 1, b), s, b)
  <1> DEFINE q == SubSeq(s, 1, b)
  <1>1. PartOf(q, s, 1, b)
    <2>1. 1 \in Nat \ {0}
      OBVIOUS
    <2> QED
      BY <2>1, Part, Zenon
  <1> HIDE DEF q
  <1>2. q \in Seq(Nat) /\ DOMAIN q = 1 .. Len(q) /\ Len(q) = b
    BY <1>1 DEF PartOf
  <1>3. \A i \in 1 .. b : 1 + i - 1 = i
    OBVIOUS
  <1>4. \A i \in 1 .. b : q[i] = s[1 + i - 1]
    BY <1>1, <1>2, Zenon DEF PartOf
  <1>5. \A i \in 1 .. b : q[i] = s[i]
    BY <1>3, <1>4, Zenon
  <1>6. FirstOf(q, s, b)
    BY <1>2, <1>5 DEF FirstOf
  <1> QED
    BY <1>6 DEF q

\* Strings with the same length and the same elements are the same.
LEMMA SameElements ==
    ASSUME NEW a \in Seq(Nat), NEW b \in Seq(Nat), Len(a) = Len(b), \A i \in 1 .. Len(b) : a[i] = b[i]
    PROVE  a = b
  <1>1. \A i \in 1 .. Len(a) : a[i] = b[i]
    BY Zenon
  <1> QED
    BY <1>1, SeqEqual, Zenon

\* A string in three pieces, taken apart again.
LEMMA Pieces ==
    ASSUME NEW h \in Seq(Nat), NEW d \in Seq(Nat), NEW r \in Seq(Nat), NEW s, s = h \o d \o r
    PROVE  /\ s \in Seq(Nat) /\ Len(s) = Len(h) + Len(d) + Len(r)
           /\ SubSeq(s, Len(h) + 1, Len(h) + Len(d)) = d
           /\ SubSeq(s, Len(h) + Len(d) + 1, Len(s)) = r
           /\ \A i \in 1 .. Len(h) : s[i] = h[i]
  <1> DEFINE middle == SubSeq(s, Len(h) + 1, Len(h) + Len(d))
             last == SubSeq(s, Len(h) + Len(d) + 1, Len(s))
  <1>1. Len(h) \in Nat /\ Len(d) \in Nat /\ Len(r) \in Nat
    OBVIOUS
  <1>2. s \in Seq(Nat) /\ Len(s) = Len(h) + Len(d) + Len(r)
    OBVIOUS
  <1>3. /\ \A i \in 1 .. Len(h) : s[i] = h[i]
        /\ \A i \in 1 .. Len(d) : s[Len(h) + i] = d[i]
        /\ \A i \in 1 .. Len(r) : s[Len(h) + Len(d) + i] = r[i]
    BY SMTT(20)
  <1>4. middle = d
    <2>1. Len(h) + 1 \in Nat \ {0} /\ Len(h) + Len(d) \in Nat /\ Len(h) + Len(d) <= Len(s)
      BY <1>1, <1>2
    <2>2. PartOf(middle, s, Len(h) + 1, Len(h) + Len(d))
      BY <1>2, <2>1, Part, Zenon
    <2> HIDE DEF middle
    <2>3. middle \in Seq(Nat) /\ Len(middle) = Len(d)
      BY ONLY <1>1, <1>2, <2>2 DEF PartOf
    <2>4. ASSUME NEW i \in 1 .. Len(d) PROVE middle[i] = d[i]
      <3>1. (Len(h) + 1) + i - 1 = Len(h) + i
        BY ONLY <1>1, i \in 1 .. Len(d)
      <3>2. middle[i] = s[(Len(h) + 1) + i - 1]
        BY ONLY <2>2, <2>3, i \in 1 .. Len(d), Zenon DEF PartOf
      <3>3. s[Len(h) + i] = d[i]
        BY ONLY <1>3, i \in 1 .. Len(d), Zenon
      <3> QED
        BY ONLY <3>1, <3>2, <3>3, Zenon
    <2> QED
      BY <2>3, <2>4, SameElements
  <1>5. last = r
    <2>1. Len(h) + Len(d) + 1 \in Nat \ {0} /\ Len(s) \in Nat /\ Len(s) <= Len(s)
      BY <1>1, <1>2
    <2>2. PartOf(last, s, Len(h) + Len(d) + 1, Len(s))
      BY <1>2, <2>1, Part, Zenon
    <2> HIDE DEF last
    <2>3. last \in Seq(Nat) /\ Len(last) = Len(r)
      BY ONLY <1>1, <1>2, <2>2 DEF PartOf
    <2>4. ASSUME NEW i \in 1 .. Len(r) PROVE last[i] = r[i]
      <3>1. (Len(h) + Len(d) + 1) + i - 1 = Len(h) + Len(d) + i
        BY ONLY <1>1, i \in 1 .. Len(r)
      <3>2. last[i] = s[(Len(h) + Len(d) + 1) + i - 1]
        BY ONLY <2>2, <2>3, i \in 1 .. Len(r), Zenon DEF PartOf
      <3>3. s[Len(h) + Len(d) + i] = r[i]
        BY ONLY <1>3, i \in 1 .. Len(r), Zenon
      <3> QED
        BY ONLY <3>1, <3>2, <3>3, Zenon
    <2> QED
      BY <2>3, <2>4, SameElements
  <1> QED
    BY <1>2, <1>3, <1>4, <1>5

\* What is written, and may be followed by anything that a length still counts, is
\* read as what it was.
Readable(text, list, data) ==
    /\ text \in Seq(Nat)
    /\ \A rest \in Seq(Nat) : Len(text) + Len(rest) < Weight[SizeBytes] =>
           read_rlp_item(text \o rest) = Item(list, data, rest)

\* The prefix of a string or of a list gives its kind and its length.
LEMMA ReadsPrefix ==
    ASSUME NEW data \in Seq(Nat), NEW list \in BOOLEAN, SmallByteApart(list, data)
    PROVE  Readable(write_rlp_prefix(Len(data), list) \o data, list, data)
  <1> DEFINE size == Len(data)
             base == IF list THEN ListBase ELSE Single
             head == write_rlp_prefix(size, list)
             D == Digits(size)
  <1>1. /\ size \in Nat /\ base \in Nat /\ Short \in Nat /\ Single \in Nat /\ LengthBytes \in Nat
        /\ SizeBytes \in Nat /\ SizeBytes <= LengthBytes
        /\ ListBase \in Nat /\ ListBase = Single + Short + LengthBytes + 1
    BY BaseType, RlpAssumption DEF ListBase
  <1>2. head \in Seq(Nat) /\ head # <<>>
    <2> HIDE DEF size
    <2>1. head \in Seq(Nat) /\ Len(head) >= 1
      BY <1>1, PrefixLength, Zenon
    <2> HIDE DEF head
    <2> QED
      BY <2>1
  <1>3. /\ D \in Nat /\ ToBytes(size) \in Seq(Nat) /\ Len(ToBytes(size)) = D
        /\ Value(ToBytes(size)) = size /\ (size # 0 => D >= 1 /\ ToBytes(size)[1] # 0)
        /\ (size < Weight[SizeBytes] => D <= SizeBytes)
    BY <1>1, ToBytesType, ByteSeqs, ValueOfBytes, FirstByte, DigitsBelow
  <1>4. head = IF size <= Short THEN <<base + size>> ELSE <<base + Short + D>> \o ToBytes(size)
    BY DEF write_rlp_prefix
  <1>5. list <=> base = ListBase
    BY <1>1
  <1>6. base = ListBase \/ base = Single
    OBVIOUS
  <1> HIDE DEF size, base, D, head
  <1>7. SUFFICES ASSUME NEW rest \in Seq(Nat), Len(head \o data) + Len(rest) < Weight[SizeBytes]
                 PROVE  read_rlp_item(head \o data \o rest) = Item(list, data, rest)
    <2>1. head \o data \in Seq(Nat)
      BY <1>2
    <2> QED
      BY <2>1 DEF Readable, head, size
  <1> DEFINE s == head \o data \o rest
  <1>8. /\ s \in Seq(Nat) /\ s # <<>> /\ Len(s) = Len(head) + size + Len(rest)
        /\ SubSeq(s, Len(head) + 1, Len(head) + size) = data
        /\ SubSeq(s, Len(head) + size + 1, Len(s)) = rest
        /\ Head(s) = head[1] /\ \A i \in 1 .. Len(head) : s[i] = head[i]
    <2>1. /\ s \in Seq(Nat) /\ Len(s) = Len(head) + Len(data) + Len(rest)
          /\ SubSeq(s, Len(head) + 1, Len(head) + Len(data)) = data
          /\ SubSeq(s, Len(head) + Len(data) + 1, Len(s)) = rest
          /\ \A i \in 1 .. Len(head) : s[i] = head[i]
      BY <1>2, Pieces
    <2> HIDE DEF s
    <2>2. s # <<>> /\ Head(s) = s[1] /\ 1 \in 1 .. Len(head)
      BY <1>2, <2>1
    <2> QED
      BY <2>1, <2>2 DEF size
  <1>9. size < Weight[SizeBytes] /\ Weight[SizeBytes] \in Nat /\ Len(head) \in Nat /\ Len(rest) \in Nat
    <2>1. Len(head \o data) = Len(head) + size /\ Len(head) \in Nat /\ Len(rest) \in Nat
      BY <1>2 DEF size
    <2>2. Weight[SizeBytes] \in Nat
      BY <1>1, WeightRecursion
    <2> DEFINE w == Weight[SizeBytes]
               whole == Len(head \o data)
    <2>3. whole + Len(rest) < w
      BY <1>7
    <2> HIDE DEF w, whole
    <2>4. w \in Nat /\ whole = Len(head) + size
      BY <2>1, <2>2 DEF w, whole
    <2>5. size < w
      BY <1>1, <2>1, <2>3, <2>4
    <2> QED
      BY <2>1, <2>2, <2>5 DEF w
  <1>10. D <= SizeBytes
    BY <1>3, <1>9
  <1> HIDE DEF s
  <1>11. ASSUME IsList(s) = list
         PROVE  Payload(s, Len(head) + 1, size) = Item(list, data, rest)
    <2> DEFINE first == Len(head) + 1
    <2>1. /\ first + size - 1 = Len(head) + size /\ first + size = Len(head) + size + 1
          /\ size <= Len(s) - first + 1
      BY <1>1, <1>8, <1>9
    <2>2. SubSeq(s, first, first + size - 1) = data /\ SubSeq(s, first + size, Len(s)) = rest
      BY <1>8, <2>1
    <2> HIDE DEF first
    <2>3. Payload(s, first, size) = Item(list, data, rest)
      BY <1>11, <2>1, <2>2, Zenon DEF Payload
    <2> QED
      BY <2>3 DEF first
  <1>12. ASSUME NEW k \in Nat, k <= Short + SizeBytes, Head(s) = base + k
         PROVE  IsList(s) = list /\ ShortSize(s) = k /\ Head(s) >= Single
    <2>1. IsList(s) \in BOOLEAN
      BY <1>8, ReadCases
    <2>2. CASE base = ListBase
      <3>1. Head(s) >= ListBase /\ list = TRUE /\ Head(s) - ListBase = k /\ Head(s) >= Single
        BY <1>1, <1>5, <1>12, <2>2
      <3>2. IsList(s) = TRUE
        BY <2>1, <3>1, Zenon DEF IsList
      <3>3. ShortSize(s) = k
        BY <3>1, <3>2 DEF ShortSize
      <3> QED
        BY <3>1, <3>2, <3>3, Zenon
    <2>3. CASE base = Single
      <3>1. ~(Head(s) >= ListBase) /\ list = FALSE /\ Head(s) - Single = k /\ Head(s) >= Single
        BY <1>1, <1>5, <1>12, <2>3
      <3>2. IsList(s) = FALSE
        BY <2>1, <3>1, Zenon DEF IsList
      <3>3. ShortSize(s) = k
        BY <3>1, <3>2 DEF ShortSize
      <3> QED
        BY <3>1, <3>2, <3>3, Zenon
    <2> QED
      BY <1>6, <2>2, <2>3
  <1>13. CASE size <= Short
    <2>1. head = <<base + size>>
      BY <1>4, <1>13
    <2>2. Head(s) = base + size /\ Len(head) + 1 = 2 /\ size <= Short + SizeBytes
      BY <1>1, <1>8, <1>13, <2>1
    <2>3. IsList(s) = list /\ ShortSize(s) = size /\ Head(s) >= Single
      BY <1>1, <1>12, <2>2, Zenon
    <2>4. read_rlp_item(s) = Payload(s, 2, size)
      BY <1>8, <1>13, <2>3, ReadCases
    <2> QED
      BY <1>11, <2>2, <2>3, <2>4, Zenon DEF s
  <1>14. CASE ~(size <= Short)
    <2> DEFINE bytes == ToBytes(size)
    <2>1. bytes \in Seq(Nat) /\ Len(bytes) = D /\ Value(bytes) = size /\ D >= 1 /\ bytes[1] # 0
          /\ size > Short
      BY <1>1, <1>3, <1>14
    <2>2. head = <<base + Short + D>> \o bytes
      BY <1>4, <1>14
    <2> HIDE DEF bytes
    <2>3. Len(head) = D + 1 /\ head[1] = base + Short + D /\ \A i \in 1 .. D : head[i + 1] = bytes[i]
      BY <1>1, <1>3, <2>1, <2>2
    <2>4. Short + D \in Nat /\ Short + D <= Short + SizeBytes /\ Head(s) = base + (Short + D)
      BY <1>1, <1>3, <1>8, <1>10, <2>3
    <2>5. IsList(s) = list /\ ShortSize(s) = Short + D /\ Head(s) >= Single
      BY <1>12, <2>4, Zenon
    <2>6. ShortSize(s) - Short = D /\ ShortSize(s) > Short /\ ShortSize(s) - Short + 1 = D + 1
          /\ ShortSize(s) - Short + 2 = Len(head) + 1
      BY <1>1, <1>3, <2>1, <2>3, <2>5
    <2>7. SubSeq(s, 2, D + 1) = bytes
      <3> DEFINE lengths == SubSeq(s, 2, D + 1)
      <3>0. D + 1 <= Len(s) /\ D + 1 \in Nat /\ Len(s) \in Nat
        BY <1>1, <1>3, <1>8, <1>9, <2>3
      <3>1. lengths \in Seq(Nat) /\ Len(lengths) = D /\ \A i \in 1 .. D : lengths[i] = s[i + 1]
        <4>1. 2 \in Nat \ {0} /\ s \in Seq(Nat)
          BY <1>8
        <4>2. PartOf(lengths, s, 2, D + 1)
          BY <3>0, <4>1, Part, Zenon DEF lengths
        <4> HIDE DEF lengths
        <4>3. (IF 2 <= D + 1 THEN (D + 1) - 2 + 1 ELSE 0) = D /\ \A i \in 1 .. D : 2 + i - 1 = i + 1
          BY ONLY <1>3
        <4>4. /\ lengths \in Seq(Nat) /\ Len(lengths) = IF 2 <= D + 1 THEN (D + 1) - 2 + 1 ELSE 0
              /\ \A i \in 1 .. Len(lengths) : lengths[i] = s[2 + i - 1]
          BY ONLY <4>2, Zenon DEF PartOf
        <4>5. lengths \in Seq(Nat) /\ Len(lengths) = D
          BY ONLY <4>3, <4>4
        <4>6. \A i \in 1 .. D : lengths[i] = s[i + 1]
          BY ONLY <4>3, <4>4, <4>5, Zenon
        <4> QED
          BY ONLY <4>5, <4>6
      <3>2. \A i \in 1 .. D : i + 1 \in 1 .. Len(head)
        BY <1>3, <2>3
      <3> HIDE DEF lengths
      <3>3. \A i \in 1 .. D : lengths[i] = bytes[i]
        BY <1>8, <2>3, <3>1, <3>2
      <3>4. lengths = bytes
        BY <2>1, <3>1, <3>3
      <3> QED
        BY <3>4 DEF lengths
    <2>8. LongSize(s) = size
      BY <2>1, <2>6, <2>7 DEF LongSize
    <2>9. read_rlp_length(Tail(s), D)
      <3>1. Len(Tail(s)) = Len(s) - 1 /\ Tail(s)[1] = s[2]
        <4>1. Len(s) >= 2
          BY <1>1, <1>3, <1>8, <1>9, <2>1, <2>3
        <4> QED
          BY <1>8, <4>1
      <3>2. s[2] = bytes[1]
        <4>1. 1 \in 1 .. D /\ 1 + 1 = 2 /\ 2 \in 1 .. Len(head)
          BY <1>3, <2>1, <2>3
        <4> QED
          BY <1>8, <2>3, <4>1
      <3>3. D <= Len(s) - 1
        BY <1>1, <1>3, <1>8, <1>9, <2>3
      <3> QED
        BY <1>10, <2>1, <3>1, <3>2, <3>3 DEF read_rlp_length
    <2>10. read_rlp_item(s) = Payload(s, Len(head) + 1, size)
      <3>1. read_rlp_item(s) =
                IF read_rlp_length(Tail(s), ShortSize(s) - Short) /\ LongSize(s) > Short
                THEN Payload(s, ShortSize(s) - Short + 2, LongSize(s)) ELSE Refused
        BY <1>8, <2>5, <2>6, ReadCases
      <3> QED
        BY <2>1, <2>6, <2>8, <2>9, <3>1, Zenon
    <2> QED
      BY <1>11, <2>5, <2>10, Zenon DEF s
  <1> QED
    BY <1>13, <1>14

-----------------------------------------------------------------------------
(* A list of items, read back *)

\* Where the elements of two strings stand when they are laid end to end.
LEMMA LaidTogether ==
    ASSUME NEW x \in Seq(Nat), NEW y \in Seq(Nat)
    PROVE  /\ x \o y \in Seq(Nat) /\ Len(x) \in Nat /\ Len(y) \in Nat /\ Len(x \o y) = Len(x) + Len(y)
           /\ \A i \in 1 .. Len(x) : (x \o y)[i] = x[i]
           /\ \A i \in Len(x) + 1 .. Len(x) + Len(y) : (x \o y)[i] = y[i - Len(x)]
  OBVIOUS

\* Laying strings end to end is associative.
LEMMA Together ==
    ASSUME NEW x \in Seq(Nat), NEW y \in Seq(Nat), NEW z \in Seq(Nat)
    PROVE  (x \o y) \o z = x \o (y \o z)
  <1> DEFINE a == (x \o y) \o z
             b == x \o (y \o z)
             xy == x \o y
             yz == y \o z
             k == Len(x)
             m == Len(y)
             n == Len(z)
  <1>1. /\ xy \in Seq(Nat) /\ k \in Nat /\ m \in Nat /\ Len(xy) = k + m
        /\ \A i \in 1 .. k : xy[i] = x[i]
        /\ \A i \in k + 1 .. k + m : xy[i] = y[i - k]
    BY LaidTogether
  <1>2. /\ yz \in Seq(Nat) /\ n \in Nat /\ Len(yz) = m + n
        /\ \A i \in 1 .. m : yz[i] = y[i]
        /\ \A i \in m + 1 .. m + n : yz[i] = z[i - m]
    BY LaidTogether
  <1> HIDE DEF xy, yz
  <1>3. /\ a \in Seq(Nat) /\ Len(a) = (k + m) + n
        /\ \A i \in 1 .. k + m : a[i] = xy[i]
        /\ \A i \in (k + m) + 1 .. (k + m) + n : a[i] = z[i - (k + m)]
    <2>1. a = xy \o z
      BY DEF xy
    <2>2. Len(xy) = k + m /\ xy \in Seq(Nat)
      BY <1>1
    <2>3. /\ xy \o z \in Seq(Nat) /\ Len(xy \o z) = Len(xy) + Len(z)
          /\ \A i \in 1 .. Len(xy) : (xy \o z)[i] = xy[i]
          /\ \A i \in Len(xy) + 1 .. Len(xy) + Len(z) : (xy \o z)[i] = z[i - Len(xy)]
      BY <2>2, LaidTogether
    <2> HIDE DEF a, k, m
    <2> QED
      BY <2>1, <2>2, <2>3, Zenon
  <1>4. /\ b \in Seq(Nat) /\ Len(b) = k + (m + n)
        /\ \A i \in 1 .. k : b[i] = x[i]
        /\ \A i \in k + 1 .. k + (m + n) : b[i] = yz[i - k]
    <2>1. b = x \o yz
      BY DEF yz
    <2>2. Len(yz) = m + n /\ yz \in Seq(Nat)
      BY <1>2
    <2>3. /\ x \o yz \in Seq(Nat) /\ Len(x \o yz) = Len(x) + Len(yz)
          /\ \A i \in 1 .. Len(x) : (x \o yz)[i] = x[i]
          /\ \A i \in Len(x) + 1 .. Len(x) + Len(yz) : (x \o yz)[i] = yz[i - Len(x)]
      BY <2>2, LaidTogether
    <2> HIDE DEF b, m, n
    <2> QED
      BY <2>1, <2>2, <2>3, Zenon
  <1> HIDE DEF a, b, k, m, n
  <1>5. ASSUME NEW i \in 1 .. Len(b) PROVE a[i] = b[i]
    <2>1. k \in Nat /\ m \in Nat /\ n \in Nat /\ i \in 1 .. k + (m + n)
      BY <1>1, <1>2, <1>4
    <2>2. CASE i <= k
      <3>1. i \in 1 .. k /\ i \in 1 .. k + m
        BY <2>1, <2>2
      <3> QED
        BY <1>1, <1>3, <1>4, <3>1
    <2>3. CASE i > k /\ i <= k + m
      <3>1. i \in k + 1 .. k + m /\ i \in 1 .. k + m /\ i \in k + 1 .. k + (m + n) /\ i - k \in 1 .. m
        BY <2>1, <2>3
      <3> QED
        BY <1>1, <1>2, <1>3, <1>4, <3>1
    <2>4. CASE i > k + m
      <3>1. /\ i \in (k + m) + 1 .. (k + m) + n /\ i \in k + 1 .. k + (m + n)
            /\ i - k \in m + 1 .. m + n /\ (i - k) - m = i - (k + m)
        BY <2>1, <2>4
      <3> QED
        BY <1>2, <1>3, <1>4, <3>1
    <2> QED
      BY <2>1, <2>2, <2>3, <2>4
  <1>6. Len(a) = Len(b)
    <2>1. Len(a) = (k + m) + n /\ Len(b) = k + (m + n)
      BY ONLY <1>3, <1>4, Zenon
    <2>2. k \in Nat /\ m \in Nat /\ n \in Nat
      BY <1>1, <1>2
    <2> QED
      BY ONLY <2>1, <2>2
  <1>7. a = b
    BY <1>3, <1>4, <1>5, <1>6, SameElements
  <1> QED
    BY <1>7 DEF a, b

\* What follows a single byte is the tail.
LEMMA AfterOne ==
    ASSUME NEW d \in Seq(Nat), Len(d) = 1, NEW r \in Seq(Nat), NEW s, s = d \o r
    PROVE  s \in Seq(Nat) /\ s # <<>> /\ Head(s) = d[1] /\ Tail(s) = r
  <1> DEFINE m == Len(r)
  <1>1. /\ s \in Seq(Nat) /\ m \in Nat /\ Len(s) = 1 + m
        /\ \A i \in 1 .. 1 : s[i] = d[i]
        /\ \A i \in 1 + 1 .. 1 + m : s[i] = r[i - 1]
    <2>1. /\ d \o r \in Seq(Nat) /\ Len(r) \in Nat /\ Len(d \o r) = Len(d) + Len(r)
          /\ \A i \in 1 .. Len(d) : (d \o r)[i] = d[i]
          /\ \A i \in Len(d) + 1 .. Len(d) + Len(r) : (d \o r)[i] = r[i - Len(d)]
      BY LaidTogether
    <2> QED
      BY <2>1, Zenon
  <1> HIDE DEF m
  <1>2. s # <<>> /\ Head(s) = s[1] /\ s[1] = d[1]
    BY <1>1
  <1>3. Tail(s) \in Seq(Nat) /\ Len(Tail(s)) = m /\ \A i \in 1 .. m : Tail(s)[i] = s[i + 1]
    BY <1>1
  <1>4. \A i \in 1 .. m : i + 1 \in 1 + 1 .. 1 + m /\ (i + 1) - 1 = i
    BY <1>1
  <1>5. \A i \in 1 .. m : Tail(s)[i] = r[i]
    BY <1>1, <1>3, <1>4
  <1>6. Tail(s) = r
    BY <1>3, <1>5, SameElements DEF m
  <1> QED
    BY <1>1, <1>2, <1>6

\* The fields of a list, and a text that spells them one after the other.
Field(list, data) == [list |-> list, data |-> data]
FieldSet == [list : BOOLEAN, data : Seq(Nat)]

Spells(text, fields) ==
    \E rest \in [0 .. Len(fields) -> Seq(Nat)] :
        /\ rest[0] = text /\ rest[Len(fields)] = <<>>
        /\ \A i \in 1 .. Len(fields) : \E piece :
               Readable(piece, fields[i].list, fields[i].data) /\ rest[i - 1] = piece \o rest[i]

\* What spells fields is a string.
LEMMA SpelledIsText == ASSUME NEW text, NEW fields \in Seq(FieldSet), Spells(text, fields) PROVE text \in Seq(Nat)
  <1>1. PICK rest \in [0 .. Len(fields) -> Seq(Nat)] : rest[0] = text
    BY DEF Spells
  <1>2. Len(fields) \in Nat
    OBVIOUS
  <1> QED
    BY <1>1, <1>2

\* The empty string spells no field.
LEMMA SpellsNothing == Spells(<<>>, <<>>)
  <1> DEFINE rest == [i \in 0 .. 0 |-> <<>>]
  <1>1. rest \in [0 .. Len(<<>>) -> Seq(Nat)] /\ rest[0] = <<>> /\ rest[Len(<<>>)] = <<>>
    OBVIOUS
  <1>2. \A i \in 1 .. Len(<<>>) : FALSE
    OBVIOUS
  <1> QED
    BY <1>1, <1>2, Zenon DEF Spells

\* What is read back as one field spells that field.
LEMMA SpellsOne ==
    ASSUME NEW text, NEW list, NEW data, Readable(text, list, data)
    PROVE  Spells(text, <<Field(list, data)>>)
  <1> DEFINE fields == <<Field(list, data)>>
             rest == [i \in 0 .. 1 |-> IF i = 0 THEN text ELSE <<>>]
  <1>1. text \in Seq(Nat)
    BY DEF Readable
  <1>2. Len(fields) = 1 /\ fields[1] = Field(list, data)
    OBVIOUS
  <1>3. fields[1].list = list /\ fields[1].data = data
    BY <1>2, Zenon DEF Field
  <1>4. rest \in [0 .. 1 -> Seq(Nat)] /\ rest[0] = text /\ rest[1] = <<>>
    BY <1>1
  <1>5. rest[0] = text \o rest[1]
    BY <1>1, <1>4
  <1> HIDE DEF fields, rest
  <1>6. \A i \in 1 .. 1 : i = 1 /\ i - 1 = 0
    OBVIOUS
  <1>7. \A i \in 1 .. 1 : \E piece :
            Readable(piece, fields[i].list, fields[i].data) /\ rest[i - 1] = piece \o rest[i]
    <2> TAKE i \in 1 .. 1
    <2>1. i = 1 /\ i - 1 = 0
      BY <1>6
    <2> WITNESS text
    <2> QED
      BY <1>3, <1>5, <2>1, Zenon
  <1> QED
    BY <1>2, <1>4, <1>7, Zenon DEF Spells, fields

\* Two texts, one after the other.
LEMMA SpellsBoth ==
    ASSUME NEW ta, NEW tb, NEW a \in Seq(FieldSet), NEW b \in Seq(FieldSet), Spells(ta, a), Spells(tb, b)
    PROVE  a \o b \in Seq(FieldSet) /\ Spells(ta \o tb, a \o b)
  <1> DEFINE n == Len(a)
             m == Len(b)
             both == a \o b
  <1>1. /\ n \in Nat /\ m \in Nat /\ both \in Seq(FieldSet) /\ Len(both) = n + m
        /\ \A i \in 1 .. n : both[i] = a[i]
        /\ \A i \in n + 1 .. n + m : both[i] = b[i - n]
    OBVIOUS
  <1>2. PICK ra \in [0 .. n -> Seq(Nat)] :
            /\ ra[0] = ta /\ ra[n] = <<>>
            /\ \A i \in 1 .. n : \E piece :
                   Readable(piece, a[i].list, a[i].data) /\ ra[i - 1] = piece \o ra[i]
    BY DEF Spells
  <1>3. PICK rb \in [0 .. m -> Seq(Nat)] :
            /\ rb[0] = tb /\ rb[m] = <<>>
            /\ \A i \in 1 .. m : \E piece :
                   Readable(piece, b[i].list, b[i].data) /\ rb[i - 1] = piece \o rb[i]
    BY DEF Spells
  <1> HIDE DEF n, m, both
  <1> DEFINE rest == [i \in 0 .. n + m |-> IF i <= n THEN ra[i] \o tb ELSE rb[i - n]]
  <1>4. tb \in Seq(Nat) /\ ta \in Seq(Nat)
    BY <1>1, <1>2, <1>3
  <1>5. rest \in [0 .. n + m -> Seq(Nat)]
    <2> SUFFICES ASSUME NEW i \in 0 .. n + m PROVE rest[i] \in Seq(Nat)
      OBVIOUS
    <2>1. CASE i <= n
      <3>1. ra[i] \in Seq(Nat)
        <4>1. i \in 0 .. n
          BY <1>1, <2>1
        <4> QED
          BY <1>2, <4>1
      <3> QED
        BY <1>4, <2>1, <3>1
    <2>2. CASE ~(i <= n)
      <3>1. i - n \in 0 .. m
        BY <1>1, <2>2
      <3> QED
        BY <1>3, <2>2, <3>1
    <2> QED
      BY <2>1, <2>2
  <1>6. \A i \in n .. n + m : i - n \in 0 .. m /\ rest[i] = rb[i - n]
    <2> SUFFICES ASSUME NEW i \in n .. n + m PROVE i - n \in 0 .. m /\ rest[i] = rb[i - n]
      OBVIOUS
    <2>1. i - n \in 0 .. m /\ i \in 0 .. n + m /\ n <= n /\ n - n = 0
      BY <1>1
    <2>2. CASE i = n
      <3>1. rest[i] = ra[n] \o tb
        BY <2>1, <2>2
      <3>2. ra[n] \o tb = tb
        BY <1>2, <1>4
      <3> QED
        BY <1>3, <2>1, <2>2, <3>1, <3>2
    <2>3. CASE i # n
      <3>1. ~(i <= n)
        BY <1>1, <2>3
      <3> QED
        BY <2>1, <3>1
    <2> QED
      BY <2>2, <2>3
  <1>7. rest[0] = ta \o tb /\ rest[n + m] = <<>>
    <2>1. 0 \in 0 .. n + m /\ 0 <= n /\ n + m \in n .. n + m /\ (n + m) - n = m
      BY <1>1
    <2>2. rest[0] = ta \o tb
      BY <1>2, <2>1
    <2>3. rest[n + m] = <<>>
      BY <1>3, <1>6, <2>1
    <2> QED
      BY <2>2, <2>3
  <1>8. ASSUME NEW i \in 1 .. n + m
        PROVE  \E piece : Readable(piece, both[i].list, both[i].data) /\ rest[i - 1] = piece \o rest[i]
    <2>1. CASE i <= n
      <3>1. i \in 1 .. n /\ i - 1 \in 0 .. n /\ i - 1 <= n /\ i - 1 \in 0 .. n + m /\ i \in 0 .. n
            /\ i \in 0 .. n + m
        BY <1>1, <2>1
      <3>2. PICK piece : Readable(piece, a[i].list, a[i].data) /\ ra[i - 1] = piece \o ra[i]
        BY <1>2, <3>1
      <3>3. rest[i - 1] = ra[i - 1] \o tb /\ rest[i] = ra[i] \o tb
        BY <2>1, <3>1
      <3>4. piece \in Seq(Nat) /\ ra[i] \in Seq(Nat)
        BY <1>2, <3>1, <3>2 DEF Readable
      <3>5. (piece \o ra[i]) \o tb = piece \o (ra[i] \o tb)
        BY <1>4, <3>4, Together
      <3>6. rest[i - 1] = piece \o rest[i]
        BY <3>2, <3>3, <3>5, Zenon
      <3>7. both[i] = a[i]
        BY <1>1, <3>1
      <3> QED
        BY <3>2, <3>6, <3>7, Zenon
    <2>2. CASE ~(i <= n)
      <3>1. i - n \in 1 .. m /\ (i - n) - 1 = (i - 1) - n /\ i - 1 \in n .. n + m /\ i \in n .. n + m
            /\ i \in n + 1 .. n + m
        BY <1>1, <2>2
      <3>2. PICK piece : Readable(piece, b[i - n].list, b[i - n].data)
                         /\ rb[(i - n) - 1] = piece \o rb[i - n]
        BY <1>3, <3>1
      <3>3. rest[i - 1] = rb[(i - 1) - n] /\ rest[i] = rb[i - n] /\ both[i] = b[i - n]
        BY <1>1, <1>6, <3>1
      <3> QED
        BY <3>1, <3>2, <3>3, Zenon
    <2> QED
      BY <2>1, <2>2
  <1> HIDE DEF rest
  <1>9. Spells(ta \o tb, both)
    BY <1>1, <1>5, <1>7, <1>8, Zenon DEF Spells
  <1> QED
    BY <1>1, <1>9 DEF both

\* What the writer puts down can be read.
LEMMA ReadsBytes == ASSUME NEW data \in Seq(Nat) PROVE Readable(write_rlp_bytes(data), FALSE, data)
  <1>1. CASE Len(data) = 1 /\ data[1] < Single
    <2>1. write_rlp_bytes(data) = data
      BY <1>1 DEF write_rlp_bytes
    <2>2. data = <<data[1]>>
      BY <1>1
    <2>3. ASSUME NEW rest \in Seq(Nat)
          PROVE  read_rlp_item(data \o rest) = Item(FALSE, data, rest)
      <3> DEFINE s == data \o rest
      <3>1. s \in Seq(Nat) /\ s # <<>> /\ Head(s) = data[1] /\ Tail(s) = rest
        BY <1>1, AfterOne
      <3> HIDE DEF s
      <3>2. read_rlp_item(s) = Item(FALSE, <<Head(s)>>, Tail(s))
        BY <1>1, <3>1, ReadCases
      <3> QED
        BY <2>2, <3>1, <3>2, Zenon DEF s
    <2> QED
      BY <2>1, <2>3 DEF Readable
  <1>2. CASE ~(Len(data) = 1 /\ data[1] < Single)
    <2>1. write_rlp_bytes(data) = write_rlp_prefix(Len(data), FALSE) \o data
      BY <1>2 DEF write_rlp_bytes
    <2>2. SmallByteApart(FALSE, data) /\ FALSE \in BOOLEAN
      BY <1>2, Zenon DEF SmallByteApart
    <2>3. Readable(write_rlp_prefix(Len(data), FALSE) \o data, FALSE, data)
      BY <2>2, ReadsPrefix, Zenon
    <2> QED
      BY <2>1, <2>3, Zenon
  <1> QED
    BY <1>1, <1>2

\* A number written is read back as its bytes.
LEMMA ReadsNumber == ASSUME NEW n \in Nat PROVE Readable(write_rlp_integer(n), FALSE, ToBytes(n))
  <1>1. ToBytes(n) \in Seq(Nat)
    BY ToBytesType, ByteSeqs
  <1> QED
    BY <1>1, ReadsBytes, Zenon DEF write_rlp_integer

\* A list written is read back as its payload.
LEMMA ReadsList == ASSUME NEW data \in Seq(Nat) PROVE Readable(write_rlp_list(data), TRUE, data)
  <1>1. SmallByteApart(TRUE, data) /\ TRUE \in BOOLEAN
    BY Zenon DEF SmallByteApart
  <1>2. Readable(write_rlp_prefix(Len(data), TRUE) \o data, TRUE, data)
    BY <1>1, ReadsPrefix, Zenon
  <1> QED
    BY <1>2, Zenon DEF write_rlp_list

\* Texts laid end to end spell the fields each of them spells.
LEMMA SpellsAll ==
    ASSUME NEW texts \in Seq(Seq(Nat)), NEW fields \in Seq(FieldSet), Len(texts) = Len(fields),
           Len(texts) # 0,
           \A i \in 1 .. Len(fields) : Readable(texts[i], fields[i].list, fields[i].data)
    PROVE  Spells(FlattenSeq(texts), fields)
  <1> DEFINE n == Len(fields)
             First(k) == SubSeq(fields, 1, k)
  <1>1. n \in Nat \ {0} /\ n = Len(texts)
    OBVIOUS
  <1>2. PICK g : Joins(g, texts) /\ FlattenSeq(texts) = g[n]
    BY FlattenByPiece
  <1>3. ASSUME NEW k \in 1 .. n
        PROVE  /\ fields[k] \in FieldSet /\ Field(fields[k].list, fields[k].data) = fields[k]
               /\ Spells(texts[k], <<fields[k]>>) /\ First(k) \in Seq(FieldSet)
    <2>1. fields[k] \in FieldSet
      BY Elements
    <2>2. Field(fields[k].list, fields[k].data) = fields[k]
      BY <2>1 DEF Field, FieldSet
    <2>3. Spells(texts[k], <<fields[k]>>)
      BY <2>2, SpellsOne
    <2>4. First(k) \in Seq(FieldSet)
      BY <1>1
    <2> QED
      BY <2>1, <2>2, <2>3, <2>4
  <1>4. First(1) = <<fields[1]>> /\ First(n) = fields
    <2> DEFINE a == First(1)
    <2>1. a \in Seq(FieldSet) /\ Len(a) = 1 /\ a[1] = fields[1]
      BY <1>1
    <2>2. First(n) = fields
      BY <1>1, SubSeqFull
    <2> HIDE DEF a
    <2>3. a = <<a[1]>>
      BY <2>1
    <2> QED
      BY <2>1, <2>2, <2>3 DEF a
  <1>5. ASSUME NEW k \in 2 .. n PROVE First(k) = First(k - 1) \o <<fields[k]>>
    <2>1. 1 \in 1 .. Len(fields) /\ k \in 1 .. Len(fields)
      BY <1>1
    <2> QED
      BY <2>1, SubSeqRecursiveSecond
  <1> HIDE DEF n, First
  <1> DEFINE Good == {k \in Nat : k + 1 <= n => Spells(g[k + 1], First(k + 1))}
  <1>6. 0 \in Good
    <2>1. g[1] = texts[1] /\ 1 \in 1 .. n
      BY <1>1, <1>2 DEF Joins
    <2>2. 0 + 1 = 1
      OBVIOUS
    <2>3. Spells(g[0 + 1], First(0 + 1))
      BY <1>3, <1>4, <2>1, <2>2, Zenon
    <2> QED
      BY <2>3
  <1>7. ASSUME NEW k \in Nat, k \in Good, k + 2 <= n PROVE Spells(g[k + 2], First(k + 2))
    <2>1. k + 2 \in 2 .. n /\ k + 2 \in 1 .. n /\ (k + 2) - 1 = k + 1 /\ k + 1 \in 1 .. n /\ k + 1 <= n
      BY <1>1, <1>7
    <2>2. g[k + 2] = g[k + 1] \o texts[k + 2]
      BY <1>1, <1>2, <2>1 DEF Joins
    <2>3. First(k + 2) = First(k + 1) \o <<fields[k + 2]>>
      BY <1>5, <2>1
    <2>4. Spells(g[k + 1], First(k + 1)) /\ First(k + 1) \in Seq(FieldSet)
      BY <1>3, <1>7, <2>1
    <2>5. Spells(texts[k + 2], <<fields[k + 2]>>) /\ fields[k + 2] \in FieldSet
      BY <1>3, <2>1
    <2>6. <<fields[k + 2]>> \in Seq(FieldSet)
      BY <2>5
    <2>7. Spells(g[k + 1] \o texts[k + 2], First(k + 1) \o <<fields[k + 2]>>)
      BY <2>4, <2>5, <2>6, SpellsBoth
    <2> QED
      BY <2>2, <2>3, <2>7
  <1>8. Nat \subseteq Good
    <2>1. ASSUME NEW k \in Nat, k \in Good PROVE k + 1 \in Good
      <3>1. (k + 1) + 1 = k + 2 /\ k + 1 \in Nat
        OBVIOUS
      <3> QED
        BY <1>7, <2>1, <3>1
    <2> HIDE DEF Good
    <2> QED
      BY <1>6, <2>1, NatSetInduction
  <1>9. n - 1 \in Nat /\ (n - 1) + 1 = n /\ n <= n
    BY <1>1
  <1>10. Spells(g[n], First(n))
    <2>1. n - 1 \in Good
      BY <1>8, <1>9
    <2> QED
      BY <1>9, <2>1
  <1> QED
    BY <1>2, <1>4, <1>10

\* A list that is read finds the fields its text spells, and nothing after them.
LEMMA ReadsSpelled ==
    ASSUME NEW text, NEW fields \in Seq(FieldSet), Spells(text, fields), Len(text) < Weight[SizeBytes]
    PROVE  LET read == ReadItems(text, Len(fields))
           IN  /\ read.ok /\ read.rest = <<>> /\ Len(read.items) = Len(fields)
               /\ \A i \in 1 .. Len(fields) : read.items[i].data = fields[i].data
               /\ \A i \in 1 .. Len(fields) : read.items[i].list = fields[i].list
  <1> DEFINE n == Len(fields)
             w == Weight[SizeBytes]
  <1>1. n \in Nat /\ w \in Nat
    BY BaseType, WeightRecursion
  <1>2. text \in Seq(Nat)
    BY SpelledIsText
  <1>3. PICK rest \in [0 .. n -> Seq(Nat)] :
            /\ rest[0] = text /\ rest[n] = <<>>
            /\ \A i \in 1 .. n : \E piece :
                   Readable(piece, fields[i].list, fields[i].data) /\ rest[i - 1] = piece \o rest[i]
    BY DEF Spells
  <1>4. PICK read : ReadsItems(read, text, n) /\ ReadItems(text, n) = read[n]
    BY <1>1, <1>2, ReadItemsByStep
  <1>5. \A i \in 1 .. n : fields[i] \in FieldSet
    BY Elements
  <1>6. Len(text) < w
    OBVIOUS
  <1> HIDE DEF n, w
  <1> DEFINE Read(k) == /\ read[k].ok = TRUE /\ read[k].rest = rest[k] /\ Len(rest[k]) < w
                        /\ read[k].items \in Seq(ItemType(Nat)) /\ Len(read[k].items) = k
                        /\ \A i \in 1 .. k : read[k].items[i].data = fields[i].data
                        /\ \A i \in 1 .. k : read[k].items[i].list = fields[i].list
             Good == {k \in Nat : k <= n => Read(k)}
  <1>7. 0 \in Good
    <2>1. read[0] = [ok |-> TRUE, items |-> <<>>, rest |-> text]
      BY <1>4 DEF ReadsItems
    <2>2. read[0].ok = TRUE /\ read[0].rest = text /\ read[0].items = <<>>
      BY <2>1
    <2>3. read[0].items \in Seq(ItemType(Nat)) /\ Len(read[0].items) = 0
      BY <2>2
    <2>4. \A i \in 1 .. 0 : FALSE
      OBVIOUS
    <2>5. Read(0)
      BY <1>3, <1>6, <2>2, <2>3, <2>4
    <2> HIDE DEF Read
    <2> QED
      BY <2>5
  <1>8. ASSUME NEW k \in Nat, Read(k), k + 1 <= n PROVE Read(k + 1)
    <2> DEFINE field == fields[k + 1]
               item == Item(field.list, field.data, rest[k + 1])
    <2>1. k + 1 \in 1 .. n /\ (k + 1) - 1 = k /\ k + 1 \in 0 .. n
      BY <1>1, <1>8
    <2>2. PICK piece : Readable(piece, field.list, field.data) /\ rest[k] = piece \o rest[k + 1]
      BY <1>3, <2>1
    <2>3. piece \in Seq(Nat) /\ rest[k + 1] \in Seq(Nat)
      BY <1>3, <2>1, <2>2 DEF Readable
    <2>4. Len(rest[k]) = Len(piece) + Len(rest[k + 1]) /\ Len(piece) \in Nat /\ Len(rest[k + 1]) \in Nat
      BY <2>2, <2>3, LaidTogether
    <2>5. Len(piece) + Len(rest[k + 1]) < w /\ Len(rest[k + 1]) < w
      BY <1>1, <1>8, <2>4
    <2>6. read_rlp_item(rest[k]) = item
      BY <2>2, <2>3, <2>5 DEF Readable, w
    <2>7. field.list \in BOOLEAN /\ field.data \in Seq(Nat)
      BY <1>5, <2>1 DEF FieldSet
    <2>8. item.ok = TRUE /\ item.rest = rest[k + 1] /\ item.data = field.data /\ item.list = field.list
          /\ item \in ItemType(Nat)
      <3> HIDE DEF field
      <3> QED
        BY <2>3, <2>7 DEF Item, ItemType
    <2>9. read[k + 1] = [ok |-> TRUE, items |-> Append(read[k].items, item), rest |-> rest[k + 1]]
      <3>1. read[k + 1] = ReadNext(read[k])
        BY <1>4, <2>1 DEF ReadsItems
      <3> HIDE DEF item
      <3> QED
        BY <1>8, <2>6, <2>8, <3>1, Zenon DEF ReadNext
    <2> DEFINE items == read[k + 1].items
    <2>10. items = Append(read[k].items, item) /\ read[k + 1].ok = TRUE /\ read[k + 1].rest = rest[k + 1]
      BY <2>9
    <2> HIDE DEF item, items, field
    <2>11. items \in Seq(ItemType(Nat)) /\ Len(items) = k + 1 /\ items[k + 1] = item
           /\ \A i \in 1 .. k : items[i] = read[k].items[i]
      BY <1>8, <2>8, <2>10
    <2>12. ASSUME NEW i \in 1 .. k + 1
           PROVE  items[i].data = fields[i].data /\ items[i].list = fields[i].list
      <3>1. CASE i = k + 1
        BY <2>8, <2>11, <3>1 DEF field
      <3>2. CASE i # k + 1
        <4>1. i \in 1 .. k
          BY <3>2
        <4> QED
          BY <1>8, <2>11, <4>1
      <3> QED
        BY <3>1, <3>2
    <2> QED
      BY <2>5, <2>10, <2>11, <2>12 DEF items
  <1>9. Nat \subseteq Good
    <2>1. ASSUME NEW k \in Nat, k \in Good PROVE k + 1 \in Good
      <3>1. k + 1 <= n => k <= n
        BY <1>1
      <3> HIDE DEF Read
      <3> QED
        BY <1>8, <2>1, <3>1
    <2> HIDE DEF Good
    <2> QED
      BY <1>7, <2>1, NatSetInduction
  <1>10. Read(n)
    <2> HIDE DEF Read
    <2> QED
      BY <1>1, <1>9
  <1> QED
    BY <1>3, <1>4, <1>10 DEF n

-----------------------------------------------------------------------------
(* A transaction, read back *)

\* The fields of a transaction, without those that depend on a signature.
NumberField(n) == Field(FALSE, ToBytes(n))
NumbersOf(r) ==
    (IF r.type = "Eip1559" THEN <<r.network.chain_id>> ELSE <<>>) \o <<r.nonce>>
    \o (IF r.type = "Eip1559" THEN <<r.max_priority_fee, r.gas_price_or_max_fee>>
                              ELSE <<r.gas_price_or_max_fee>>)
    \o <<r.gas_limit>>
KeptFields(r) ==
    [i \in DOMAIN NumbersOf(r) |-> NumberField(NumbersOf(r)[i])]
    \o <<Field(FALSE, r.contract)>>
    \o <<NumberField(IF r.token = None THEN r.amount ELSE 0)>>
    \o <<Field(FALSE, r.data)>>
    \o IF r.type = "Eip1559" THEN <<Field(TRUE, <<>>)>> ELSE <<>>
Kept(r) == IF r.type = "Eip1559" THEN 9 ELSE 6

\* A field is a sequence of one field.
LEMMA OneField == ASSUME NEW f \in FieldSet PROVE <<f>> \in Seq(FieldSet) /\ Len(<<f>>) = 1
  OBVIOUS

\* Where the fields of two sequences stand when one follows the other.
LEMMA MoreFields ==
    ASSUME NEW x \in Seq(FieldSet), NEW y \in Seq(FieldSet)
    PROVE  /\ Len(x \o y) = Len(x) + Len(y) /\ Len(x) \in Nat /\ Len(y) \in Nat
           /\ \A i \in 1 .. Len(x) : (x \o y)[i] = x[i]
           /\ \A i \in 1 .. Len(y) : (x \o y)[Len(x) + i] = y[i]
  OBVIOUS

\* A number written spells the field that holds its bytes.
LEMMA NumberIsField ==
    ASSUME NEW n \in Nat
    PROVE  /\ NumberField(n) \in FieldSet /\ NumberField(n).data = ToBytes(n) /\ NumberField(n).list = FALSE
           /\ <<NumberField(n)>> \in Seq(FieldSet) /\ Spells(write_rlp_integer(n), <<NumberField(n)>>)
  <1>1. ToBytes(n) \in Seq(Nat)
    BY ToBytesType, ByteSeqs
  <1>2. NumberField(n) \in FieldSet /\ NumberField(n).data = ToBytes(n) /\ NumberField(n).list = FALSE
    BY <1>1 DEF NumberField, Field, FieldSet
  <1>3. Readable(write_rlp_integer(n), FALSE, ToBytes(n))
    BY ReadsNumber
  <1>4. Spells(write_rlp_integer(n), <<NumberField(n)>>)
    BY <1>3, SpellsOne, Zenon DEF NumberField
  <1>5. <<NumberField(n)>> \in Seq(FieldSet)
    BY <1>2
  <1> QED
    BY <1>2, <1>4, <1>5

\* Bytes written spell the field that holds them.
LEMMA BytesAreField ==
    ASSUME NEW data \in Seq(Nat)
    PROVE  /\ <<Field(FALSE, data)>> \in Seq(FieldSet)
           /\ Spells(write_rlp_bytes(data), <<Field(FALSE, data)>>)
  <1>1. Readable(write_rlp_bytes(data), FALSE, data)
    BY ReadsBytes
  <1>2. Spells(write_rlp_bytes(data), <<Field(FALSE, data)>>)
    BY <1>1, SpellsOne, Zenon
  <1>3. Field(FALSE, data) \in FieldSet
    BY DEF Field, FieldSet
  <1>4. <<Field(FALSE, data)>> \in Seq(FieldSet)
    BY <1>3, OneField, Zenon
  <1> QED
    BY <1>2, <1>4, Zenon

\* What comes before a signature spells the kept fields.
LEMMA KeptSpelled ==
    ASSUME NEW r, Written(r)
    PROVE  /\ KeptFields(r) \in Seq(FieldSet) /\ Len(KeptFields(r)) = Kept(r)
           /\ Spells(SignedFields(r), KeptFields(r))
  <1> DEFINE numbers == NumbersOf(r)
             texts == [i \in DOMAIN numbers |-> write_rlp_integer(numbers[i])]
             fields == [i \in DOMAIN numbers |-> NumberField(numbers[i])]
             amount == IF r.token = None THEN r.amount ELSE 0
             closing == IF r.type = "Eip1559" THEN write_rlp_list(<<>>) ELSE <<>>
             last == IF r.type = "Eip1559" THEN <<Field(TRUE, <<>>)>> ELSE <<>>
             a == <<Field(FALSE, r.contract)>>
             b == <<NumberField(amount)>>
             c == <<Field(FALSE, r.data)>>
  <1>1. numbers \in Seq(Nat) /\ Len(numbers) = IF r.type = "Eip1559" THEN 5 ELSE 3
    <2>1. CASE r.type = "Eip1559"
      <3>1. numbers = <<r.network.chain_id>> \o <<r.nonce>>
                      \o <<r.max_priority_fee, r.gas_price_or_max_fee>> \o <<r.gas_limit>>
        BY <2>1 DEF NumbersOf
      <3> HIDE DEF numbers
      <3> QED
        BY <2>1, <3>1 DEF Written
    <2>2. CASE r.type # "Eip1559"
      <3>1. numbers = <<>> \o <<r.nonce>> \o <<r.gas_price_or_max_fee>> \o <<r.gas_limit>>
        BY <2>2 DEF NumbersOf
      <3> HIDE DEF numbers
      <3> QED
        BY <2>2, <3>1 DEF Written
    <2> QED
      BY <2>1, <2>2
  <1> HIDE DEF numbers
  <1>2. DOMAIN numbers = 1 .. Len(numbers) /\ Len(numbers) \in Nat \ {0}
        /\ \A i \in 1 .. Len(numbers) : numbers[i] \in Nat
    <2>1. \A i \in 1 .. Len(numbers) : numbers[i] \in Nat
      BY <1>1, Elements
    <2>2. Len(numbers) \in {3, 5}
      BY <1>1, Zenon
    <2>3. Len(numbers) \in Nat \ {0} /\ DOMAIN numbers = 1 .. Len(numbers)
      <3>1. DOMAIN numbers = 1 .. Len(numbers)
        BY <1>1, LenProperties, Zenon
      <3>2. 3 \in Nat \ {0} /\ 5 \in Nat \ {0}
        OBVIOUS
      <3> QED
        BY <2>2, <3>1, <3>2, Zenon
    <2> QED
      BY <2>1, <2>3, Zenon
  <1>3. texts \in Seq(Seq(Nat)) /\ Len(texts) = Len(numbers)
        /\ fields \in Seq(FieldSet) /\ Len(fields) = Len(numbers)
    <2>1. \A i \in 1 .. Len(numbers) :
              write_rlp_integer(numbers[i]) \in Seq(Nat) /\ NumberField(numbers[i]) \in FieldSet
      BY <1>2, WrittenInteger, NumberIsField
    <2> QED
      BY <1>2, <2>1
  <1>4. \A i \in 1 .. Len(fields) : Readable(texts[i], fields[i].list, fields[i].data)
    <2> SUFFICES ASSUME NEW i \in 1 .. Len(numbers)
                 PROVE  Readable(texts[i], fields[i].list, fields[i].data)
      BY <1>3
    <2>1. numbers[i] \in Nat /\ texts[i] = write_rlp_integer(numbers[i])
          /\ fields[i] = NumberField(numbers[i])
      BY <1>2
    <2>2. Readable(write_rlp_integer(numbers[i]), FALSE, ToBytes(numbers[i]))
      BY <2>1, ReadsNumber
    <2>3. fields[i].data = ToBytes(numbers[i]) /\ fields[i].list = FALSE
      BY <2>1, NumberIsField
    <2> QED
      BY <2>1, <2>2, <2>3, Zenon
  <1> HIDE DEF texts, fields
  <1>5. Spells(FlattenSeq(texts), fields)
    BY <1>2, <1>3, <1>4, SpellsAll
  <1>6. amount \in Nat /\ r.contract \in Seq(Nat) /\ r.data \in Seq(Nat)
    BY DEF Written
  <1> HIDE DEF amount
  <1>7. /\ a \in Seq(FieldSet) /\ Spells(write_rlp_bytes(r.contract), a)
        /\ b \in Seq(FieldSet) /\ Spells(write_rlp_integer(amount), b)
        /\ c \in Seq(FieldSet) /\ Spells(write_rlp_bytes(r.data), c)
    BY <1>6, BytesAreField, NumberIsField, Zenon
  <1>8. last \in Seq(FieldSet) /\ Spells(closing, last) /\ Len(last) = IF r.type = "Eip1559" THEN 1 ELSE 0
    <2>1. CASE r.type = "Eip1559"
      <3>1. <<>> \in Seq(Nat)
        OBVIOUS
      <3>2. Readable(write_rlp_list(<<>>), TRUE, <<>>)
        BY <3>1, ReadsList, Zenon
      <3>3. Spells(write_rlp_list(<<>>), <<Field(TRUE, <<>>)>>)
        BY <3>2, SpellsOne, Zenon
      <3>4. Field(TRUE, <<>>) \in FieldSet
        BY DEF Field, FieldSet
      <3>5. last = <<Field(TRUE, <<>>)>> /\ closing = write_rlp_list(<<>>)
        BY <2>1
      <3>6. <<Field(TRUE, <<>>)>> \in Seq(FieldSet) /\ Len(<<Field(TRUE, <<>>)>>) = 1
        BY <3>4, OneField, Zenon
      <3>7. Len(last) = IF r.type = "Eip1559" THEN 1 ELSE 0
        BY <2>1, <3>5, <3>6, Zenon
      <3> HIDE DEF last, closing
      <3> QED
        BY <3>3, <3>5, <3>6, <3>7, Zenon
    <2>2. CASE r.type # "Eip1559"
      <3>1. last = <<>> /\ closing = <<>>
        BY <2>2
      <3>2. <<>> \in Seq(FieldSet) /\ Len(<<>>) = 0
        OBVIOUS
      <3> HIDE DEF last, closing
      <3> QED
        BY <2>2, <3>1, <3>2, SpellsNothing
    <2> QED
      BY <2>1, <2>2
  <1>9. SignedFields(r) = FlattenSeq(texts) \o write_rlp_bytes(r.contract) \o write_rlp_integer(amount)
                          \o write_rlp_bytes(r.data) \o closing
    BY DEF SignedFields, texts, numbers, amount, NumbersOf
  <1>10. KeptFields(r) = fields \o a \o b \o c \o last
    BY DEF KeptFields, fields, numbers, amount
  <1>11. Len(a) = 1 /\ Len(b) = 1 /\ Len(c) = 1
    OBVIOUS
  <1> HIDE DEF closing, last, a, b, c
  <1> DEFINE ta == write_rlp_bytes(r.contract)
             tb == write_rlp_integer(amount)
             tc == write_rlp_bytes(r.data)
             t == FlattenSeq(texts)
  <1> HIDE DEF ta, tb, tc, t
  <1>12. fields \o a \in Seq(FieldSet) /\ Spells(t \o ta, fields \o a)
    BY <1>3, <1>5, <1>7, SpellsBoth DEF t, ta
  <1>13. fields \o a \o b \in Seq(FieldSet) /\ Spells(t \o ta \o tb, fields \o a \o b)
    BY <1>7, <1>12, SpellsBoth DEF tb
  <1>14. fields \o a \o b \o c \in Seq(FieldSet) /\ Spells(t \o ta \o tb \o tc, fields \o a \o b \o c)
    BY <1>7, <1>13, SpellsBoth DEF tc
  <1>15. /\ fields \o a \o b \o c \o last \in Seq(FieldSet)
         /\ Spells(t \o ta \o tb \o tc \o closing, fields \o a \o b \o c \o last)
    BY <1>8, <1>14, SpellsBoth
  <1>16. Len(fields \o a \o b \o c \o last) = Len(fields) + 1 + 1 + 1 + Len(last)
    <2>1. Len(fields \o a) = Len(fields) + Len(a)
      BY <1>3, <1>7, MoreFields, Zenon
    <2>2. Len(fields \o a \o b) = Len(fields \o a) + Len(b)
      BY <1>7, <1>12, MoreFields, Zenon
    <2>3. Len(fields \o a \o b \o c) = Len(fields \o a \o b) + Len(c)
      BY <1>7, <1>13, MoreFields, Zenon
    <2>4. Len(fields \o a \o b \o c \o last) = Len(fields \o a \o b \o c) + Len(last)
      BY <1>8, <1>14, MoreFields, Zenon
    <2> QED
      BY <1>11, <2>1, <2>2, <2>3, <2>4, Zenon
  <1>17. Len(KeptFields(r)) = Kept(r)
    BY <1>1, <1>3, <1>8, <1>10, <1>16 DEF Kept
  <1> QED
    BY <1>9, <1>10, <1>15, <1>17, Zenon DEF t, ta, tb, tc

\* What follows the kept fields: the account's chain before, the signature after.
ThreeFields(x, y, z) == <<NumberField(x)>> \o <<NumberField(y)>> \o <<NumberField(z)>>
AddedFields(r, signature) ==
    CASE signature # None -> ThreeFields(RecoveryByte(r, signature), signature.r, signature.s)
      [] signature = None /\ r.type = "LegacyEip155" -> ThreeFields(r.network.chain_id, 0, 0)
      [] OTHER -> <<>>

\* Three numbers written one after the other spell their three fields.
LEMMA ThreeNumbers ==
    ASSUME NEW x \in Nat, NEW y \in Nat, NEW z \in Nat
    PROVE  /\ ThreeFields(x, y, z) \in Seq(FieldSet) /\ Len(ThreeFields(x, y, z)) = 3
           /\ ThreeFields(x, y, z)[1] = NumberField(x) /\ ThreeFields(x, y, z)[2] = NumberField(y)
           /\ ThreeFields(x, y, z)[3] = NumberField(z)
           /\ Spells(write_rlp_integer(x) \o write_rlp_integer(y) \o write_rlp_integer(z),
                     ThreeFields(x, y, z))
  <1> DEFINE a == <<NumberField(x)>>
             b == <<NumberField(y)>>
             c == <<NumberField(z)>>
             fields == a \o b \o c
  <1>0. ThreeFields(x, y, z) = fields
    BY DEF ThreeFields
  <1>1. /\ a \in Seq(FieldSet) /\ Spells(write_rlp_integer(x), a)
        /\ b \in Seq(FieldSet) /\ Spells(write_rlp_integer(y), b)
        /\ c \in Seq(FieldSet) /\ Spells(write_rlp_integer(z), c)
    BY NumberIsField, Zenon
  <1>2. a \o b \in Seq(FieldSet) /\ Spells(write_rlp_integer(x) \o write_rlp_integer(y), a \o b)
    BY <1>1, SpellsBoth, Zenon
  <1>3. /\ fields \in Seq(FieldSet)
        /\ Spells(write_rlp_integer(x) \o write_rlp_integer(y) \o write_rlp_integer(z), fields)
    BY <1>1, <1>2, SpellsBoth, Zenon
  <1>4. Len(a) = 1 /\ a[1] = NumberField(x) /\ Len(b) = 1 /\ b[1] = NumberField(y)
        /\ Len(c) = 1 /\ c[1] = NumberField(z)
    OBVIOUS
  <1> HIDE DEF a, b, c
  <1>5. Len(a \o b) = 2 /\ (a \o b)[1] = NumberField(x) /\ (a \o b)[2] = NumberField(y)
    <2>1. /\ Len(a \o b) = Len(a) + Len(b)
          /\ \A i \in 1 .. Len(a) : (a \o b)[i] = a[i]
          /\ \A i \in 1 .. Len(b) : (a \o b)[Len(a) + i] = b[i]
      BY <1>1, MoreFields, Zenon
    <2> QED
      BY <1>4, <2>1
  <1>6. Len(fields) = 3 /\ fields[1] = NumberField(x) /\ fields[2] = NumberField(y)
        /\ fields[3] = NumberField(z)
    <2> DEFINE ab == a \o b
    <2>1. ab \in Seq(FieldSet) /\ Len(ab) = 2 /\ ab[1] = NumberField(x) /\ ab[2] = NumberField(y)
      BY <1>2, <1>5
    <2>2. fields = ab \o c
      OBVIOUS
    <2> HIDE DEF ab, fields
    <2>3. /\ Len(fields) = Len(ab) + Len(c)
          /\ \A i \in 1 .. Len(ab) : fields[i] = ab[i]
          /\ \A i \in 1 .. Len(c) : fields[Len(ab) + i] = c[i]
      BY <1>1, <2>1, <2>2, MoreFields, Zenon
    <2> QED
      BY <1>4, <2>1, <2>3
  <1> QED
    BY <1>0, <1>3, <1>6, Zenon

\* A transaction's whole payload, with or without a signature, is read back.
LEMMA PayloadReadBack ==
    ASSUME NEW r, Written(r), r.type \in {"Eip1559", "LegacyEip155"}, NEW signature,
           signature = None \/ (signature # None /\ RecoveryByte(r, signature) \in Nat
                                /\ signature.r \in Nat /\ signature.s \in Nat),
           Len(serialize_transaction(r, signature)) < Weight[SizeBytes]
    PROVE  LET bytes == serialize_transaction(r, signature)
               outer == read_rlp_item(IF r.type = "Eip1559" THEN Tail(bytes) ELSE bytes)
               fields == KeptFields(r) \o AddedFields(r, signature)
               read == ReadItems(outer.data, Len(fields))
           IN  /\ fields \in Seq(FieldSet) /\ Len(fields) = Kept(r) + Len(AddedFields(r, signature))
               /\ AddedFields(r, signature) \in Seq(FieldSet)
               /\ outer.ok /\ outer.list /\ outer.rest = <<>>
               /\ read.ok /\ read.rest = <<>> /\ Len(read.items) = Len(fields)
               /\ \A i \in 1 .. Len(fields) : read.items[i].data = fields[i].data
               /\ \A i \in 1 .. Len(fields) : read.items[i].list = fields[i].list
  <1> DEFINE bytes == serialize_transaction(r, signature)
             outer == read_rlp_item(IF r.type = "Eip1559" THEN Tail(bytes) ELSE bytes)
             kept == KeptFields(r)
             added == AddedFields(r, signature)
             fields == kept \o added
             payload == SignedFields(r) \o SignatureFields(r, signature)
             list == write_rlp_list(payload)
             w == Weight[SizeBytes]
  <1>1. kept \in Seq(FieldSet) /\ Len(kept) = Kept(r) /\ Spells(SignedFields(r), kept)
    BY KeptSpelled
  <1>2. added \in Seq(FieldSet) /\ Spells(SignatureFields(r, signature), added)
    <2>1. CASE signature # None
      <3>1. added = ThreeFields(RecoveryByte(r, signature), signature.r, signature.s)
        BY <2>1, Zenon DEF AddedFields
      <3>2. SignatureFields(r, signature) = write_rlp_integer(RecoveryByte(r, signature))
                \o write_rlp_integer(signature.r) \o write_rlp_integer(signature.s)
        BY <2>1, Zenon DEF SignatureFields
      <3> DEFINE x == RecoveryByte(r, signature)
                 y == signature.r
                 z == signature.s
      <3>3. x \in Nat /\ y \in Nat /\ z \in Nat
        BY <2>1
      <3> HIDE DEF x, y, z
      <3>4. /\ ThreeFields(x, y, z) \in Seq(FieldSet)
            /\ Spells(write_rlp_integer(x) \o write_rlp_integer(y) \o write_rlp_integer(z),
                      ThreeFields(x, y, z))
        BY <3>3, ThreeNumbers
      <3> QED
        BY <3>1, <3>2, <3>4, Zenon DEF x, y, z
    <2>2. CASE signature = None /\ r.type = "LegacyEip155"
      <3>1. added = ThreeFields(r.network.chain_id, 0, 0)
        BY <2>2, Zenon DEF AddedFields
      <3>2. SignatureFields(r, signature) =
                write_rlp_integer(r.network.chain_id) \o write_rlp_integer(0) \o write_rlp_integer(0)
        BY <2>2, Zenon DEF SignatureFields
      <3>3. r.network.chain_id \in Nat /\ 0 \in Nat
        BY DEF Written
      <3> DEFINE x == r.network.chain_id
      <3> HIDE DEF x
      <3>4. /\ ThreeFields(x, 0, 0) \in Seq(FieldSet)
            /\ Spells(write_rlp_integer(x) \o write_rlp_integer(0) \o write_rlp_integer(0),
                      ThreeFields(x, 0, 0))
        BY <3>3, ThreeNumbers DEF x
      <3> QED
        BY <3>1, <3>2, <3>4, Zenon DEF x
    <2>3. CASE signature = None /\ r.type # "LegacyEip155"
      <3>1. added = <<>> /\ SignatureFields(r, signature) = <<>>
        BY <2>3, Zenon DEF AddedFields, SignatureFields
      <3>2. <<>> \in Seq(FieldSet)
        OBVIOUS
      <3> QED
        BY <3>1, <3>2, SpellsNothing, Zenon
    <2> QED
      BY <2>1, <2>2, <2>3
  <1>3. fields \in Seq(FieldSet) /\ Spells(payload, fields)
    BY <1>1, <1>2, SpellsBoth, Zenon
  <1>4. Len(fields) = Kept(r) + Len(added)
    BY <1>1, <1>2, MoreFields, Zenon
  <1>5. payload \in Seq(Nat)
    BY <1>3, SpelledIsText, Zenon
  <1> HIDE DEF payload, fields, kept, added
  <1>6. list \in Seq(Nat) /\ Len(list) >= 1 + Len(payload) /\ Readable(list, TRUE, payload)
    <2>1. Readable(list, TRUE, payload)
      BY <1>5, ReadsList, Zenon
    <2>2. list \in Seq(Nat) /\ Len(list) >= 1 + Len(payload)
      BY <1>5, WrittenList
    <2> QED
      BY <2>1, <2>2, Zenon
  <1>7. bytes = (IF r.type = "Eip1559" THEN <<Eip1559Type>> ELSE <<>>) \o list
    BY DEF serialize_transaction, payload
  <1>8. Len(bytes) < w /\ w \in Nat
    BY BaseType, WeightRecursion
  <1> HIDE DEF list, bytes, w
  <1>9. (IF r.type = "Eip1559" THEN Tail(bytes) ELSE bytes) = list /\ Len(list) <= Len(bytes)
        /\ Len(list) \in Nat /\ Len(bytes) \in Nat /\ Len(payload) \in Nat
    <2>1. CASE r.type = "Eip1559"
      <3> DEFINE first == <<Eip1559Type>>
      <3>1. first \in Seq(Nat) /\ Len(first) = 1
        BY DEF Eip1559Type
      <3>2. bytes = first \o list
        BY <1>7, <2>1, Zenon
      <3> HIDE DEF first
      <3>3. Tail(bytes) = list
        BY <1>6, <3>1, <3>2, AfterOne
      <3>4. Len(bytes) = 1 + Len(list)
        <4>1. Len(first \o list) = Len(first) + Len(list)
          BY <1>6, <3>1, LaidTogether, Zenon
        <4> QED
          BY <3>1, <3>2, <4>1, Zenon
      <3>5. Len(list) \in Nat /\ Len(payload) \in Nat
        BY <1>5, <1>6
      <3> QED
        BY <2>1, <3>3, <3>4, <3>5
    <2>2. CASE r.type # "Eip1559"
      <3>1. bytes = <<>> \o list
        BY <1>7, <2>2, Zenon
      <3>2. bytes = list
        BY <1>6, <3>1
      <3>3. Len(list) \in Nat /\ Len(payload) \in Nat
        BY <1>5, <1>6
      <3> QED
        BY <2>2, <3>2, <3>3
    <2> QED
      BY <2>1, <2>2
  <1>10. read_rlp_item(list) = Item(TRUE, payload, <<>>)
    <2>1. <<>> \in Seq(Nat) /\ Len(<<>>) = 0 /\ list \o <<>> = list
      BY <1>6
    <2>2. Len(list) + Len(<<>>) < Weight[SizeBytes]
      BY <1>8, <1>9, <2>1 DEF w
    <2> QED
      BY <1>6, <2>1, <2>2, Zenon DEF Readable
  <1>11. outer.data = payload /\ outer.ok /\ outer.list /\ outer.rest = <<>>
    <2> DEFINE item == Item(TRUE, payload, <<>>)
    <2>1. item.data = payload /\ item.ok /\ item.list /\ item.rest = <<>>
      BY DEF Item
    <2>2. outer = item
      BY <1>9, <1>10, Zenon
    <2> HIDE DEF item, outer
    <2> QED
      BY <2>1, <2>2, Zenon
  <1>12. Len(payload) < Weight[SizeBytes]
    BY <1>6, <1>8, <1>9 DEF w
  <1> HIDE DEF outer
  <1>13. LET read == ReadItems(outer.data, Len(fields))
         IN  /\ read.ok /\ read.rest = <<>> /\ Len(read.items) = Len(fields)
             /\ \A i \in 1 .. Len(fields) : read.items[i].data = fields[i].data
             /\ \A i \in 1 .. Len(fields) : read.items[i].list = fields[i].list
    BY <1>3, <1>11, <1>12, ReadsSpelled, Zenon
  <1> QED
    BY <1>2, <1>3, <1>4, <1>11, <1>13, Zenon DEF outer, bytes, fields, kept, added

\* What the unsigned serialization adds to the kept fields makes nine of them, for both types.
LEMMA AddedIs ==
    ASSUME NEW r, Written(r), r.type \in {"Eip1559", "LegacyEip155"}
    PROVE  Kept(r) \in Nat /\ Kept(r) + Len(AddedFields(r, None)) = 9
  <1>1. CASE r.type = "Eip1559"
    <2>1. AddedFields(r, None) = <<>> /\ Kept(r) = 9
      BY <1>1, Zenon DEF AddedFields, Kept
    <2> QED
      BY <2>1
  <1>2. CASE r.type = "LegacyEip155"
    <2>1. AddedFields(r, None) = ThreeFields(r.network.chain_id, 0, 0)
      BY <1>2, Zenon DEF AddedFields
    <2>2. r.network.chain_id \in Nat /\ 0 \in Nat
      BY DEF Written
    <2> DEFINE x == r.network.chain_id
    <2> HIDE DEF x
    <2>3. Len(ThreeFields(x, 0, 0)) = 3
      BY <2>2, ThreeNumbers DEF x
    <2>4. Kept(r) = 6
      BY <1>2 DEF Kept
    <2> QED
      <3>1. Len(AddedFields(r, None)) = 3
        BY <2>1, <2>3, Zenon DEF x
      <3> QED
        BY <2>4, <3>1
  <1> QED
    BY <1>1, <1>2

\* The kept fields are those that were there before, the numbers after them are the
\* recovery byte and the halves.
LEMMA FieldsReadBack ==
    ASSUME NEW r, Written(r), r.type \in {"Eip1559", "LegacyEip155"}, NEW signature, signature # None,
           RecoveryByte(r, signature) \in Nat, signature.r \in Nat, signature.s \in Nat,
           Len(serialize_transaction(r, None)) < Weight[SizeBytes],
           Len(serialize_transaction(r, signature)) < Weight[SizeBytes]
    PROVE  LET Body(bytes) == read_rlp_item(IF r.type = "Eip1559" THEN Tail(bytes) ELSE bytes).data
               before == ReadItems(Body(serialize_transaction(r, None)), 9).items
               after == ReadItems(Body(serialize_transaction(r, signature)), Kept(r) + 3)
           IN  /\ after.ok /\ after.rest = <<>>
               /\ \A i \in 1 .. Kept(r) : after.items[i].data = before[i].data
               /\ Value(after.items[Kept(r) + 1].data) = RecoveryByte(r, signature)
               /\ Value(after.items[Kept(r) + 2].data) = signature.r
               /\ Value(after.items[Kept(r) + 3].data) = signature.s
  <1> DEFINE Body(bytes) == read_rlp_item(IF r.type = "Eip1559" THEN Tail(bytes) ELSE bytes).data
             old == Body(serialize_transaction(r, None))
             new == Body(serialize_transaction(r, signature))
             before == ReadItems(old, 9).items
             after == ReadItems(new, Kept(r) + 3)
             kept == KeptFields(r)
             none == AddedFields(r, None)
             added == AddedFields(r, signature)
             x == RecoveryByte(r, signature)
             y == signature.r
             z == signature.s
  <1>1. kept \in Seq(FieldSet) /\ Len(kept) = Kept(r)
    BY KeptSpelled
  <1>2. /\ kept \o none \in Seq(FieldSet) /\ none \in Seq(FieldSet)
        /\ Len(kept \o none) = Kept(r) + Len(none)
        /\ \A i \in 1 .. Len(kept \o none) :
               ReadItems(old, Len(kept \o none)).items[i].data = (kept \o none)[i].data
    BY PayloadReadBack, Zenon
  <1>3. /\ kept \o added \in Seq(FieldSet) /\ added \in Seq(FieldSet)
        /\ Len(kept \o added) = Kept(r) + Len(added)
        /\ ReadItems(new, Len(kept \o added)).ok /\ ReadItems(new, Len(kept \o added)).rest = <<>>
        /\ \A i \in 1 .. Len(kept \o added) :
               ReadItems(new, Len(kept \o added)).items[i].data = (kept \o added)[i].data
    BY PayloadReadBack, Zenon
  <1>4. Kept(r) \in Nat /\ Kept(r) + Len(none) = 9
    BY AddedIs
  <1>5. added = ThreeFields(x, y, z)
    BY Zenon DEF AddedFields
  <1>6. x \in Nat /\ y \in Nat /\ z \in Nat
    OBVIOUS
  <1> HIDE DEF x, y, z, old, new, kept, none
  <1>7. Len(added) = 3 /\ added[1] = NumberField(x) /\ added[2] = NumberField(y) /\ added[3] = NumberField(z)
    <2> DEFINE all == ThreeFields(x, y, z)
    <2>1. Len(all) = 3 /\ all[1] = NumberField(x) /\ all[2] = NumberField(y) /\ all[3] = NumberField(z)
      <3>1. Len(ThreeFields(x, y, z)) = 3
        BY <1>6, ThreeNumbers
      <3>2. ThreeFields(x, y, z)[1] = NumberField(x)
        BY <1>6, ThreeNumbers
      <3>3. ThreeFields(x, y, z)[2] = NumberField(y)
        BY <1>6, ThreeNumbers
      <3>4. ThreeFields(x, y, z)[3] = NumberField(z)
        BY <1>6, ThreeNumbers
      <3> QED
        BY <3>1, <3>2, <3>3, <3>4
    <2> HIDE DEF added, all
    <2> QED
      BY <1>5, <2>1, Zenon DEF all
  <1> HIDE DEF added
  <1>8. /\ \A i \in 1 .. Len(kept) : (kept \o none)[i] = kept[i]
        /\ \A i \in 1 .. Len(kept) : (kept \o added)[i] = kept[i]
        /\ \A i \in 1 .. Len(added) : (kept \o added)[Len(kept) + i] = added[i]
    BY <1>1, <1>2, <1>3, MoreFields, Zenon
  <1>9. Len(kept \o none) = 9 /\ Len(kept \o added) = Kept(r) + 3
    BY <1>2, <1>3, <1>4, <1>7
  <1>10. /\ after.ok /\ after.rest = <<>>
         /\ \A i \in 1 .. Kept(r) + 3 : after.items[i].data = (kept \o added)[i].data
         /\ \A i \in 1 .. 9 : before[i].data = (kept \o none)[i].data
    BY <1>2, <1>3, <1>9, Zenon
  <1> HIDE DEF after, before
  <1>11. Len(none) \in Nat /\ Kept(r) <= 9
    <2>1. Len(none) \in Nat
      BY <1>2, LenProperties
    <2> QED
      BY <1>4, <2>1
  <1>12. ASSUME NEW i \in 1 .. Kept(r) PROVE after.items[i].data = before[i].data
    <2>1. i \in 1 .. Kept(r) + 3 /\ i \in 1 .. 9 /\ i \in 1 .. Len(kept)
      BY <1>1, <1>4, <1>11
    <2>2. after.items[i].data = kept[i].data
      BY <1>8, <1>10, <2>1, Zenon
    <2>3. before[i].data = kept[i].data
      BY <1>8, <1>10, <2>1, Zenon
    <2> QED
      BY <2>2, <2>3, Zenon
  <1>13. ASSUME NEW i \in 1 .. 3 PROVE after.items[Kept(r) + i].data = added[i].data
    <2>1. Kept(r) + i \in 1 .. Kept(r) + 3
      BY ONLY <1>4, i \in 1 .. 3
    <2>2. i \in 1 .. Len(added)
      BY ONLY <1>7, i \in 1 .. 3, Zenon
    <2>3. after.items[Kept(r) + i].data = (kept \o added)[Kept(r) + i].data
      BY ONLY <1>10, <2>1, Zenon
    <2>4. (kept \o added)[Len(kept) + i] = added[i]
      BY ONLY <1>8, <2>2, Zenon
    <2> QED
      BY ONLY <1>1, <2>3, <2>4, Zenon
  <1>14. 1 \in 1 .. 3 /\ 2 \in 1 .. 3 /\ 3 \in 1 .. 3
    OBVIOUS
  <1>15. /\ after.items[Kept(r) + 1].data = ToBytes(x) /\ after.items[Kept(r) + 2].data = ToBytes(y)
         /\ after.items[Kept(r) + 3].data = ToBytes(z)
    BY <1>6, <1>7, <1>13, <1>14, NumberIsField, Zenon
  <1>16. /\ Value(after.items[Kept(r) + 1].data) = x /\ Value(after.items[Kept(r) + 2].data) = y
         /\ Value(after.items[Kept(r) + 3].data) = z
    BY <1>6, <1>15, ValueOfBytes, Zenon
  <1> QED
    BY <1>10, <1>12, <1>16, Zenon DEF after, before, old, new, x, y, z

-----------------------------------------------------------------------------
(* Amounts as text *)

\* What a function on the first numbers is as a string.
LEMMA AsString ==
    ASSUME NEW n \in Nat, NEW s, s = [i \in 1 .. n |-> s[i]], \A i \in 1 .. n : s[i] \in Nat
    PROVE  s \in Seq(Nat) /\ Len(s) = n /\ DOMAIN s = 1 .. n
  <1>1. s \in [1 .. n -> Nat] /\ DOMAIN s = 1 .. n
    OBVIOUS
  <1>2. s \in Seq(Nat)
    BY <1>1
  <1> QED
    BY <1>1, <1>2

\* The powers of ten.
LEMMA TensArePowers == PowersOf(TenTo, 10)
  <1>1. TenTo = CHOOSE f : f = [k \in Nat |-> IF k = 0 THEN 1 ELSE 10 * f[k - 1]]
    BY DEF TenTo
  <1>2. 10 \in Nat
    OBVIOUS
  <1> QED
    BY <1>1, <1>2, PowersAre

\* A number has enough decimal digits, and they are its digits.
LEMMA DecimalIs ==
    ASSUME NEW n \in Nat
    PROVE  /\ Decimal(n) \in Seq(Nat) /\ Len(Decimal(n)) \in Nat \ {0} /\ n < TenTo[Len(Decimal(n))]
           /\ DigitsOf(Decimal(n), n, 10, TenTo)
           /\ \A i \in 1 .. Len(Decimal(n)) : Decimal(n)[i] < 10
  <1> DEFINE Suffices(k) == n < TenTo[k] /\ (k = 1 \/ n >= TenTo[k - 1])
             D == DecimalDigits(n)
             text == Decimal(n)
  <1>1. 10 \in Nat /\ 10 >= 2
    OBVIOUS
  <1>2. \A k \in Nat : TenTo[k] \in Nat /\ TenTo[k] > 0 /\ TenTo[k] > k
    BY <1>1, TensArePowers, PowersGrow
  <1>3. \E k \in 1 .. n + 1 : Suffices(k)
    <2>1. PICK k \in 0 .. n : n < TenTo[k] /\ (k = 0 \/ n >= TenTo[k - 1])
      BY <1>1, TensArePowers, LeastPower
    <2>2. CASE k = 0
      <3>1. n < TenTo[1] /\ 1 \in 1 .. n + 1
        <4>1. TenTo[0] = 1 /\ TenTo[1] > 1 /\ TenTo[1] \in Nat
          BY <1>2, TensArePowers DEF PowersOf
        <4> QED
          BY <2>1, <2>2, <4>1
      <3> QED
        BY <3>1
    <2>3. CASE k # 0
      <3>1. k \in 1 .. n + 1
        BY <2>3
      <3> QED
        BY <2>1, <2>3, <3>1
    <2> QED
      BY <2>2, <2>3
  <1>4. D = CHOOSE k \in 1 .. n + 1 : Suffices(k)
    BY DEF DecimalDigits
  <1> HIDE DEF Suffices
  <1>5. D \in 1 .. n + 1 /\ Suffices(D)
    <2> HIDE DEF D
    <2> QED
      BY <1>3, <1>4
  <1>6. text = [i \in 1 .. D |-> (n \div TenTo[D - i]) % 10]
    BY DEF Decimal
  <1> HIDE DEF D, text
  <1>7. D \in Nat \ {0} /\ n < TenTo[D]
    BY <1>5 DEF Suffices
  <1>8. ASSUME NEW i \in 1 .. D PROVE (n \div TenTo[D - i]) % 10 \in 0 .. 9
    <2>1. D - i \in Nat
      BY <1>7
    <2>2. TenTo[D - i] \in Nat \ {0}
      BY <1>2, <2>1
    <2>3. \A d \in Nat \ {0} : (n \div d) % 10 \in 0 .. 9
      OBVIOUS
    <2> QED
      BY <2>2, <2>3
  <1>9. text \in Seq(Nat) /\ Len(text) = D /\ \A i \in 1 .. D : text[i] < 10
    <2>1. \A i \in 1 .. D : text[i] \in 0 .. 9
      BY <1>6, <1>8
    <2>2. DOMAIN text = 1 .. D /\ text = [i \in 1 .. D |-> text[i]]
      BY <1>6
    <2>3. \A x \in 0 .. 9 : x \in Nat /\ x < 10
      OBVIOUS
    <2>4. \A i \in 1 .. D : text[i] \in Nat /\ text[i] < 10
      BY <2>1, <2>3
    <2>5. text \in Seq(Nat) /\ Len(text) = D
      BY <1>7, <2>2, <2>4, AsString
    <2> QED
      BY <2>4, <2>5
  <1>10. DigitsOf(text, n, 10, TenTo)
    BY <1>6, <1>7, <1>9 DEF DigitsOf
  <1> QED
    BY <1>7, <1>9, <1>10 DEF text

\* Without a symbol at its end a text is the part up to the last other symbol.
LEMMA WithoutIs ==
    ASSUME NEW text \in Seq(Nat), NEW symbol
    PROVE  \E m \in 0 .. Len(text) :
               /\ Without(text, symbol) = SubSeq(text, 1, m)
               /\ m # 0 => text[m] # symbol
               /\ \A j \in m + 1 .. Len(text) : text[j] = symbol
  <1> DEFINE L == Len(text)
             Other == {i \in 1 .. L : text[i] # symbol}
  <1>1. L \in Nat /\ DOMAIN text = 1 .. L
    OBVIOUS
  <1>2. PICK m \in 0 .. L : (m # 0 => m \in Other) /\ \A i \in Other : i <= m
    <2>1. CASE Other = {}
      <3>1. 0 \in 0 .. L
        BY <1>1
      <3> QED
        BY <2>1, <3>1
    <2>2. CASE Other # {}
      <3>1. Max(Other) \in Other /\ \A i \in Other : Max(Other) >= i
        BY <1>1, <2>2, MaxIsLargest
      <3>2. Max(Other) \in 0 .. L /\ \A i \in Other : i <= Max(Other)
        <4> DEFINE k == Max(Other)
        <4> HIDE DEF k
        <4>1. k \in Other /\ \A i \in Other : k >= i
          BY <3>1 DEF k
        <4>2. k \in 0 .. L /\ \A i \in Other : i <= k
          BY <1>1, <4>1
        <4> QED
          BY <4>2 DEF k
      <3> QED
        BY <3>1, <3>2
    <2> QED
      BY <2>1, <2>2
  <1>3. m \in Nat /\ (m # 0 => text[m] # symbol) /\ \A j \in m + 1 .. L : text[j] = symbol
    BY <1>1, <1>2
  <1> HIDE DEF Other
  <1>4. LastOther(text, symbol) = m + 1 .. L
    <2>1. ASSUME NEW i \in 1 .. L, \A j \in i .. L : text[j] = symbol PROVE i \in m + 1 .. L
      <3>1. ~(i <= m)
        <4>1. i <= m => m \in i .. L /\ m # 0
          BY <1>1, <1>3
        <4> QED
          BY <1>3, <2>1, <4>1
      <3> QED
        BY <1>1, <1>3, <3>1
    <2>2. ASSUME NEW i \in m + 1 .. L PROVE i \in 1 .. L /\ \A j \in i .. L : text[j] = symbol
      <3>1. i \in 1 .. L /\ \A j \in i .. L : j \in m + 1 .. L
        BY <1>1, <1>3
      <3> QED
        BY <1>3, <3>1
    <2> HIDE DEF L
    <2> QED
      BY <1>1, <2>1, <2>2 DEF LastOther, L
  <1>5. Cardinality(m + 1 .. L) = L - m
    <2>1. m + 1 \in Int /\ L \in Int
      BY <1>1, <1>3
    <2>2. Cardinality(m + 1 .. L) = IF m + 1 > L THEN 0 ELSE L - (m + 1) + 1
      BY <2>1, FS_Interval
    <2> HIDE DEF L
    <2>3. m <= L
      BY <1>1, <1>2
    <2> QED
      BY <1>1, <1>3, <2>2, <2>3
  <1>6. L - (L - m) = m
    BY <1>1, <1>3
  <1>7. Without(text, symbol) = SubSeq(text, 1, m)
    BY <1>4, <1>5, <1>6 DEF Without
  <1> QED
    BY <1>2, <1>3, <1>7

\* A text of digits with the point after the first p of them.
Pointed(text, digits, p) ==
    /\ text \in Seq(Nat) /\ Len(text) = Len(digits) + 1
    /\ \A i \in 1 .. p : text[i] = digits[i]
    /\ text[p + 1] = Point
    /\ \A i \in p + 1 .. Len(digits) : text[i + 1] = digits[i]

\* A trimmed text keeps its whole part, and the point only where a digit follows it.
LEMMA TrimIs ==
    ASSUME NEW digits \in Seq(Nat), \A i \in 1 .. Len(digits) : digits[i] < 10,
           NEW p \in 1 .. Len(digits), NEW text, Pointed(text, digits, p),
           NEW decimals \in Nat \ {0}
    PROVE  \E m \in p .. Len(text) :
               /\ Trim(text, decimals) = SubSeq(text, 1, m) /\ m # p + 1
               /\ \A j \in m + 1 .. Len(text) : j > p + 1 => text[j] = 0
  <1>1. /\ text \in Seq(Nat) /\ Len(text) = Len(digits) + 1 /\ Len(digits) \in Nat /\ p \in Nat
        /\ text[p + 1] = Point /\ p <= Len(digits) /\ p >= 1
    BY DEF Pointed
  <1>2. \A i \in 1 .. Len(digits) : digits[i] # Point
    BY DEF Point
  <1>3. text[p] # Point /\ \A j \in p + 2 .. Len(text) : text[j] # Point
    <2>1. text[p] = digits[p] /\ p \in 1 .. Len(digits)
      BY <1>1 DEF Pointed
    <2>2. ASSUME NEW j \in p + 2 .. Len(text) PROVE text[j] # Point
      <3>1. j - 1 \in p + 1 .. Len(digits) /\ (j - 1) + 1 = j /\ j - 1 \in 1 .. Len(digits)
        BY <1>1
      <3>2. text[j] = digits[j - 1]
        BY <3>1 DEF Pointed
      <3> QED
        BY <1>2, <3>1, <3>2
    <2> QED
      BY <1>2, <2>1, <2>2
  <1>4. PICK m \in 0 .. Len(text) :
           /\ Without(text, 0) = SubSeq(text, 1, m)
           /\ \A j \in m + 1 .. Len(text) : text[j] = 0
    BY <1>1, WithoutIs
  <1>5. m \in Nat /\ m <= Len(text) /\ m >= p + 1
    <2>1. m \in Nat /\ m <= Len(text)
      BY <1>1
    <2>2. ~(p + 1 \in m + 1 .. Len(text))
      <3>1. p + 1 \in m + 1 .. Len(text) => text[p + 1] = 0
        BY <1>4
      <3>2. text[p + 1] = 10
        BY <1>1 DEF Point
      <3> QED
        BY <3>1, <3>2
    <2> QED
      BY <1>1, <2>1, <2>2
  <1> DEFINE cut == SubSeq(text, 1, m)
  <1>6. cut \in Seq(Nat) /\ Len(cut) = m /\ \A i \in 1 .. m : cut[i] = text[i]
    <2>1. FirstOf(cut, text, m)
      BY <1>1, <1>5, FirstPart, Zenon
    <2> HIDE DEF cut
    <2> QED
      BY ONLY <2>1 DEF FirstOf
  <1> HIDE DEF cut
  <1>7. PICK k \in 0 .. m :
           /\ Without(cut, Point) = SubSeq(cut, 1, k)
           /\ k # 0 => cut[k] # Point
           /\ \A j \in k + 1 .. m : cut[j] = Point
    BY <1>6, WithoutIs
  <1>8. SubSeq(cut, 1, k) = SubSeq(text, 1, k)
    <2>1. k \in Nat /\ k <= m
      BY <1>5
    <2> DEFINE a == SubSeq(cut, 1, k)
               b == SubSeq(text, 1, k)
    <2>2. a = SubSeq(cut, 1, k) /\ b = SubSeq(text, 1, k) /\ k <= Len(cut) /\ k <= Len(text)
      BY <1>1, <1>5, <1>6, <2>1
    <2> HIDE DEF a, b
    <2>3. /\ a \in Seq(Nat) /\ Len(a) = k /\ \A i \in 1 .. k : a[i] = cut[i]
          /\ b \in Seq(Nat) /\ Len(b) = k /\ \A i \in 1 .. k : b[i] = text[i]
      <3>1. FirstOf(SubSeq(cut, 1, k), cut, k) /\ FirstOf(SubSeq(text, 1, k), text, k)
        BY <1>1, <1>6, <2>1, <2>2, FirstPart, Zenon
      <3>2. FirstOf(a, cut, k) /\ FirstOf(b, text, k)
        BY ONLY <2>2, <3>1, Zenon
      <3> QED
        BY ONLY <3>2 DEF FirstOf
    <2>4. \A i \in 1 .. k : i \in 1 .. m
      BY <1>5, <2>1
    <2>5. a = b
      <3>1. \A i \in 1 .. k : a[i] = b[i]
        BY ONLY <1>6, <2>3, <2>4, Zenon
      <3> QED
        BY ONLY <2>3, <3>1, SameElements
    <2> QED
      BY <2>5 DEF a, b
  <1>9. Trim(text, decimals) = SubSeq(text, 1, k)
    <2>1. Trim(text, decimals) = Without(Without(text, 0), Point)
      BY DEF Trim
    <2> QED
      BY ONLY <1>4, <1>7, <1>8, <2>1, Zenon DEF cut
  <1>10. k \in Nat /\ k <= m
    BY <1>5
  <1>11. CASE m = p + 1
    <2>1. cut[p + 1] = Point /\ cut[p] # Point
      <3>1. p + 1 \in 1 .. m /\ p \in 1 .. m
        BY ONLY <1>1, <1>5
      <3>2. cut[p + 1] = text[p + 1] /\ cut[p] = text[p]
        BY ONLY <1>6, <3>1, Zenon
      <3> QED
        BY ONLY <1>1, <1>3, <3>2, Zenon
    <2>2. k = p
      <3>1. k # p + 1
        BY <1>1, <1>7, <2>1
      <3>2. ~(k < p)
        <4>1. k < p => p \in k + 1 .. m
          BY <1>1, <1>10, <1>11
        <4> QED
          BY <1>7, <2>1, <4>1
      <3> QED
        BY <1>1, <1>10, <1>11, <3>1, <3>2
    <2>3. p \in p .. Len(text) /\ p # p + 1 /\ \A j \in p + 1 .. Len(text) : j > p + 1 => j \in m + 1 .. Len(text)
      BY <1>1, <1>11
    <2> QED
      BY <1>4, <1>9, <2>2, <2>3
  <1>12. CASE m # p + 1
    <2>1. cut[m] # Point
      <3>1. m \in p + 2 .. Len(text) /\ m \in 1 .. m
        BY <1>1, <1>5, <1>12
      <3> QED
        BY <1>3, <1>6, <3>1
    <2>2. k = m
      <3>1. k < m => m \in k + 1 .. m
        BY <1>5, <1>10
      <3> QED
        BY <1>5, <1>7, <1>10, <2>1, <3>1
    <2>3. m \in p .. Len(text)
      BY <1>1, <1>5
    <2> QED
      BY <1>4, <1>9, <1>12, <2>2, <2>3
  <1> QED
    BY <1>11, <1>12

\* What two strings, and three, are when they are laid end to end, place by place.
InTwo(s, x, y) ==
    /\ s \in Seq(Nat) /\ Len(s) = Len(x) + Len(y)
    /\ \A i \in 1 .. Len(x) : s[i] = x[i]
    /\ \A i \in 1 .. Len(y) : s[Len(x) + i] = y[i]
InThree(s, x, y, z) ==
    /\ s \in Seq(Nat) /\ Len(s) = Len(x) + Len(y) + Len(z)
    /\ \A i \in 1 .. Len(x) : s[i] = x[i]
    /\ \A i \in 1 .. Len(y) : s[Len(x) + i] = y[i]
    /\ \A i \in 1 .. Len(z) : s[Len(x) + Len(y) + i] = z[i]

\* Concatenation lays them so.
LEMMA TwoLaid == ASSUME NEW x \in Seq(Nat), NEW y \in Seq(Nat) PROVE InTwo(x \o y, x, y)
  BY DEF InTwo

\* And three of them.
LEMMA ThreeLaid ==
    ASSUME NEW x \in Seq(Nat), NEW y \in Seq(Nat), NEW z \in Seq(Nat)
    PROVE  InThree(x \o y \o z, x, y, z)
  BY DEF InThree

\* What follows the point of a text, if anything does.
LEMMA AfterPoint ==
    ASSUME NEW t \in Seq(Nat), NEW p \in Nat, NEW m \in Nat, m = Len(t), m >= p, m # p + 1
    PROVE  LET size == IF m = p THEN 0 ELSE m - p - 1
           IN  /\ SubSeq(t, p + 2, m) \in Seq(Nat) /\ Len(SubSeq(t, p + 2, m)) = size
               /\ \A i \in 1 .. size : SubSeq(t, p + 2, m)[i] = t[p + 1 + i]
  <1>1. m <= Len(t) /\ p + 2 \in Nat \ {0}
    OBVIOUS
  <1>2. SUFFICES ASSUME NEW k, k = p + 2, k \in Nat \ {0}, NEW part, part = SubSeq(t, k, m)
                 PROVE  /\ part \in Seq(Nat) /\ Len(part) = IF m = p THEN 0 ELSE m - p - 1
                        /\ \A i \in 1 .. Len(part) : part[i] = t[p + 1 + i]
    BY <1>1
  <1>3. /\ part \in Seq(Nat) /\ Len(part) = IF k <= m THEN m - k + 1 ELSE 0
        /\ \A i \in 1 .. Len(part) : part[i] = t[k + i - 1]
    <2>1. PartOf(part, t, k, m)
      BY <1>1, <1>2, Part, Zenon
    <2> QED
      BY ONLY <2>1 DEF PartOf
  <1>4. \A i \in Nat : k + i - 1 = p + 1 + i
    BY <1>2
  <1>5. CASE m = p
    BY <1>2, <1>3, <1>5
  <1>6. CASE m # p
    <2>1. k <= m /\ m - k + 1 = m - p - 1 /\ m - p - 1 \in Nat
      BY <1>2, <1>6
    <2>2. Len(part) = m - p - 1
      BY <1>3, <2>1
    <2>3. \A i \in 1 .. Len(part) : i \in Nat
      BY <2>1, <2>2
    <2>4. \A i \in 1 .. Len(part) : part[i] = t[p + 1 + i]
      BY <1>3, <1>4, <2>3, Zenon
    <2> QED
      BY <1>3, <1>6, <2>2, <2>4, Zenon
  <1> QED
    BY <1>5, <1>6

\* A text that was trimmed denotes the number of all of its digits.
LEMMA DenotesDigits ==
    ASSUME NEW digits \in Seq(Nat), \A i \in 1 .. Len(digits) : digits[i] < 10,
           NEW decimals \in Nat \ {0}, NEW p \in 1 .. Len(digits), Len(digits) = p + decimals,
           NEW text, Pointed(text, digits, p)
    PROVE  Denotes(Trim(text, decimals), decimals) = Numeral(10, digits)
  <1>1. PICK m \in p .. Len(text) :
           /\ Trim(text, decimals) = SubSeq(text, 1, m) /\ m # p + 1
           /\ \A j \in m + 1 .. Len(text) : j > p + 1 => text[j] = 0
    BY TrimIs
  <1>2. /\ text \in Seq(Nat) /\ Len(text) = Len(digits) + 1 /\ Len(digits) \in Nat
        /\ p \in Nat /\ p >= 1 /\ m \in Nat /\ m <= Len(text) /\ m >= p /\ decimals \in Nat
    BY DEF Pointed
  <1> DEFINE t == SubSeq(text, 1, m)
  <1>3. t \in Seq(Nat) /\ Len(t) = m /\ DOMAIN t = 1 .. m /\ \A i \in 1 .. m : t[i] = text[i]
    <2>1. FirstOf(t, text, m)
      BY <1>2, FirstPart, Zenon
    <2> HIDE DEF t
    <2> QED
      BY ONLY <2>1 DEF FirstOf
  <1> HIDE DEF t
  <1> DEFINE point == {i \in DOMAIN t : t[i] = Point}
             whole == IF point = {} THEN Len(t) ELSE (CHOOSE i \in point : TRUE) - 1
             fraction == SubSeq(t, whole + 2, Len(t))
             zeros == [i \in 1 .. decimals - Len(fraction) |-> 0]
             first == SubSeq(t, 1, whole)
             all == first \o fraction \o zeros
  <1>4. \A i \in 1 .. m : t[i] = Point <=> i = p + 1
    <2> SUFFICES ASSUME NEW i \in 1 .. m PROVE t[i] = Point <=> i = p + 1
      OBVIOUS
    <2>1. CASE i <= p
      <3>1. t[i] = digits[i] /\ i \in 1 .. Len(digits)
        <4>1. i \in 1 .. p /\ i \in 1 .. Len(digits)
          BY ONLY <1>2, <2>1, p \in 1 .. Len(digits), i \in 1 .. m
        <4>2. text[i] = digits[i]
          BY ONLY <4>1, Pointed(text, digits, p), Zenon DEF Pointed
        <4>3. t[i] = text[i]
          BY ONLY <1>3, i \in 1 .. m, Zenon
        <4> QED
          BY ONLY <4>1, <4>2, <4>3, Zenon
      <3>2. digits[i] < 10 /\ digits[i] \in Nat
        BY <3>1
      <3> QED
        BY <1>2, <2>1, <3>1, <3>2 DEF Point
    <2>2. CASE i = p + 1
      BY <1>3, <2>2 DEF Pointed
    <2>3. CASE i > p + 1
      <3>1. i - 1 \in p + 1 .. Len(digits) /\ (i - 1) + 1 = i /\ i - 1 \in 1 .. Len(digits)
        BY <1>2, <2>3
      <3>2. t[i] = digits[i - 1]
        BY <1>3, <3>1 DEF Pointed
      <3>3. digits[i - 1] < 10 /\ digits[i - 1] \in Nat
        BY <3>1
      <3> QED
        BY <1>2, <2>3, <3>2, <3>3 DEF Point
    <2> QED
      BY <1>2, <2>1, <2>2, <2>3
  <1>5. whole = p
    <2>1. CASE m = p
      <3>1. point = {}
        BY <1>2, <1>3, <1>4, <2>1
      <3> QED
        BY <1>3, <2>1, <3>1
    <2>2. CASE m # p
      <3>1. p + 1 \in 1 .. m
        BY <1>1, <1>2, <2>2
      <3>2. point = {p + 1}
        BY <1>3, <1>4, <3>1
      <3> HIDE DEF point
      <3>3. (CHOOSE i \in point : TRUE) = p + 1 /\ point # {}
        BY <3>2
      <3>4. whole = (p + 1) - 1
        BY <3>3
      <3> HIDE DEF whole
      <3>5. p \in Nat
        BY <1>2
      <3> QED
        BY ONLY <3>4, <3>5
    <2> QED
      BY <2>1, <2>2
  <1>6. Denotes(t, decimals) = Numeral(10, all)
    BY Zenon DEF Denotes, Numeral
  <1> HIDE DEF point, whole
  <1>7. first \in Seq(Nat) /\ Len(first) = p /\ \A i \in 1 .. p : first[i] = digits[i]
    <2>1. first = SubSeq(t, 1, p)
      BY <1>5
    <2>2. first \in Seq(Nat) /\ Len(first) = p /\ \A i \in 1 .. p : first[i] = t[i]
      <3>1. p \in Nat /\ p <= Len(t)
        BY <1>2, <1>3
      <3>2. FirstOf(SubSeq(t, 1, p), t, p)
        BY <1>3, <3>1, FirstPart, Zenon
      <3> HIDE DEF first
      <3>3. FirstOf(first, t, p)
        BY ONLY <2>1, <3>2, Zenon
      <3> QED
        BY ONLY <3>3 DEF FirstOf
    <2>3. \A i \in 1 .. p : t[i] = digits[i]
      <3>1. \A i \in 1 .. p : i \in 1 .. m
        BY ONLY <1>2
      <3>2. \A i \in 1 .. p : text[i] = digits[i]
        BY ONLY Pointed(text, digits, p), Zenon DEF Pointed
      <3>3. \A i \in 1 .. m : t[i] = text[i]
        BY ONLY <1>3, Zenon
      <3> QED
        BY ONLY <3>1, <3>2, <3>3, Zenon
    <2> HIDE DEF first
    <2> QED
      BY <2>1, <2>2, <2>3
  <1> DEFINE f == IF m = p THEN 0 ELSE m - p - 1
  <1>8. /\ f \in Nat /\ f <= decimals
        /\ fraction \in Seq(Nat) /\ Len(fraction) = f /\ \A i \in 1 .. f : fraction[i] = digits[p + i]
    <2>1. fraction = SubSeq(t, p + 2, m)
      BY <1>3, <1>5
    <2>2. f \in Nat /\ f <= decimals
      BY <1>1, <1>2
    <2>3. /\ SubSeq(t, p + 2, m) \in Seq(Nat) /\ Len(SubSeq(t, p + 2, m)) = f
          /\ \A i \in 1 .. f : SubSeq(t, p + 2, m)[i] = t[p + 1 + i]
      <3>1. p \in Nat /\ m \in Nat /\ m >= p /\ m # p + 1 /\ t \in Seq(Nat) /\ Len(t) = m
        BY <1>1, <1>2, <1>3
      <3> QED
        BY ONLY <3>1, AfterPoint DEF f
    <2>4. ASSUME NEW i \in 1 .. f PROVE t[p + 1 + i] = digits[p + i]
      <3>1. p + 1 + i \in 1 .. m /\ p + i \in p + 1 .. Len(digits) /\ (p + i) + 1 = p + 1 + i
        BY <1>1, <1>2, <2>2
      <3> QED
        BY <1>3, <3>1 DEF Pointed
    <2> HIDE DEF fraction, f
    <2> QED
      BY <2>1, <2>2, <2>3, <2>4
  <1> HIDE DEF first, fraction
  <1>9. zeros \in Seq(Nat) /\ Len(zeros) = decimals - f /\ \A i \in 1 .. decimals - f : zeros[i] = 0
    <2> HIDE DEF f
    <2>1. decimals - f \in Nat /\ zeros = [i \in 1 .. decimals - f |-> 0]
      BY <1>2, <1>8
    <2> HIDE DEF zeros
    <2> QED
      BY <2>1
  <1> HIDE DEF zeros
  <1> HIDE DEF f
  <1>10. /\ all \in Seq(Nat) /\ Len(all) = Len(digits)
         /\ \A i \in 1 .. p : all[i] = first[i]
         /\ \A i \in 1 .. f : all[p + i] = fraction[i]
         /\ \A i \in 1 .. decimals - f : all[p + f + i] = zeros[i]
    <2>1. /\ all \in Seq(Nat) /\ Len(all) = Len(first) + Len(fraction) + Len(zeros)
          /\ \A i \in 1 .. Len(first) : all[i] = first[i]
          /\ \A i \in 1 .. Len(fraction) : all[Len(first) + i] = fraction[i]
          /\ \A i \in 1 .. Len(zeros) : all[Len(first) + Len(fraction) + i] = zeros[i]
      <3>1. all = first \o fraction \o zeros
        OBVIOUS
      <3> HIDE DEF all
      <3>2. first \in Seq(Nat) /\ fraction \in Seq(Nat) /\ zeros \in Seq(Nat)
        BY <1>7, <1>8, <1>9
      <3>3. InThree(all, first, fraction, zeros)
        BY <3>1, <3>2, ThreeLaid, Zenon
      <3> QED
        BY ONLY <3>3 DEF InThree
    <2>2. p + f + (decimals - f) = Len(digits)
      BY <1>2, <1>8
    <2> HIDE DEF all
    <2> QED
      BY <1>7, <1>8, <1>9, <2>1, <2>2
  <1> HIDE DEF all
  <1>11. ASSUME NEW i \in 1 .. Len(digits) PROVE all[i] = digits[i]
    <2>1. CASE i <= p
      BY <1>2, <1>7, <1>10, <2>1
    <2>2. CASE i > p /\ i <= p + f
      <3>1. i - p \in 1 .. f /\ p + (i - p) = i
        BY <1>2, <1>8, <2>2
      <3>2. all[p + (i - p)] = fraction[i - p] /\ fraction[i - p] = digits[p + (i - p)]
        BY <1>8, <1>10, <3>1
      <3> QED
        BY <3>1, <3>2
    <2>3. CASE i > p + f
      <3>1. i - (p + f) \in 1 .. decimals - f /\ p + f + (i - (p + f)) = i
        BY <1>2, <1>8, <2>3
      <3>2. all[i] = 0
        <4>1. all[p + f + (i - (p + f))] = zeros[i - (p + f)]
          BY <1>10, <3>1
        <4> QED
          BY <1>9, <3>1, <4>1
      <3>3. i + 1 \in m + 1 .. Len(text) /\ i + 1 > p + 1
        <4>1. i \in Nat /\ i <= Len(digits)
          BY ONLY <1>2, i \in 1 .. Len(digits)
        <4>2. i >= m
          <5>1. CASE m = p
            BY ONLY <1>2, <1>8, <2>3, <4>1, <5>1
          <5>2. CASE m # p
            <6>1. f = m - p - 1
              BY <5>2 DEF f
            <6> QED
              BY ONLY <1>2, <1>8, <2>3, <4>1, <6>1
          <5> QED
            BY <5>1, <5>2
        <4> QED
          BY ONLY <1>2, <1>8, <2>3, <4>1, <4>2
      <3>4. text[i + 1] = 0
        BY <1>1, <3>3
      <3>5. text[i + 1] = digits[i]
        <4>1. i \in p + 1 .. Len(digits)
          BY <1>2, <3>3
        <4> QED
          BY <4>1 DEF Pointed
      <3> QED
        BY <3>2, <3>4, <3>5
    <2> QED
      BY <1>2, <1>8, <2>1, <2>2, <2>3
  <1>12. all = digits
    BY <1>10, <1>11, SameElements
  <1> QED
    BY <1>1, <1>6, <1>12 DEF t

\* A number has as many digits as are asked for, zeros in front, the last ones those of its text.
LEMMA MoreDigits ==
    ASSUME NEW n \in Nat, NEW size \in Nat, Len(Decimal(n)) <= size
    PROVE  \E digits \in Seq(Nat) :
               /\ Len(digits) = size /\ \A i \in 1 .. size : digits[i] < 10
               /\ Numeral(10, digits) = n
               /\ \A i \in 1 .. size - Len(Decimal(n)) : digits[i] = 0
               /\ \A i \in 1 .. Len(Decimal(n)) : digits[size - Len(Decimal(n)) + i] = Decimal(n)[i]
  <1> DEFINE plain == Decimal(n)
             D == Len(plain)
             digits == [i \in 1 .. size |-> (n \div TenTo[size - i]) % 10]
  <1>1. /\ plain \in Seq(Nat) /\ D \in Nat \ {0} /\ n < TenTo[D]
        /\ \A i \in 1 .. D : plain[i] = (n \div TenTo[D - i]) % 10
    BY DecimalIs DEF DigitsOf
  <1> HIDE DEF plain, D
  <1>2. PowersOf(TenTo, 10) /\ 10 \in Nat /\ 10 >= 2
    BY TensArePowers
  <1>3. /\ \A k \in Nat : TenTo[k] \in Nat /\ TenTo[k] > 0
        /\ \A j, k \in Nat : j <= k => TenTo[j] <= TenTo[k]
    BY <1>2, PowersGrow
  <1>4. D <= size
    BY DEF D, plain
  <1>5. ASSUME NEW i \in 1 .. size PROVE digits[i] = (n \div TenTo[size - i]) % 10 /\ digits[i] \in 0 .. 9
    <2>1. size - i \in Nat
      OBVIOUS
    <2>2. TenTo[size - i] \in Nat \ {0}
      BY <1>3, <2>1
    <2>3. \A d \in Nat \ {0} : (n \div d) % 10 \in 0 .. 9
      OBVIOUS
    <2> QED
      BY <2>2, <2>3
  <1>6. digits \in Seq(Nat) /\ Len(digits) = size /\ \A i \in 1 .. size : digits[i] < 10
    <2>1. digits = [i \in 1 .. size |-> digits[i]]
      OBVIOUS
    <2> HIDE DEF digits
    <2>2. \A x \in 0 .. 9 : x \in Nat /\ x < 10
      OBVIOUS
    <2>3. \A i \in 1 .. size : digits[i] \in Nat /\ digits[i] < 10
      BY <1>5, <2>2
    <2> QED
      BY <2>1, <2>3, AsString
  <1> HIDE DEF digits
  <1>7. Numeral(10, digits) = n
    <2>1. n < TenTo[size]
      <3>1. TenTo[D] <= TenTo[size] /\ TenTo[D] \in Nat /\ TenTo[size] \in Nat
        BY <1>1, <1>3, <1>4
      <3> QED
        BY <1>1, <3>1
    <2>2. DigitsOf(digits, n, 10, TenTo)
      BY <1>5, <1>6 DEF DigitsOf
    <2> QED
      BY <1>2, <1>6, <2>1, <2>2, NumeralOfDigits
  <1>8. ASSUME NEW i \in 1 .. size - D PROVE digits[i] = 0
    <2>1. i \in 1 .. size /\ size - i \in Nat /\ D <= size - i
      BY <1>1, <1>4
    <2>2. TenTo[D] <= TenTo[size - i] /\ TenTo[D] \in Nat /\ TenTo[size - i] \in Nat
      BY <1>1, <1>3, <2>1
    <2>3. n < TenTo[size - i]
      BY <1>1, <2>2
    <2>4. \A d \in Nat : n < d => (n \div d) % 10 = 0
      OBVIOUS
    <2> QED
      BY <1>5, <2>1, <2>2, <2>3, <2>4
  <1>9. ASSUME NEW i \in 1 .. D PROVE digits[size - D + i] = plain[i]
    <2>1. size - D + i \in 1 .. size /\ size - (size - D + i) = D - i
      BY <1>1, <1>4
    <2> QED
      BY <1>1, <1>5, <2>1
  <1> QED
    BY <1>6, <1>7, <1>8, <1>9 DEF D, plain

\* An amount that is printed denotes the amount, whatever its digits and the decimals of its coin.
LEMMA AmountIsDenoted ==
    ASSUME NEW n \in Nat, NEW decimals \in Nat
    PROVE  Denotes(uint256_to_text(n, decimals), decimals) = n
  <1> DEFINE plain == Decimal(n)
             D == Len(plain)
             whole == D - decimals
  <1>1. plain \in Seq(Nat) /\ D \in Nat \ {0} /\ \A i \in 1 .. D : plain[i] \in Nat /\ plain[i] < 10
    <2>1. plain \in Seq(Nat) /\ D \in Nat \ {0} /\ \A i \in 1 .. D : plain[i] < 10
      BY DecimalIs
    <2> HIDE DEF plain
    <2> QED
      BY <2>1
  <1>2. CASE decimals = 0
    <2> DEFINE point == {i \in DOMAIN plain : plain[i] = Point}
               fraction == SubSeq(plain, D + 2, D)
               zeros == [i \in 1 .. decimals - Len(fraction) |-> 0]
               all == SubSeq(plain, 1, D) \o fraction \o zeros
    <2>1. uint256_to_text(n, decimals) = plain
      BY <1>2 DEF uint256_to_text, Trim
    <2> HIDE DEF plain
    <2>2. point = {}
      <3>1. DOMAIN plain = 1 .. D
        BY <1>1
      <3> QED
        BY <1>1, <3>1 DEF Point
    <2>3. Denotes(plain, decimals) = Numeral(10, all)
      <3> HIDE DEF point
      <3>1. Denotes(plain, decimals) =
              LET cut == IF point = {} THEN Len(plain) ELSE (CHOOSE i \in point : TRUE) - 1
                  rest == SubSeq(plain, cut + 2, Len(plain))
              IN  Numeral(10, SubSeq(plain, 1, cut) \o rest \o [i \in 1 .. decimals - Len(rest) |-> 0])
        BY Zenon DEF Denotes, Numeral, point
      <3> QED
        BY <2>2, <3>1, Zenon
    <2>4. fraction = <<>> /\ zeros = <<>>
      <3>1. fraction = <<>>
        BY <1>1
      <3>2. zeros = <<>>
        BY <1>2, <3>1
      <3> QED
        BY <3>1, <3>2
    <2>5. SubSeq(plain, 1, D) = plain
      BY <1>1
    <2>6. all = plain
      <3> HIDE DEF fraction, zeros
      <3> QED
        BY <1>1, <2>4, <2>5
    <2>7. Numeral(10, plain) = n
      BY TensArePowers, DecimalIs, NumeralOfDigits DEF plain
    <2> QED
      BY <2>1, <2>3, <2>6, <2>7
  <1>3. CASE decimals # 0 /\ whole > 0
    <2> DEFINE text == SubSeq(plain, 1, whole) \o <<Point>> \o SubSeq(plain, whole + 1, D)
    <2>1. uint256_to_text(n, decimals) = Trim(text, decimals)
      <3>1. ~(whole <= 0) /\ decimals # 0 /\ ~(decimals = 0)
        BY <1>1, <1>3
      <3> QED
        BY <1>3, <3>1, Zenon DEF uint256_to_text
    <2>2. PICK digits \in Seq(Nat) :
              /\ Len(digits) = D /\ \A i \in 1 .. D : digits[i] < 10
              /\ Numeral(10, digits) = n
              /\ \A i \in 1 .. D : digits[D - D + i] = plain[i]
      <3>1. D <= D /\ D \in Nat
        BY <1>1
      <3> QED
        BY <3>1, MoreDigits
    <2>3. \A i \in 1 .. D : digits[i] = plain[i]
      <3>1. \A i \in 1 .. D : D - D + i = i
        BY <1>1
      <3> QED
        BY <2>2, <3>1
    <2> HIDE DEF plain, D
    <2>4. whole \in Nat /\ whole >= 1 /\ D = whole + decimals /\ whole \in 1 .. D
      BY <1>1, <1>3
    <2> HIDE DEF whole
    <2>5. Pointed(text, digits, whole)
      <3>1. PICK x : x = SubSeq(plain, 1, whole)
        OBVIOUS
      <3>2. PICK z : z = SubSeq(plain, whole + 1, D)
        OBVIOUS
      <3>3. x \in Seq(Nat) /\ Len(x) = whole /\ \A i \in 1 .. whole : x[i] = plain[i]
        BY ONLY <1>1, <2>4, <3>1 DEF D
      <3>4. z \in Seq(Nat) /\ Len(z) = decimals /\ \A i \in 1 .. decimals : z[i] = plain[whole + i]
        BY ONLY <1>1, <2>4, <3>2 DEF D
      <3>5. PICK y : y = <<Point>>
        OBVIOUS
      <3>6. y \in Seq(Nat) /\ Len(y) = 1 /\ y[1] = Point
        BY <3>5 DEF Point
      <3>7. text = x \o y \o z
        BY <3>1, <3>2, <3>5
      <3> HIDE DEF text
      <3>8. /\ text \in Seq(Nat) /\ Len(text) = Len(x) + Len(y) + Len(z)
            /\ \A i \in 1 .. Len(x) : text[i] = x[i]
            /\ \A i \in 1 .. Len(y) : text[Len(x) + i] = y[i]
            /\ \A i \in 1 .. Len(z) : text[Len(x) + Len(y) + i] = z[i]
        <4>1. x \in Seq(Nat) /\ y \in Seq(Nat) /\ z \in Seq(Nat)
          BY <3>3, <3>4, <3>6
        <4>2. InThree(text, x, y, z)
          BY <3>7, <4>1, ThreeLaid, Zenon
        <4> QED
          BY ONLY <4>2 DEF InThree
      <3>9. /\ text \in Seq(Nat) /\ Len(text) = whole + 1 + decimals
            /\ \A i \in 1 .. whole : text[i] = plain[i]
            /\ text[whole + 1] = Point
            /\ \A i \in 1 .. decimals : text[whole + 1 + i] = plain[whole + i]
        <4>1. 1 \in 1 .. 1
          OBVIOUS
        <4> QED
          <5>1. \A i \in 1 .. whole : text[i] = plain[i]
            BY ONLY <3>3, <3>8
          <5>5. Len(x) = whole /\ Len(y) = 1 /\ Len(z) = decimals
            BY ONLY <3>3, <3>4, <3>6
          <5>2. text[whole + 1] = Point
            <6>1. text[Len(x) + 1] = y[1]
              <7>1. \A i \in 1 .. Len(y) : text[Len(x) + i] = y[i]
                BY ONLY <3>8, Zenon
              <7>2. 1 \in 1 .. Len(y)
                BY ONLY <4>1, <5>5
              <7> QED
                BY ONLY <7>1, <7>2, Zenon
            <6>2. text[whole + 1] = y[1]
              BY ONLY <5>5, <6>1, Zenon
            <6> QED
              BY ONLY <3>6, <6>2, Zenon
          <5>3. \A i \in 1 .. decimals : text[whole + 1 + i] = plain[whole + i]
            <6> SUFFICES ASSUME NEW i \in 1 .. decimals
                         PROVE  text[whole + 1 + i] = plain[whole + i]
              OBVIOUS
            <6>1. \A k \in 1 .. Len(z) : text[Len(x) + Len(y) + k] = z[k]
              BY ONLY <3>8, Zenon
            <6>2. \A k \in 1 .. decimals : text[whole + 1 + k] = z[k]
              BY ONLY <5>5, <6>1, Zenon
            <6>3. text[whole + 1 + i] = z[i]
              BY ONLY <6>2, i \in 1 .. decimals, Zenon
            <6>4. z[i] = plain[whole + i]
              BY <3>4, Zenon
            <6> QED
              BY ONLY <6>3, <6>4, Zenon
          <5>4. text \in Seq(Nat) /\ Len(text) = whole + 1 + decimals
            BY ONLY <3>3, <3>4, <3>6, <3>8
          <5> QED
            BY ONLY <5>1, <5>2, <5>3, <5>4
      <3>10. Len(text) = Len(digits) + 1
        BY <2>2, <2>4, <3>9
      <3>11. ASSUME NEW i \in whole + 1 .. Len(digits) PROVE text[i + 1] = digits[i]
        <4>1. i - whole \in 1 .. decimals /\ whole + 1 + (i - whole) = i + 1 /\ whole + (i - whole) = i
              /\ i \in 1 .. D
          BY <2>2, <2>4
        <4> QED
          BY <2>3, <3>9, <4>1
      <3>12. \A i \in 1 .. whole : text[i] = digits[i]
        <4>1. \A i \in 1 .. whole : i \in 1 .. D
          BY <2>4
        <4> QED
          BY <2>2, <2>3, <2>4, <3>9, <4>1
      <3> QED
        BY <3>9, <3>10, <3>11, <3>12 DEF Pointed
    <2>6. Denotes(Trim(text, decimals), decimals) = Numeral(10, digits)
      <3>1. decimals \in Nat \ {0} /\ whole \in 1 .. Len(digits) /\ Len(digits) = whole + decimals
            /\ \A i \in 1 .. Len(digits) : digits[i] < 10
        BY <1>3, <2>2, <2>4
      <3> HIDE DEF text
      <3> QED
        BY <2>5, <3>1, DenotesDigits
    <2> QED
      BY <2>1, <2>2, <2>6
  <1>4. CASE decimals # 0 /\ whole <= 0
    <2> DEFINE zeros == [i \in 1 .. 0 - whole |-> 0]
               text == <<0, Point>> \o zeros \o plain
               size == decimals + 1
    <2>1. uint256_to_text(n, decimals) = Trim(text, decimals)
      <3>1. ~(whole > 0) /\ decimals # 0 /\ ~(decimals = 0)
        BY <1>1, <1>4
      <3> QED
        BY <1>4, <3>1, Zenon DEF uint256_to_text
    <2>2. size \in Nat /\ D <= size
      BY <1>1, <1>4
    <2>3. PICK digits \in Seq(Nat) :
              /\ Len(digits) = size /\ \A i \in 1 .. size : digits[i] < 10
              /\ Numeral(10, digits) = n
              /\ \A i \in 1 .. size - D : digits[i] = 0
              /\ \A i \in 1 .. D : digits[size - D + i] = plain[i]
      BY <2>2, MoreDigits
    <2> HIDE DEF plain, D
    <2>4. 0 - whole \in Nat /\ size - D = 1 + (0 - whole) /\ size = 1 + (0 - whole) + D
      BY <1>1, <1>4
    <2> DEFINE gap == 0 - whole
    <2> HIDE DEF whole
    <2>5. zeros \in Seq(Nat) /\ Len(zeros) = gap /\ \A i \in 1 .. gap : zeros[i] = 0
      <3>1. zeros = [i \in 1 .. gap |-> zeros[i]] /\ \A i \in 1 .. gap : zeros[i] = 0
        OBVIOUS
      <3>2. gap \in Nat
        BY <2>4
      <3> HIDE DEF zeros, gap
      <3> QED
        BY <3>1, <3>2, AsString
    <2>6. gap \in Nat /\ size - D = 1 + gap /\ size = 1 + gap + D
      BY <2>4
    <2> HIDE DEF gap, zeros
    <2>7. Pointed(text, digits, 1)
      <3>1. PICK y : y = <<0, Point>>
        OBVIOUS
      <3>2. y \in Seq(Nat) /\ Len(y) = 2 /\ y[1] = 0 /\ y[2] = Point
        BY <3>1 DEF Point
      <3>3. text = y \o zeros \o plain
        BY <3>1
      <3> HIDE DEF text
      <3>4. /\ text \in Seq(Nat) /\ Len(text) = Len(y) + Len(zeros) + Len(plain)
            /\ \A i \in 1 .. Len(y) : text[i] = y[i]
            /\ \A i \in 1 .. Len(zeros) : text[Len(y) + i] = zeros[i]
            /\ \A i \in 1 .. Len(plain) : text[Len(y) + Len(zeros) + i] = plain[i]
        <4>1. y \in Seq(Nat) /\ zeros \in Seq(Nat) /\ plain \in Seq(Nat)
          BY <1>1, <2>5, <3>2
        <4>2. InThree(text, y, zeros, plain)
          BY <3>3, <4>1, ThreeLaid, Zenon
        <4> QED
          BY ONLY <4>2 DEF InThree
      <3>5. /\ text \in Seq(Nat) /\ Len(text) = 2 + gap + D
            /\ text[1] = 0 /\ text[2] = Point
            /\ \A i \in 1 .. gap : text[2 + i] = 0
            /\ \A i \in 1 .. D : text[2 + gap + i] = plain[i]
        <4>1. 1 \in 1 .. 2 /\ 2 \in 1 .. 2
          OBVIOUS
        <4> QED
          BY <2>5, <3>2, <3>4, <4>1 DEF D
      <3>6. Len(text) = Len(digits) + 1
        BY <1>1, <2>3, <2>6, <3>5
      <3>7. digits[1] = 0
        BY <1>1, <2>3, <2>6
      <3>8. ASSUME NEW i \in 1 + 1 .. Len(digits) PROVE text[i + 1] = digits[i]
        <4>1. CASE i <= 1 + gap
          <5>1. i - 1 \in 1 .. gap /\ 2 + (i - 1) = i + 1 /\ i \in 1 .. size - D
            BY <2>6, <4>1
          <5>2. text[2 + (i - 1)] = 0 /\ digits[i] = 0
            BY <2>3, <3>5, <5>1
          <5> QED
            BY <5>1, <5>2
        <4>2. CASE ~(i <= 1 + gap)
          <5>1. /\ i - (1 + gap) \in 1 .. D /\ 2 + gap + (i - (1 + gap)) = i + 1
                /\ size - D + (i - (1 + gap)) = i
            BY <1>1, <2>3, <2>6, <4>2
          <5>2. text[2 + gap + (i - (1 + gap))] = plain[i - (1 + gap)]
            BY <3>5, <5>1
          <5>3. digits[size - D + (i - (1 + gap))] = plain[i - (1 + gap)]
            BY <2>3, <5>1
          <5> QED
            BY <5>1, <5>2, <5>3
        <4> QED
          BY <4>1, <4>2
      <3>9. \A i \in 1 .. 1 : text[i] = digits[i]
        BY <3>5, <3>7
      <3> QED
        BY <3>5, <3>6, <3>8, <3>9 DEF Pointed
    <2>8. Denotes(Trim(text, decimals), decimals) = Numeral(10, digits)
      <3>1. decimals \in Nat \ {0} /\ 1 \in 1 .. Len(digits) /\ Len(digits) = 1 + decimals
            /\ \A i \in 1 .. Len(digits) : digits[i] < 10
        BY <1>4, <2>3
      <3> HIDE DEF text
      <3> QED
        BY <2>7, <3>1, DenotesDigits
    <2> QED
      BY <2>1, <2>3, <2>8
  <1>5. whole > 0 \/ whole <= 0
    BY <1>1
  <1> QED
    BY <1>2, <1>3, <1>4, <1>5

-----------------------------------------------------------------------------
(* One encoding *)

\* Where the parts of a list of strings stand when one follows the other.
EndToEnd(x, y, s) ==
    /\ s \in Seq(Seq(Nat)) /\ Len(s) = Len(x) + Len(y) /\ Len(x) \in Nat /\ Len(y) \in Nat
    /\ \A i \in 1 .. Len(x) : s[i] = x[i]
    /\ \A i \in 1 .. Len(y) : s[Len(x) + i] = y[i]

LEMMA Follows ==
    ASSUME NEW x \in Seq(Seq(Nat)), NEW y \in Seq(Seq(Nat)), NEW s, s = x \o y
    PROVE  EndToEnd(x, y, s)
  BY DEF EndToEnd

\* Laying one list of strings end to end, and then another, is laying both.
LEMMA FlattenBoth ==
    ASSUME NEW x \in Seq(Seq(Nat)), NEW y \in Seq(Seq(Nat)), Len(x) # 0, Len(y) # 0,
           NEW s, s = x \o y
    PROVE  FlattenSeq(s) = FlattenSeq(x) \o FlattenSeq(y)
  <1> DEFINE m == Len(x)
             n == Len(y)
  <1>1. /\ s \in Seq(Seq(Nat)) /\ Len(s) = m + n /\ m \in Nat /\ n \in Nat
        /\ \A i \in 1 .. m : s[i] = x[i]
        /\ \A i \in 1 .. n : s[m + i] = y[i]
    <2>1. EndToEnd(x, y, s)
      BY ONLY x \in Seq(Seq(Nat)), y \in Seq(Seq(Nat)), s = x \o y, Follows, Zenon
    <2> QED
      BY <2>1, Zenon DEF EndToEnd
  <1>2. PICK g : Joins(g, x) /\ FlattenSeq(x) = g[m]
    BY FlattenByPiece
  <1>3. PICK h : Joins(h, y) /\ FlattenSeq(y) = h[n]
    BY FlattenByPiece
  <1>4. PICK f : Joins(f, s) /\ FlattenSeq(s) = f[Len(s)]
    <2>1. Len(s) # 0
      BY <1>1
    <2> QED
      BY ONLY <1>1, <2>1, FlattenByPiece
  <1>5. m >= 1 /\ n >= 1 /\ \A i \in 1 .. m : x[i] \in Seq(Nat)
    BY <1>1
  <1> HIDE DEF m, n
  <1>6. /\ g[1] = x[1] /\ \A k \in 2 .. m : g[k] = g[k - 1] \o x[k]
        /\ h[1] = y[1] /\ \A k \in 2 .. n : h[k] = h[k - 1] \o y[k]
        /\ f[1] = s[1] /\ \A k \in 2 .. m + n : f[k] = f[k - 1] \o s[k]
    BY <1>1, <1>2, <1>3, <1>4 DEF Joins, m, n
  <1>7. ASSUME NEW i \in 1 .. m PROVE x[i] \in Seq(Nat)
    BY <1>5
  <1>8. ASSUME NEW i \in 1 .. n PROVE y[i] \in Seq(Nat)
    BY DEF n
  <1> DEFINE First == {k \in Nat : k + 1 <= m => f[k + 1] = g[k + 1] /\ g[k + 1] \in Seq(Nat)}
             Laid(k) == f[m + k] = g[m] \o h[k] /\ h[k] \in Seq(Nat)
             Then == {k \in Nat : k + 1 <= n => Laid(k + 1)}
  <1>9. Nat \subseteq First
    <2>1. 0 \in First
      <3>1. 1 \in 1 .. m /\ 0 + 1 = 1
        BY <1>5
      <3>2. f[1] = g[1] /\ g[1] \in Seq(Nat)
        BY <1>1, <1>6, <1>7, <3>1
      <3> QED
        BY <3>1, <3>2
    <2>2. ASSUME NEW k \in Nat, k \in First PROVE k + 1 \in First
      <3> SUFFICES ASSUME (k + 1) + 1 <= m
                   PROVE  f[(k + 1) + 1] = g[(k + 1) + 1] /\ g[(k + 1) + 1] \in Seq(Nat)
        OBVIOUS
      <3>1. /\ (k + 1) + 1 \in 1 .. m /\ (k + 1) + 1 \in 2 .. m /\ (k + 1) + 1 \in 2 .. m + n
            /\ ((k + 1) + 1) - 1 = k + 1 /\ k + 1 <= m
        BY <1>1, <1>5
      <3>2. f[k + 1] = g[k + 1] /\ g[k + 1] \in Seq(Nat)
        BY <2>2, <3>1
      <3>3. /\ f[(k + 1) + 1] = f[k + 1] \o x[(k + 1) + 1]
            /\ g[(k + 1) + 1] = g[k + 1] \o x[(k + 1) + 1]
        BY <1>1, <1>6, <3>1
      <3>4. x[(k + 1) + 1] \in Seq(Nat)
        BY <1>7, <3>1
      <3> QED
        BY <3>2, <3>3, <3>4, LaidTogether
    <2> HIDE DEF First
    <2> QED
      BY <2>1, <2>2, NatSetInduction
  <1>10. f[m] = g[m] /\ g[m] \in Seq(Nat)
    <2>1. m - 1 \in Nat /\ (m - 1) + 1 = m
      BY <1>1, <1>5
    <2>2. m - 1 \in First
      BY <1>9, <2>1
    <2> QED
      BY <1>1, <2>1, <2>2
  <1> HIDE DEF First
  <1>11. Nat \subseteq Then
    <2>1. 0 \in Then
      <3>1. /\ 1 \in 1 .. n /\ 0 + 1 = 1 /\ m + 1 \in 2 .. m + n /\ (m + 1) - 1 = m
        BY <1>1, <1>5
      <3>2. f[m + 1] = f[m] \o y[1]
        BY <1>1, <1>6, <3>1
      <3>3. f[m + 1] = g[m] \o h[1] /\ h[1] \in Seq(Nat)
        BY <1>6, <1>8, <1>10, <3>1, <3>2
      <3>4. Laid(1)
        BY <3>3
      <3> HIDE DEF Laid
      <3> QED
        BY <3>1, <3>4
    <2>2. ASSUME NEW k \in Nat, k \in Then PROVE k + 1 \in Then
      <3> HIDE DEF Laid
      <3> SUFFICES ASSUME (k + 1) + 1 <= n PROVE Laid((k + 1) + 1)
        OBVIOUS
      <3>1. /\ (k + 1) + 1 \in 1 .. n /\ (k + 1) + 1 \in 2 .. n /\ ((k + 1) + 1) - 1 = k + 1 /\ k + 1 <= n
            /\ m + ((k + 1) + 1) \in 2 .. m + n /\ (m + ((k + 1) + 1)) - 1 = m + (k + 1)
        BY <1>1, <1>5
      <3>2. f[m + (k + 1)] = g[m] \o h[k + 1] /\ h[k + 1] \in Seq(Nat)
        BY <2>2, <3>1 DEF Laid
      <3>3. /\ f[m + ((k + 1) + 1)] = f[m + (k + 1)] \o y[(k + 1) + 1]
            /\ h[(k + 1) + 1] = h[k + 1] \o y[(k + 1) + 1]
        BY <1>1, <1>6, <3>1
      <3>4. y[(k + 1) + 1] \in Seq(Nat)
        BY <1>8, <3>1
      <3>5. h[(k + 1) + 1] \in Seq(Nat)
        BY <3>2, <3>3, <3>4, LaidTogether
      <3>6. (g[m] \o h[k + 1]) \o y[(k + 1) + 1] = g[m] \o (h[k + 1] \o y[(k + 1) + 1])
        BY <1>10, <3>2, <3>4, Together
      <3> QED
        BY <3>2, <3>3, <3>5, <3>6, Zenon DEF Laid
    <2> HIDE DEF Then
    <2> QED
      BY <2>1, <2>2, NatSetInduction
  <1>12. f[m + n] = g[m] \o h[n]
    <2>1. n - 1 \in Nat /\ (n - 1) + 1 = n
      BY <1>1, <1>5
    <2>2. n - 1 \in Then
      <3> HIDE DEF Then
      <3> QED
        BY <1>11, <2>1
    <2>3. Laid(n)
      <3>1. n <= n
        BY <1>1
      <3> HIDE DEF Laid
      <3> QED
        BY <2>1, <2>2, <3>1
    <2> QED
      BY <2>3
  <1> QED
    BY <1>1, <1>2, <1>3, <1>4, <1>12 DEF m, n

\* A list of one string is laid as that string.
LEMMA FlattenOne ==
    ASSUME NEW x \in Seq(Nat), NEW s, s = <<x>>
    PROVE  s \in Seq(Seq(Nat)) /\ Len(s) = 1 /\ FlattenSeq(s) = x
  <1>1. s \in Seq(Seq(Nat)) /\ Len(s) = 1 /\ s[1] = x
    OBVIOUS
  <1>2. Len(s) # 0 /\ s \in Seq(Seq(Nat))
    BY <1>1
  <1>3. PICK g : Joins(g, s) /\ FlattenSeq(s) = g[Len(s)]
    BY ONLY <1>2, FlattenByPiece
  <1> QED
    BY <1>1, <1>3 DEF Joins

\* And three strings one after the other.
LEMMA FlattenThree ==
    ASSUME NEW x \in Seq(Nat), NEW y \in Seq(Nat), NEW z \in Seq(Nat), NEW s, s = <<x, y, z>>
    PROVE  s \in Seq(Seq(Nat)) /\ Len(s) = 3 /\ FlattenSeq(s) = x \o y \o z
  <1>1. s \in Seq(Seq(Nat)) /\ Len(s) = 3 /\ s[1] = x /\ s[2] = y /\ s[3] = z
    OBVIOUS
  <1>2. Len(s) # 0 /\ s \in Seq(Seq(Nat))
    BY <1>1
  <1>3. PICK g : Joins(g, s) /\ FlattenSeq(s) = g[Len(s)]
    BY ONLY <1>2, FlattenByPiece
  <1>4. g[1] = x /\ g[2] = g[1] \o y /\ g[3] = g[2] \o z
    <2>1. 2 \in 2 .. 3 /\ 3 \in 2 .. 3 /\ 2 - 1 = 1 /\ 3 - 1 = 2
      OBVIOUS
    <2> QED
      BY <1>1, <1>3, <2>1 DEF Joins
  <1> QED
    BY <1>1, <1>3, <1>4
\* Three strings in the middle of a list, and between the others laid end to end.
InList(a, b, x, y, z, d) == FlattenSeq(a \o (b \o <<x, y, z>>) \o d)
InString(a, b, x, y, z, d) == FlattenSeq(a \o b) \o x \o y \o z \o FlattenSeq(d)

\* Laying the list end to end lays the three between the others.
LEMMA PayloadLaid ==
    ASSUME NEW a, NEW b, NEW d, a \in Seq(Seq(Nat)), b \in Seq(Seq(Nat)), d \in Seq(Seq(Nat)),
           Len(a) # 0, Len(b) # 0, Len(d) # 0,
           NEW x, NEW y, NEW z, x \in Seq(Nat), y \in Seq(Nat), z \in Seq(Nat)
    PROVE  InList(a, b, x, y, z, d) = InString(a, b, x, y, z, d)
  <1>1. PICK c : c = <<x, y, z>>
    OBVIOUS
  <1>2. PICK bc : bc = b \o c
    OBVIOUS
  <1>3. PICK abc : abc = a \o bc
    OBVIOUS
  <1>4. PICK s : s = abc \o d
    OBVIOUS
  <1>5. PICK ab : ab = a \o b
    OBVIOUS
  <1>6. c \in Seq(Seq(Nat)) /\ Len(c) = 3 /\ FlattenSeq(c) = x \o y \o z
    BY ONLY x \in Seq(Nat), y \in Seq(Nat), z \in Seq(Nat), <1>1, FlattenThree
  <1>7. bc \in Seq(Seq(Nat)) /\ Len(bc) # 0
    <2>1. c \in Seq(Seq(Nat))
      BY <1>6
    <2>2. EndToEnd(b, c, bc)
      BY ONLY b \in Seq(Seq(Nat)), <2>1, <1>2, Follows, Zenon
    <2> QED
      BY <1>6, <2>2 DEF EndToEnd
  <1>8. abc \in Seq(Seq(Nat)) /\ Len(abc) # 0
    <2>1. bc \in Seq(Seq(Nat))
      BY <1>7
    <2>2. EndToEnd(a, bc, abc)
      BY ONLY a \in Seq(Seq(Nat)), <2>1, <1>3, Follows, Zenon
    <2> QED
      BY <1>7, <2>2 DEF EndToEnd
  <1>9. FlattenSeq(bc) = FlattenSeq(b) \o FlattenSeq(c)
    <2>1. c \in Seq(Seq(Nat)) /\ Len(c) # 0
      BY <1>6
    <2> QED
      BY ONLY b \in Seq(Seq(Nat)), <2>1, Len(b) # 0, <1>2, FlattenBoth
  <1>10. FlattenSeq(abc) = FlattenSeq(a) \o FlattenSeq(bc)
    BY ONLY a \in Seq(Seq(Nat)), <1>7, Len(a) # 0, <1>3, FlattenBoth
  <1>11. FlattenSeq(s) = FlattenSeq(abc) \o FlattenSeq(d)
    BY ONLY <1>8, d \in Seq(Seq(Nat)), Len(d) # 0, <1>4, FlattenBoth
  <1>12. FlattenSeq(ab) = FlattenSeq(a) \o FlattenSeq(b)
    BY ONLY a \in Seq(Seq(Nat)), b \in Seq(Seq(Nat)), Len(a) # 0, Len(b) # 0, <1>5, FlattenBoth
  <1>13. PICK fa : fa = FlattenSeq(a)
    OBVIOUS
  <1>14. PICK fb : fb = FlattenSeq(b)
    OBVIOUS
  <1>15. PICK fc : fc = x \o y \o z
    OBVIOUS
  <1>16. PICK fbc : fbc = fb \o fc
    OBVIOUS
  <1>17. PICK fab : fab = fa \o fb
    OBVIOUS
  <1>18. fa \in Seq(Nat)
    BY ONLY a \in Seq(Seq(Nat)), <1>13, FlattenType
  <1>19. fb \in Seq(Nat)
    BY ONLY b \in Seq(Seq(Nat)), <1>14, FlattenType
  <1>20. fab \in Seq(Nat)
    BY ONLY <1>18, <1>19, <1>17
  <1>21. fa \o fbc = fab \o x \o y \o z
    <2>1. PICK xy : xy = x \o y
      OBVIOUS
    <2>2. PICK fx : fx = fab \o x
      OBVIOUS
    <2>3. PICK fxy : fxy = fab \o xy
      OBVIOUS
    <2>4. fc = xy \o z
      BY <1>15, <2>1
    <2>5. xy \in Seq(Nat)
      BY ONLY x \in Seq(Nat), y \in Seq(Nat), <2>1
    <2>6. fx \o y = fxy
      <3>1. (fab \o x) \o y = fab \o (x \o y)
        BY ONLY <1>20, x \in Seq(Nat), y \in Seq(Nat), Together, Zenon
      <3> QED
        BY ONLY <2>1, <2>2, <2>3, <3>1, Zenon
    <2>7. fxy \o z = fab \o fc
      <3>1. (fab \o xy) \o z = fab \o (xy \o z)
        BY ONLY <1>20, <2>5, z \in Seq(Nat), Together, Zenon
      <3> QED
        BY ONLY <2>3, <2>4, <3>1, Zenon
    <2>8. fc \in Seq(Nat)
      BY ONLY <2>4, <2>5, z \in Seq(Nat)
    <2>9. fab \o fc = fa \o fbc
      <3>1. (fa \o fb) \o fc = fa \o (fb \o fc)
        BY ONLY <1>18, <1>19, <2>8, Together, Zenon
      <3> QED
        BY ONLY <1>16, <1>17, <3>1, Zenon
    <2> QED
      BY ONLY <2>2, <2>6, <2>7, <2>9, Zenon
  <1> DEFINE all == FlattenSeq(s)
             front == FlattenSeq(ab)
             last == FlattenSeq(d)
  <1>22. all = front \o x \o y \o z \o last
    <2>1. FlattenSeq(bc) = fbc /\ front = fab
      BY <1>6, <1>9, <1>12, <1>13, <1>14, <1>15, <1>16, <1>17
    <2>2. FlattenSeq(abc) = fa \o fbc
      BY <1>10, <1>13, <2>1
    <2>3. FlattenSeq(abc) = front \o x \o y \o z
      BY <1>21, <2>1, <2>2
    <2> QED
      BY <1>11, <2>3
  <1>23. s = a \o (b \o <<x, y, z>>) \o d
    BY <1>1, <1>2, <1>3, <1>4
  <1> QED
    BY <1>5, <1>22, <1>23 DEF InList, InString

\* The texts of the numbers a typed transaction begins with, and of those of one without a type.
TypedTexts(c, n, p, q, g) ==
    LET numbers == <<c>> \o <<n>> \o <<p, q>> \o <<g>>
    IN  [i \in DOMAIN numbers |-> write_rlp_integer(numbers[i])]
LegacyTexts(n, q, g) ==
    LET numbers == <<>> \o <<n>> \o <<q>> \o <<g>>
    IN  [i \in DOMAIN numbers |-> write_rlp_integer(numbers[i])]

\* They are the texts of the single numbers, the gas limit's last.
LEMMA TypedNumbers ==
    ASSUME NEW c, NEW n, NEW p, NEW q, NEW g, {c, n, p, q, g} \subseteq Nat
    PROVE  TypedTexts(c, n, p, q, g) =
               <<write_rlp_integer(c), write_rlp_integer(n), write_rlp_integer(p), write_rlp_integer(q)>>
               \o <<write_rlp_integer(g)>>
  <1>1. PICK numbers : numbers = <<c>> \o <<n>> \o <<p, q>> \o <<g>>
    OBVIOUS
  <1>2. PICK texts : texts = [i \in DOMAIN numbers |-> write_rlp_integer(numbers[i])]
    OBVIOUS
  <1>3. /\ DOMAIN numbers = 1 .. 5
        /\ numbers[1] = c /\ numbers[2] = n /\ numbers[3] = p /\ numbers[4] = q /\ numbers[5] = g
    BY <1>1
  <1>4. \A k \in Nat : write_rlp_integer(k) \in Seq(Nat)
    BY WrittenInteger
  <1>5. PICK a : a = <<write_rlp_integer(c), write_rlp_integer(n), write_rlp_integer(p), write_rlp_integer(q)>>
    OBVIOUS
  <1>6. PICK b : b = <<write_rlp_integer(g)>>
    OBVIOUS
  <1>7. PICK s : s = a \o b
    OBVIOUS
  <1>8. /\ a \in Seq(Seq(Nat)) /\ Len(a) = 4
        /\ a[1] = write_rlp_integer(c) /\ a[2] = write_rlp_integer(n)
        /\ a[3] = write_rlp_integer(p) /\ a[4] = write_rlp_integer(q)
    BY <1>4, <1>5
  <1>9. b \in Seq(Seq(Nat)) /\ Len(b) = 1 /\ b[1] = write_rlp_integer(g)
    BY <1>4, <1>6
  <1>10. /\ s \in Seq(Seq(Nat)) /\ Len(s) = 5
         /\ s[1] = a[1] /\ s[2] = a[2] /\ s[3] = a[3] /\ s[4] = a[4] /\ s[5] = b[1]
    <2>1. a \in Seq(Seq(Nat)) /\ b \in Seq(Seq(Nat))
      BY <1>8, <1>9
    <2>2. EndToEnd(a, b, s)
      BY ONLY <2>1, <1>7, Follows, Zenon
    <2>3. 1 \in 1 .. 4 /\ 2 \in 1 .. 4 /\ 3 \in 1 .. 4 /\ 4 \in 1 .. 4 /\ 1 \in 1 .. 1 /\ 4 + 1 = 5
      OBVIOUS
    <2> QED
      BY <1>8, <1>9, <2>2, <2>3 DEF EndToEnd
  <1>11. texts = [i \in 1 .. 5 |-> texts[i]] /\ \A i \in 1 .. 5 : texts[i] = write_rlp_integer(numbers[i])
    BY <1>3, <1>2
  <1>12. \A i \in 1 .. 5 : texts[i] = s[i]
    <2>1. \A i \in 1 .. 5 : i = 1 \/ i = 2 \/ i = 3 \/ i = 4 \/ i = 5
      OBVIOUS
    <2> QED
      BY <1>3, <1>8, <1>9, <1>10, <1>11, <2>1
  <1>13. s = [i \in 1 .. 5 |-> s[i]]
    BY <1>10
  <1>14. texts = s
    BY <1>11, <1>12, <1>13
  <1> QED
    BY <1>5, <1>6, <1>7, <1>14, <1>1, <1>2, Zenon DEF TypedTexts

\* And without a type.
LEMMA LegacyNumbers ==
    ASSUME NEW n \in Nat, NEW q \in Nat, NEW g \in Nat
    PROVE  LegacyTexts(n, q, g) = <<write_rlp_integer(n), write_rlp_integer(q)>> \o <<write_rlp_integer(g)>>
  <1>1. PICK numbers : numbers = <<>> \o <<n>> \o <<q>> \o <<g>>
    OBVIOUS
  <1>2. PICK texts : texts = [i \in DOMAIN numbers |-> write_rlp_integer(numbers[i])]
    OBVIOUS
  <1>3. <<>> \o <<n>> = <<n>>
    OBVIOUS
  <1>4. DOMAIN numbers = 1 .. 3 /\ numbers[1] = n /\ numbers[2] = q /\ numbers[3] = g
    <2>1. PICK x : x = <<n>>
      OBVIOUS
    <2>2. PICK y : y = <<q>>
      OBVIOUS
    <2>3. PICK z : z = <<g>>
      OBVIOUS
    <2>4. x \in Seq(Nat) /\ Len(x) = 1 /\ x[1] = n
      BY ONLY <2>1, n \in Nat
    <2>5. y \in Seq(Nat) /\ Len(y) = 1 /\ y[1] = q
      BY ONLY <2>2, q \in Nat
    <2>6. z \in Seq(Nat) /\ Len(z) = 1 /\ z[1] = g
      BY ONLY <2>3, g \in Nat
    <2>7. numbers = x \o y \o z
      BY <1>3, <1>1, <2>1, <2>2, <2>3
    <2>8. /\ numbers \in Seq(Nat) /\ Len(numbers) = Len(x) + Len(y) + Len(z)
          /\ \A i \in 1 .. Len(x) : numbers[i] = x[i]
          /\ \A i \in 1 .. Len(y) : numbers[Len(x) + i] = y[i]
          /\ \A i \in 1 .. Len(z) : numbers[Len(x) + Len(y) + i] = z[i]
      <3>1. x \in Seq(Nat)
        BY <2>4
      <3>2. y \in Seq(Nat)
        BY <2>5
      <3>3. z \in Seq(Nat)
        BY <2>6
      <3>4. InThree(numbers, x, y, z)
        BY <3>1, <3>2, <3>3, <2>7, ThreeLaid, Zenon
      <3> QED
        BY ONLY <3>4 DEF InThree
    <2>9. numbers \in Seq(Nat) /\ Len(numbers) = 3
      BY ONLY <2>4, <2>5, <2>6, <2>8
    <2>10. numbers[1] = x[1] /\ numbers[2] = y[1] /\ numbers[3] = z[1]
      <3>1. 1 \in 1 .. 1 /\ 1 + 1 = 2
        OBVIOUS
      <3>2. Len(x) = 1 /\ Len(y) = 1 /\ Len(z) = 1
        BY <2>4, <2>5, <2>6
      <3> QED
        BY ONLY <2>8, <3>1, <3>2
    <2> QED
      BY ONLY <2>4, <2>5, <2>6, <2>9, <2>10
  <1>5. \A k \in Nat : write_rlp_integer(k) \in Seq(Nat)
    BY WrittenInteger
  <1>6. PICK a : a = <<write_rlp_integer(n), write_rlp_integer(q)>>
    OBVIOUS
  <1>7. PICK b : b = <<write_rlp_integer(g)>>
    OBVIOUS
  <1>8. PICK s : s = a \o b
    OBVIOUS
  <1>9. a \in Seq(Seq(Nat)) /\ Len(a) = 2 /\ a[1] = write_rlp_integer(n) /\ a[2] = write_rlp_integer(q)
    BY <1>5, <1>6
  <1>10. b \in Seq(Seq(Nat)) /\ Len(b) = 1 /\ b[1] = write_rlp_integer(g)
    BY <1>5, <1>7
  <1>11. s \in Seq(Seq(Nat)) /\ Len(s) = 3 /\ s[1] = a[1] /\ s[2] = a[2] /\ s[3] = b[1]
    <2>1. a \in Seq(Seq(Nat)) /\ b \in Seq(Seq(Nat))
      BY <1>9, <1>10
    <2>2. EndToEnd(a, b, s)
      BY ONLY <2>1, <1>8, Follows, Zenon
    <2>3. 1 \in 1 .. 2 /\ 2 \in 1 .. 2 /\ 1 \in 1 .. 1 /\ 2 + 1 = 3
      OBVIOUS
    <2> QED
      BY <1>9, <1>10, <2>2, <2>3 DEF EndToEnd
  <1>12. texts = [i \in 1 .. 3 |-> texts[i]] /\ \A i \in 1 .. 3 : texts[i] = write_rlp_integer(numbers[i])
    BY <1>4, <1>2
  <1>13. \A i \in 1 .. 3 : texts[i] = s[i]
    <2>1. \A i \in 1 .. 3 : i = 1 \/ i = 2 \/ i = 3
      OBVIOUS
    <2> QED
      BY <1>4, <1>9, <1>10, <1>11, <1>12, <2>1
  <1>14. s = [i \in 1 .. 3 |-> s[i]]
    BY <1>11
  <1>15. texts = s
    BY <1>12, <1>13, <1>14
  <1> QED
    BY <1>6, <1>7, <1>8, <1>15, <1>1, <1>2, Zenon DEF LegacyTexts

\* Zeros, as many as are missing.
LEMMA ZerosAre ==
    ASSUME NEW m \in Nat, NEW zeros, zeros = [i \in 1 .. m |-> 0]
    PROVE  zeros \in Seq(Nat) /\ Len(zeros) = m /\ \A i \in 1 .. m : zeros[i] = 0
  OBVIOUS

\* Nothing is left of a number that is divided by a larger one.
LEMMA SmallQuotient == ASSUME NEW n \in Nat, NEW d \in Nat, n < d PROVE n \div d = 0
  OBVIOUS

\* A string is over a set when its elements are in it.
LEMMA StringOf ==
    ASSUME NEW S, NEW n \in Nat, NEW s, s = [i \in 1 .. n |-> s[i]], \A i \in 1 .. n : s[i] \in S
    PROVE  s \in Seq(S) /\ Len(s) = n
  <1>1. s \in [1 .. n -> S]
    OBVIOUS
  <1> QED
    BY <1>1

\* A string padded with zeros, and a number's bytes padded.
PaddedText(text, size) == [i \in 1 .. size - Len(text) |-> 0] \o text
Padded(n, size) == PaddedText(ToBytes(n), size)

\* Bytes are the number they stand for, with the zeros that its own bytes leave out.
LEMMA PaddedIs ==
    ASSUME NEW bytes \in Seq(Byte)
    PROVE  /\ Value(bytes) \in Nat /\ Value(bytes) < Weight[Len(bytes)]
           /\ Padded(Value(bytes), Len(bytes)) = bytes
  <1>1. PICK n : n = Value(bytes)
    OBVIOUS
  <1>2. PICK own : own = ToBytes(n)
    OBVIOUS
  <1>3. PICK zeros : zeros = [i \in 1 .. Len(bytes) - Len(own) |-> 0]
    OBVIOUS
  <1>4. PICK word : word = zeros \o own
    OBVIOUS
  <1> DEFINE L == Len(bytes)
             D == Digits(n)
  <1>5. bytes \in Seq(Nat) /\ L \in Nat
    BY ByteSeqs
  <1>6. n \in Nat /\ n < Weight[L] /\ DigitsOf(bytes, n, ByteBase, Weight)
    <2>1. n = Numeral(ByteBase, bytes)
      BY <1>1, Zenon DEF Value, Numeral
    <2>2. bytes \in Seq(0 .. ByteBase - 1)
      BY DEF Byte
    <2> QED
      BY <2>1, <2>2, WeightsArePowers, DigitsOfNumeral
  <1>7. own \in Seq(Nat) /\ Len(own) = D /\ D \in Nat /\ D <= L
    BY <1>5, <1>6, <1>2, ToBytesType, ByteSeqs, DigitsBelow
  <1>8. own = [i \in 1 .. D |-> (n \div Weight[D - i]) % ByteBase]
    BY <1>2 DEF ToBytes
  <1>9. \A i \in 1 .. L : bytes[i] = (n \div Weight[L - i]) % ByteBase
    BY <1>6 DEF DigitsOf
  <1>10. n < Weight[D]
    BY <1>6, DigitsFit
  <1> HIDE DEF L, D
  <1>11. zeros \in Seq(Nat) /\ Len(zeros) = L - D /\ \A i \in 1 .. L - D : zeros[i] = 0
    <2>1. L - D \in Nat /\ zeros = [i \in 1 .. L - D |-> 0]
      BY <1>5, <1>7, <1>3 DEF L
    <2> QED
      BY <2>1, ZerosAre
  <1>12. /\ word \in Seq(Nat) /\ Len(word) = L
         /\ \A i \in 1 .. L - D : word[i] = 0
         /\ \A i \in 1 .. D : word[(L - D) + i] = own[i]
    <2>1. /\ word \in Seq(Nat) /\ Len(word) = Len(zeros) + Len(own)
          /\ \A i \in 1 .. Len(zeros) : word[i] = zeros[i]
          /\ \A i \in 1 .. Len(own) : word[Len(zeros) + i] = own[i]
      <3>1. zeros \in Seq(Nat)
        BY <1>11
      <3>2. own \in Seq(Nat)
        BY <1>7
      <3>3. word = zeros \o own
        BY <1>4
      <3>4. InTwo(word, zeros, own)
        BY <3>1, <3>2, <3>3, TwoLaid, Zenon
      <3> QED
        BY ONLY <3>4 DEF InTwo
    <2>2. Len(zeros) + Len(own) = L
      BY ONLY <1>5, <1>7, <1>11
    <2>3. Len(zeros) = L - D /\ Len(own) = D
      BY <1>7, <1>11
    <2> QED
      BY ONLY <1>11, <2>1, <2>2, <2>3
  <1>13. ASSUME NEW i \in 1 .. L PROVE word[i] = bytes[i]
    <2>1. CASE i <= L - D
      <3>1. i \in 1 .. L - D /\ L - i \in Nat /\ D <= L - i
        BY <1>5, <1>7, <2>1
      <3>2. n < Weight[L - i] /\ Weight[L - i] \in Nat
        <4>1. Weight[D] <= Weight[L - i] /\ Weight[D] \in Nat /\ Weight[L - i] \in Nat
          BY <1>7, <3>1, WeightGrows, WeightRecursion
        <4> QED
          BY <1>6, <1>10, <4>1
      <3>3. n \div Weight[L - i] = 0
        <4>1. n \in Nat
          BY <1>6
        <4> QED
          BY ONLY <3>2, <4>1, SmallQuotient
      <3>4. 0 % ByteBase = 0
        <4>1. \A b \in Nat : b >= 7 => 0 % b = 0
          OBVIOUS
        <4> QED
          BY <4>1, BaseType
      <3>5. bytes[i] = (n \div Weight[L - i]) % ByteBase
        BY <1>9
      <3> QED
        BY <1>12, <3>1, <3>3, <3>4, <3>5
    <2>2. CASE ~(i <= L - D)
      <3> DEFINE j == i - (L - D)
      <3>1. j \in 1 .. D /\ (L - D) + j = i /\ D - j = L - i
        BY <1>5, <1>7, <2>2
      <3> HIDE DEF j
      <3>2. word[i] = own[j]
        <4>1. word[(L - D) + j] = own[j]
          <5>1. \A k \in 1 .. D : word[(L - D) + k] = own[k]
            BY ONLY <1>12, Zenon
          <5>2. j \in 1 .. D
            BY <3>1
          <5> QED
            BY ONLY <5>1, <5>2, Zenon
        <4> QED
          BY <3>1, <4>1, Zenon
      <3>3. own[j] = (n \div Weight[D - j]) % ByteBase
        BY <1>8, <3>1
      <3> QED
        BY <1>9, <3>1, <3>2, <3>3
    <2> QED
      BY <2>1, <2>2
  <1>14. word = bytes
    BY <1>5, <1>12, <1>13, SameElements DEF L
  <1> QED
    BY <1>6, <1>14, <1>1, <1>2, <1>3, <1>4 DEF L, Padded, PaddedText

\* Whom a call of transfer pays, and how much.
RecipientOf(data) ==
    LET word == Len(Selector) + Uint256Size
    IN  SubSeq(data, word - AddressSize + 1, word)
AmountOf(data) == Value(SubSeq(data, Len(Selector) + Uint256Size + 1, MaxDataSize))

\* A call of transfer is the selector, the recipient's word and the amount's.
LEMMA CallIs ==
    ASSUME NEW data \in Seq(Byte), IsTransfer(data)
    PROVE  /\ AmountOf(data) \in Nat
           /\ Selector \o PaddedText(RecipientOf(data), Uint256Size) \o Padded(AmountOf(data), Uint256Size) = data
  <1>1. PICK recipient : recipient = RecipientOf(data)
    OBVIOUS
  <1>2. PICK amount : amount = AmountOf(data)
    OBVIOUS
  <1>3. PICK front : front = PaddedText(recipient, Uint256Size)
    OBVIOUS
  <1>4. PICK back : back = Padded(amount, Uint256Size)
    OBVIOUS
  <1>5. PICK S : S = Len(Selector)
    OBVIOUS
  <1>6. PICK U : U = Uint256Size
    OBVIOUS
  <1>7. PICK A : A = AddressSize
    OBVIOUS
  <1>8. PICK M : M = MaxDataSize
    OBVIOUS
  <1>9. PICK last : last = SubSeq(data, S + U + 1, M)
    OBVIOUS
  <1>10. /\ S \in Nat /\ U \in Nat /\ A \in Nat /\ A <= U /\ Selector \in Seq(Nat)
         /\ data \in Seq(Nat) /\ Len(data) = M /\ M = S + 2 * U /\ M \in Nat
    BY <1>5, <1>6, <1>7, <1>8, SizeAssumption, ByteAssumption, ByteSeqs DEF IsTransfer, MaxDataSize
  <1>11. \A i \in 1 .. S : Selector[i] = data[i]
    <2>1. SubSeq(Selector, 1, S) = SubSeq(data, 1, S)
      BY <1>5 DEF IsTransfer, IsPrefix
    <2> DEFINE p == SubSeq(Selector, 1, S)
               q == SubSeq(data, 1, S)
    <2>2. \A i \in 1 .. S : p[i] = Selector[i]
      BY <1>10
    <2>3. \A i \in 1 .. S : q[i] = data[i]
      BY <1>10
    <2> HIDE DEF p, q
    <2> QED
      BY <2>1, <2>2, <2>3 DEF p, q
  <1>12. \A i \in 1 .. U - A : data[S + i] = 0
    BY <1>5, <1>6, <1>7 DEF IsTransfer
  <1>13. amount = Value(last) /\ recipient = SubSeq(data, S + U - A + 1, S + U)
    <2>1. amount = Value(last)
      BY <1>5, <1>6, <1>8, <1>9, <1>2 DEF AmountOf
    <2>2. recipient = SubSeq(data, (S + U) - A + 1, S + U)
      BY <1>5, <1>6, <1>7, <1>1, Zenon DEF RecipientOf
    <2>3. (S + U) - A + 1 = S + U - A + 1
      BY ONLY <1>10
    <2> QED
      BY <2>1, <2>2, <2>3, Zenon
  <1>14. last \in Seq(Byte) /\ Len(last) = U /\ \A i \in 1 .. U : last[i] = data[S + U + i]
    <2>1. PICK k : k = S + U + 1
      OBVIOUS
    <2>2. k \in Nat \ {0} /\ M \in Nat /\ M <= Len(data)
      BY <1>10, <2>1
    <2> DEFINE q == SubSeq(data, k, M)
    <2>3. /\ q \in Seq(Nat) /\ DOMAIN q = 1 .. Len(q)
          /\ Len(q) = IF k <= M THEN M - k + 1 ELSE 0
          /\ \A i \in 1 .. Len(q) : q[i] = data[k + i - 1]
      <3>1. q = SubSeq(data, k, M)
        OBVIOUS
      <3> HIDE DEF q
      <3>2. PartOf(q, data, k, M)
        BY <1>10, <2>2, <3>1, Part, Zenon
      <3> QED
        BY ONLY <3>2 DEF PartOf
    <2>4. Len(q) = U
      <3> HIDE DEF q
      <3> QED
        BY <1>10, <2>1, <2>3
    <2>5. ASSUME NEW i \in 1 .. U PROVE q[i] = data[S + U + i] /\ q[i] \in Byte
      <3>1. q[i] = data[k + i - 1] /\ k + i - 1 = S + U + i /\ S + U + i \in 1 .. M
        <4> HIDE DEF q
        <4>1. k + i - 1 = S + U + i /\ S + U + i \in 1 .. M
          BY ONLY <1>10, <2>1, i \in 1 .. U
        <4> QED
          BY ONLY <2>3, <2>4, <4>1, i \in 1 .. U
      <3>2. data[S + U + i] \in Byte
        BY <1>10, <3>1, Elements
      <3> HIDE DEF q
      <3> QED
        BY <3>1, <3>2
    <2>6. q \in Seq(Byte)
      <3> HIDE DEF q
      <3>1. q = [i \in 1 .. U |-> q[i]]
        BY <2>3, <2>4
      <3>2. U \in Nat
        BY <1>10
      <3>3. \A i \in 1 .. U : q[i] \in Byte
        BY <2>5
      <3> QED
        BY ONLY <3>1, <3>2, <3>3, StringOf
    <2>7. last = q
      BY <1>9, <2>1
    <2> HIDE DEF q
    <2> QED
      BY <2>4, <2>5, <2>6, <2>7
  <1>15. amount \in Nat /\ back = last /\ back \in Seq(Nat) /\ Len(back) = U
    <2>1. last \in Seq(Byte)
      BY <1>14
    <2>2. amount = Value(last)
      BY <1>13
    <2>3. amount \in Nat /\ back = last
      BY <1>14, <1>6, <1>4, <2>1, <2>2, PaddedIs
    <2> QED
      BY <1>14, <2>3, ByteSeqs
  <1>16. recipient \in Seq(Nat) /\ Len(recipient) = A
        /\ \A i \in 1 .. A : recipient[i] = data[S + U - A + i]
    <2>1. PICK k : k = S + U - A + 1
      OBVIOUS
    <2>2. PICK m : m = S + U
      OBVIOUS
    <2>3. k \in Nat \ {0} /\ m \in Nat /\ m <= Len(data) /\ recipient = SubSeq(data, k, m)
      <3>1. recipient = SubSeq(data, k, m)
        BY <1>13, <2>1, <2>2
      <3>2. k \in Nat \ {0} /\ m \in Nat
        BY ONLY <1>10, <2>1, <2>2
      <3>3. m <= Len(data)
        BY ONLY <1>10, <2>2
      <3> QED
        BY ONLY <3>1, <3>2, <3>3
    <2>4. data \in Seq(Nat)
      BY <1>10
    <2>5. k \in Nat \ {0}
      BY <2>3
    <2>6. m \in Nat
      BY <2>3
    <2>7. m <= Len(data)
      BY <2>3
    <2>8. recipient = SubSeq(data, k, m)
      BY <2>3
    <2>9. /\ recipient \in Seq(Nat) /\ DOMAIN recipient = 1 .. Len(recipient)
          /\ Len(recipient) = IF k <= m THEN m - k + 1 ELSE 0
          /\ \A i \in 1 .. Len(recipient) : recipient[i] = data[k + i - 1]
      <3>1. PartOf(recipient, data, k, m)
        BY <2>4, <2>5, <2>6, <2>7, <2>8, Part, Zenon
      <3> QED
        BY ONLY <3>1 DEF PartOf
    <2>10. Len(recipient) = A
      BY <1>10, <2>1, <2>2, <2>9
    <2>11. \A i \in 1 .. A : k + i - 1 = S + U - A + i
      BY <1>10, <2>1
    <2> QED
      BY <2>9, <2>10, <2>11
  <1>17. front \in Seq(Nat) /\ Len(front) = U /\ \A i \in 1 .. U : front[i] = data[S + i]
    <2>1. PICK zeros : zeros = [i \in 1 .. U - A |-> 0]
      OBVIOUS
    <2>2. U - A \in Nat
      BY <1>10
    <2>3. zeros \in Seq(Nat) /\ Len(zeros) = U - A /\ \A i \in 1 .. U - A : zeros[i] = 0
      BY ONLY <2>1, <2>2, ZerosAre
    <2>4. front = zeros \o recipient
      BY <1>16, <1>6, <1>3, <2>1 DEF PaddedText
    <2>5. /\ front \in Seq(Nat) /\ Len(front) = Len(zeros) + Len(recipient)
          /\ \A i \in 1 .. Len(zeros) : front[i] = zeros[i]
          /\ \A i \in 1 .. Len(recipient) : front[Len(zeros) + i] = recipient[i]
      <3>1. zeros \in Seq(Nat)
        BY <2>3
      <3>2. recipient \in Seq(Nat)
        BY <1>16
      <3>3. InTwo(front, zeros, recipient)
        BY <3>1, <3>2, <2>4, TwoLaid, Zenon
      <3> QED
        BY ONLY <3>3 DEF InTwo
    <2>6. /\ \A i \in 1 .. U - A : front[i] = 0
          /\ \A i \in 1 .. A : front[(U - A) + i] = data[S + U - A + i]
      BY ONLY <1>16, <2>3, <2>5
    <2>7. ASSUME NEW i \in 1 .. U PROVE front[i] = data[S + i]
      <3>1. CASE i <= U - A
        <4>1. i \in 1 .. U - A
          BY <1>10, <3>1
        <4> QED
          BY ONLY <1>12, <2>6, <4>1
      <3>2. CASE ~(i <= U - A)
        <4> DEFINE j == i - (U - A)
        <4>1. j \in 1 .. A /\ (U - A) + j = i /\ S + U - A + j = S + i
          BY <1>10, <3>2
        <4> HIDE DEF j
        <4> QED
          BY ONLY <2>6, <4>1
      <3> QED
        BY <3>1, <3>2
    <2>8. Len(front) = U
      BY ONLY <1>10, <1>16, <2>3, <2>5
    <2> QED
      BY <2>5, <2>7, <2>8
  <1>18. PICK s : s = Selector \o front \o back
    OBVIOUS
  <1>19. /\ s \in Seq(Nat) /\ Len(s) = Len(Selector) + Len(front) + Len(back)
         /\ \A i \in 1 .. Len(Selector) : s[i] = Selector[i]
         /\ \A i \in 1 .. Len(front) : s[Len(Selector) + i] = front[i]
         /\ \A i \in 1 .. Len(back) : s[Len(Selector) + Len(front) + i] = back[i]
    <2>1. Selector \in Seq(Nat)
      BY <1>10
    <2>2. front \in Seq(Nat)
      BY <1>17
    <2>3. back \in Seq(Nat)
      BY <1>15
    <2>4. InThree(s, Selector, front, back)
      BY <2>1, <2>2, <2>3, <1>18, ThreeLaid, Zenon
    <2> QED
      BY ONLY <2>4 DEF InThree
  <1>20. /\ \A i \in 1 .. S : s[i] = data[i]
         /\ \A i \in 1 .. U : s[S + i] = data[S + i]
         /\ \A i \in 1 .. U : s[S + U + i] = data[S + U + i]
    <2>1. Len(Selector) = S /\ Len(front) = U /\ Len(back) = U
      BY <1>15, <1>17, <1>5
    <2>2. \A i \in 1 .. S : s[i] = data[i]
      BY ONLY <1>11, <1>19, <2>1
    <2>3. \A i \in 1 .. U : s[S + i] = data[S + i]
      BY ONLY <1>17, <1>19, <2>1
    <2>4. \A i \in 1 .. U : s[S + U + i] = data[S + U + i]
      BY ONLY <1>14, <1>15, <1>19, <2>1
    <2> QED
      BY ONLY <2>2, <2>3, <2>4
  <1>21. ASSUME NEW i \in 1 .. M PROVE s[i] = data[i]
    <2>1. CASE i <= S
      <3>1. i \in 1 .. S
        BY <1>10, <2>1
      <3> QED
        BY <1>20, <3>1
    <2>2. CASE i > S /\ i <= S + U
      <3> DEFINE j == i - S
      <3>1. j \in 1 .. U /\ S + j = i
        BY <1>10, <2>2
      <3> HIDE DEF j
      <3> QED
        BY <1>20, <3>1
    <2>3. CASE i > S + U
      <3> DEFINE j == i - (S + U)
      <3>1. j \in 1 .. U /\ S + U + j = i
        BY <1>10, <2>3
      <3> HIDE DEF j
      <3> QED
        BY <1>20, <3>1
    <2> QED
      <3> QED
        BY <1>10, <2>1, <2>2, <2>3
  <1>22. Len(s) = M
    <2>1. Len(s) = S + U + U
      BY <1>15, <1>17, <1>19, <1>5
    <2> QED
      BY <1>10, <2>1
  <1>23. s = data
    BY <1>10, <1>19, <1>21, <1>22, SameElements
  <1> QED
    BY <1>15, <1>18, <1>23, <1>1, <1>2, <1>3, <1>4

\* A transfer t is the one that a request r asks for.
AsksFor(r, t) ==
    /\ t.type = r.type /\ t.chain_id = r.network.chain_id /\ t.nonce = r.nonce /\ t.gas = r.gas_limit
    /\ t.price = r.gas_price_or_max_fee /\ t.priority = r.max_priority_fee /\ t.token = r.token
    /\ IF t.token = None
       THEN t.recipient = r.contract /\ t.amount = r.amount /\ r.data = <<>>
       ELSE /\ t.token.contract = r.contract
            /\ Selector \o PaddedText(t.recipient, Uint256Size) \o Padded(t.amount, Uint256Size) = r.data

\* What is paid and to whom, as both kinds of transaction write it.
Paid(r) == <<write_rlp_bytes(r.contract), write_rlp_integer(IF r.token = None THEN r.amount ELSE 0),
             write_rlp_bytes(r.data)>>

\* The encoding writes what is paid as the parser's own serialization does.
LEMMA BodyIs ==
    ASSUME NEW r, NEW t, AsksFor(r, t)
    PROVE  Encoding(t) =
               LET Num(n) == write_rlp_integer(n)
                   body == <<Num(t.gas)>> \o Paid(r)
               IN  IF t.type = "Eip1559"
                   THEN <<Eip1559Type>> \o write_rlp_list(FlattenSeq(
                            <<Num(t.chain_id), Num(t.nonce), Num(t.priority), Num(t.price)>>
                            \o body \o <<write_rlp_list(<<>>)>>))
                   ELSE write_rlp_list(FlattenSeq(
                            <<Num(t.nonce), Num(t.price)>> \o body \o <<Num(t.chain_id), Num(0), Num(0)>>))
  <1> DEFINE pay == IF t.token = None
                    THEN <<write_rlp_bytes(t.recipient), write_rlp_integer(t.amount), write_rlp_bytes(<<>>)>>
                    ELSE <<write_rlp_bytes(t.token.contract), write_rlp_integer(0),
                           write_rlp_bytes(Selector \o PaddedText(t.recipient, Uint256Size)
                                           \o PaddedText(ToBytes(t.amount), Uint256Size))>>
  <1>1. pay = Paid(r)
    <2>1. CASE t.token = None
      BY <2>1 DEF AsksFor, Paid
    <2>2. CASE t.token # None
      <3>1. /\ t.token.contract = r.contract /\ r.token # None
            /\ Selector \o PaddedText(t.recipient, Uint256Size) \o PaddedText(ToBytes(t.amount), Uint256Size)
                   = r.data
        BY <2>2 DEF AsksFor, Padded
      <3> QED
        BY <2>2, <3>1, Zenon DEF Paid
    <2> QED
      BY <2>1, <2>2
  <1>2. Encoding(t) =
               LET Num(n) == write_rlp_integer(n)
                   body == <<Num(t.gas)>> \o pay
               IN  IF t.type = "Eip1559"
                   THEN <<Eip1559Type>> \o write_rlp_list(FlattenSeq(
                            <<Num(t.chain_id), Num(t.nonce), Num(t.priority), Num(t.price)>>
                            \o body \o <<write_rlp_list(<<>>)>>))
                   ELSE write_rlp_list(FlattenSeq(
                            <<Num(t.nonce), Num(t.price)>> \o body \o <<Num(t.chain_id), Num(0), Num(0)>>))
    BY Zenon DEF Encoding, PaddedText
  <1> HIDE DEF pay
  <1> QED
    BY <1>1, <1>2, Zenon

\* Nothing after a string leaves it.
LEMMA NothingAfter == ASSUME NEW s \in Seq(Nat) PROVE s \o <<>> = s
  OBVIOUS

\* The transfer that a typed request asks for is encoded as the request is serialized.
LEMMA TypedEncoding ==
    ASSUME NEW r, Written(r), r.type = "Eip1559", NEW t, AsksFor(r, t)
    PROVE  Encoding(t) = serialize_transaction(r, None)
  <1>1. PICK c : c = r.network.chain_id
    OBVIOUS
  <1>2. PICK n : n = r.nonce
    OBVIOUS
  <1>3. PICK p : p = r.max_priority_fee
    OBVIOUS
  <1>4. PICK q : q = r.gas_price_or_max_fee
    OBVIOUS
  <1>5. PICK g : g = r.gas_limit
    OBVIOUS
  <1>6. PICK m : m = IF r.token = None THEN r.amount ELSE 0
    OBVIOUS
  <1>7. c \in Nat /\ n \in Nat /\ p \in Nat /\ q \in Nat /\ g \in Nat /\ m \in Nat
    BY <1>1, <1>2, <1>3, <1>4, <1>5, <1>6 DEF Written
  <1>8. PICK x : x = write_rlp_bytes(r.contract)
    OBVIOUS
  <1>9. PICK y : y = write_rlp_integer(m)
    OBVIOUS
  <1>10. PICK z : z = write_rlp_bytes(r.data)
    OBVIOUS
  <1>11. PICK e : e = write_rlp_list(<<>>)
    OBVIOUS
  <1>12. x \in Seq(Nat) /\ y \in Seq(Nat) /\ z \in Seq(Nat) /\ e \in Seq(Nat)
    <2>1. <<>> \in Seq(Nat) /\ r.contract \in Seq(Nat) /\ r.data \in Seq(Nat)
      BY DEF Written
    <2> QED
      BY <1>7, <1>8, <1>9, <1>10, <1>11, <2>1, WrittenBytes, WrittenInteger, WrittenList
  <1>13. PICK a : a = <<write_rlp_integer(c), write_rlp_integer(n), write_rlp_integer(p), write_rlp_integer(q)>>
    OBVIOUS
  <1>14. PICK b : b = <<write_rlp_integer(g)>>
    OBVIOUS
  <1>15. PICK d : d = <<e>>
    OBVIOUS
  <1>16. \A k \in Nat : write_rlp_integer(k) \in Seq(Nat)
    BY WrittenInteger
  <1>17. a \in Seq(Seq(Nat)) /\ Len(a) # 0
    BY ONLY <1>7, <1>13, <1>16
  <1>18. b \in Seq(Seq(Nat)) /\ Len(b) # 0
    BY ONLY <1>7, <1>14, <1>16
  <1>19. d \in Seq(Seq(Nat)) /\ Len(d) # 0 /\ FlattenSeq(d) = e
    <2>1. d \in Seq(Seq(Nat)) /\ Len(d) = 1 /\ FlattenSeq(d) = e
      BY ONLY <1>12, <1>15, FlattenOne
    <2> QED
      BY <2>1
  <1>20. PICK fields : fields = FlattenSeq(a \o b) \o x \o y \o z \o e
    OBVIOUS
  <1>21. SignedFields(r) = fields
    <2>1. PICK texts : texts = TypedTexts(c, n, p, q, g)
      OBVIOUS
    <2>2. texts = a \o b
      <3>1. {c, n, p, q, g} \subseteq Nat
        BY <1>7
      <3>2. TypedTexts(c, n, p, q, g) =
                <<write_rlp_integer(c), write_rlp_integer(n), write_rlp_integer(p), write_rlp_integer(q)>>
                \o <<write_rlp_integer(g)>>
        BY ONLY <3>1, TypedNumbers
      <3> QED
        BY <1>13, <1>14, <2>1, <3>2, Zenon
    <2>3. SignedFields(r) = FlattenSeq(texts) \o x \o y \o z \o e
      BY <1>1, <1>2, <1>3, <1>4, <1>5, <1>6, <1>8, <1>9, <1>10, <1>11, <2>1, Zenon DEF SignedFields, TypedTexts
    <2> QED
      BY <1>20, <2>2, <2>3, Zenon
  <1>22. serialize_transaction(r, None) = <<Eip1559Type>> \o write_rlp_list(fields)
    <2>1. SignatureFields(r, None) = <<>>
      BY Zenon DEF SignatureFields
    <2>2. fields \in Seq(Nat)
      BY <1>21, SignedFieldsType
    <2>3. fields \o <<>> = fields
      BY <2>2, NothingAfter
    <2> QED
      BY <1>21, <2>1, <2>3, Zenon DEF serialize_transaction
  <1>23. Paid(r) = <<x, y, z>>
    BY <1>6, <1>8, <1>9, <1>10, Zenon DEF Paid
  <1>24. Encoding(t) = <<Eip1559Type>> \o write_rlp_list(FlattenSeq(a \o (b \o <<x, y, z>>) \o d))
    <2>1. /\ t.type = "Eip1559" /\ t.chain_id = c /\ t.nonce = n /\ t.priority = p /\ t.price = q /\ t.gas = g
      BY <1>1, <1>2, <1>3, <1>4, <1>5 DEF AsksFor
    <2> QED
      BY <1>11, <1>13, <1>14, <1>15, <1>23, <2>1, BodyIs, Zenon
  <1>25. InList(a, b, x, y, z, d) = InString(a, b, x, y, z, d)
    <2>1. a \in Seq(Seq(Nat))
      BY <1>17
    <2>2. b \in Seq(Seq(Nat))
      BY <1>18
    <2>3. d \in Seq(Seq(Nat))
      BY <1>19
    <2>4. Len(a) # 0 /\ Len(b) # 0 /\ Len(d) # 0
      BY <1>17, <1>18, <1>19
    <2>5. x \in Seq(Nat) /\ y \in Seq(Nat) /\ z \in Seq(Nat)
      BY <1>12
    <2> QED
      BY <2>1, <2>2, <2>3, <2>4, <2>5, PayloadLaid
  <1> QED
    BY <1>19, <1>20, <1>22, <1>24, <1>25, Zenon DEF InList, InString

\* And the one that a request without a type asks for.
LEMMA LegacyEncoding ==
    ASSUME NEW r, Written(r), r.type = "LegacyEip155", NEW t, AsksFor(r, t)
    PROVE  Encoding(t) = serialize_transaction(r, None)
  <1>1. PICK c : c = r.network.chain_id
    OBVIOUS
  <1>2. PICK n : n = r.nonce
    OBVIOUS
  <1>3. PICK q : q = r.gas_price_or_max_fee
    OBVIOUS
  <1>4. PICK g : g = r.gas_limit
    OBVIOUS
  <1>5. PICK m : m = IF r.token = None THEN r.amount ELSE 0
    OBVIOUS
  <1>6. c \in Nat /\ n \in Nat /\ q \in Nat /\ g \in Nat /\ m \in Nat
    BY <1>1, <1>2, <1>3, <1>4, <1>5 DEF Written
  <1>7. PICK x : x = write_rlp_bytes(r.contract)
    OBVIOUS
  <1>8. PICK y : y = write_rlp_integer(m)
    OBVIOUS
  <1>9. PICK z : z = write_rlp_bytes(r.data)
    OBVIOUS
  <1>10. PICK u : u = write_rlp_integer(c)
    OBVIOUS
  <1>11. PICK v : v = write_rlp_integer(0)
    OBVIOUS
  <1>12. x \in Seq(Nat) /\ y \in Seq(Nat) /\ z \in Seq(Nat) /\ u \in Seq(Nat) /\ v \in Seq(Nat)
    <2>1. 0 \in Nat /\ r.contract \in Seq(Nat) /\ r.data \in Seq(Nat)
      BY DEF Written
    <2> QED
      BY <1>11, <1>6, <1>7, <1>8, <1>9, <1>10, <2>1, WrittenBytes, WrittenInteger
  <1>13. PICK a : a = <<write_rlp_integer(n), write_rlp_integer(q)>>
    OBVIOUS
  <1>14. PICK b : b = <<write_rlp_integer(g)>>
    OBVIOUS
  <1>15. PICK d : d = <<u, v, v>>
    OBVIOUS
  <1>16. \A k \in Nat : write_rlp_integer(k) \in Seq(Nat)
    BY WrittenInteger
  <1>17. a \in Seq(Seq(Nat)) /\ Len(a) # 0
    BY ONLY <1>6, <1>13, <1>16
  <1>18. b \in Seq(Seq(Nat)) /\ Len(b) # 0
    BY ONLY <1>6, <1>14, <1>16
  <1>19. d \in Seq(Seq(Nat)) /\ Len(d) # 0 /\ FlattenSeq(d) = u \o v \o v
    <2>1. u \in Seq(Nat)
      BY <1>12
    <2>2. v \in Seq(Nat)
      BY <1>12
    <2>3. d \in Seq(Seq(Nat)) /\ Len(d) = 3 /\ FlattenSeq(d) = u \o v \o v
      BY ONLY <2>1, <2>2, <1>15, FlattenThree
    <2> QED
      BY <2>3
  <1>20. PICK fields : fields = FlattenSeq(a \o b) \o x \o y \o z
    OBVIOUS
  <1>21. SignedFields(r) = fields \o <<>>
    <2>1. PICK texts : texts = LegacyTexts(n, q, g)
      OBVIOUS
    <2>2. texts = a \o b
      BY <1>6, <1>13, <1>14, <2>1, LegacyNumbers
    <2>3. SignedFields(r) = FlattenSeq(texts) \o x \o y \o z \o <<>>
      <3>1. r.type # "Eip1559"
        OBVIOUS
      <3> QED
        BY <1>2, <1>3, <1>4, <1>5, <1>7, <1>8, <1>9, <2>1, <3>1, Zenon DEF SignedFields, LegacyTexts
    <2> QED
      BY <1>20, <2>2, <2>3, Zenon
  <1>22. serialize_transaction(r, None) = write_rlp_list(fields \o (u \o v \o v))
    <2>1. SignatureFields(r, None) = u \o v \o v
      BY <1>1, <1>11, <1>10, Zenon DEF SignatureFields
    <2>2. fields \in Seq(Nat)
      <3>1. PICK f : f = FlattenSeq(a \o b)
        OBVIOUS
      <3>2. f \in Seq(Nat)
        <4>1. a \o b \in Seq(Seq(Nat))
          BY ONLY <1>17, <1>18
        <4> QED
          BY <3>1, <4>1, FlattenType
      <3> QED
        BY <1>12, <1>20, <3>1, <3>2
    <2>3. fields \o <<>> = fields
      BY <2>2, NothingAfter
    <2>4. SignedFields(r) = fields
      BY <1>21, <2>3, Zenon
    <2>5. PICK last : last = u \o v \o v
      OBVIOUS
    <2>6. <<>> \o write_rlp_list(fields \o last) = write_rlp_list(fields \o last)
      <3>1. fields \o last \in Seq(Nat)
        BY <1>12, <2>2, <2>5
      <3>2. write_rlp_list(fields \o last) \in Seq(Nat)
        BY <3>1, WrittenList
      <3> QED
        BY <3>2
    <2>7. r.type # "Eip1559"
      OBVIOUS
    <2> QED
      BY <2>1, <2>4, <2>5, <2>6, <2>7, Zenon DEF serialize_transaction
  <1>23. Paid(r) = <<x, y, z>>
    BY <1>5, <1>7, <1>8, <1>9, Zenon DEF Paid
  <1>24. Encoding(t) = write_rlp_list(FlattenSeq(a \o (b \o <<x, y, z>>) \o d))
    <2>1. t.type # "Eip1559" /\ t.chain_id = c /\ t.nonce = n /\ t.price = q /\ t.gas = g
      BY <1>1, <1>2, <1>3, <1>4 DEF AsksFor
    <2> QED
      BY <1>11, <1>10, <1>13, <1>14, <1>15, <1>23, <2>1, BodyIs, Zenon
  <1>25. InList(a, b, x, y, z, d) = InString(a, b, x, y, z, d)
    <2>1. a \in Seq(Seq(Nat))
      BY <1>17
    <2>2. b \in Seq(Seq(Nat))
      BY <1>18
    <2>3. d \in Seq(Seq(Nat))
      BY <1>19
    <2>4. Len(a) # 0 /\ Len(b) # 0 /\ Len(d) # 0
      BY <1>17, <1>18, <1>19
    <2>5. x \in Seq(Nat) /\ y \in Seq(Nat) /\ z \in Seq(Nat)
      BY <1>12
    <2> QED
      BY <2>1, <2>2, <2>3, <2>4, <2>5, PayloadLaid
  <1> QED
    BY <1>19, <1>20, <1>22, <1>24, <1>25, Zenon DEF InList, InString

\* A token that was found is one of this network that may be signed for, at that contract.
LEMMA FoundToken ==
    ASSUME NEW network, NEW contract, find_token(network, contract) # None
    PROVE  LET token == find_token(network, contract)
           IN  /\ token \in Tokens /\ token.network = network /\ token.signing
               /\ token.contract = contract /\ token.decimals \in Nat
  <1> DEFINE found == {t \in Tokens : t.network = network /\ t.signing /\ t.contract = contract}
  <1>1. found # {} /\ find_token(network, contract) = CHOOSE t \in found : TRUE
    BY Zenon DEF find_token
  <1>2. find_token(network, contract) \in found
    <2> HIDE DEF found
    <2> QED
      BY <1>1
  <1> QED
    BY <1>2, ByteAssumption

\* What is parsed is a transfer that keeps the policy, and its text says so.
LEMMA ParsedTransfer ==
    ASSUME NEW tx \in Transactions, NEW network \in Networks, NEW w, NEW index,
           evm_parse_transaction(tx, network, w, index) # None
    PROVE  LET r == evm_parse_transaction(tx, network, w, index)
           IN  /\ AsksFor(r, Shown(r)) /\ KeepsPolicy(Shown(r), network)
               /\ r.type \in {"Eip1559", "LegacyEip155"} /\ serialize_transaction(r, None) = tx
  <1> DEFINE r == evm_parse_transaction(tx, network, w, index)
  <1>1. tx \in Seq(Byte) /\ network.chain_id \in Nat
    BY ByteAssumption
  <1>2. PICK f \in FieldType :
           /\ r = ParsedRequest(tx, f, network, w, index)
           /\ FieldsAccepted(f, network) /\ TransferAccepted(f, network)
           /\ serialize_transaction(ParsedRequest(tx, f, network, w, index), None) = tx
    BY <1>1, ParsedFrom
  <1>3. FeeTold(r)
    BY <1>1, ParsedFee
  <1> HIDE DEF r
  <1> DEFINE data == f.data.data
             to == f.to.data
             token == IF data = <<>> THEN None ELSE find_token(network, to)
             amount == IF data = <<>> THEN Value(f.value.data) ELSE AmountOf(data)
             recipient == IF data = <<>> THEN to ELSE RecipientOf(data)
             decimals == IF token = None THEN NativeDecimals ELSE token.decimals
             gas == Value(f.gas.data)
             price == Value(f.price.data)
             nonce == Value(f.nonce.data)
             priority == Value(f.priority.data)
  <1>4. /\ r.type = TypeOf(tx) /\ r.network = network /\ r.token = token
        /\ r.nonce = nonce /\ r.gas_limit = gas /\ r.gas_price_or_max_fee = price
        /\ r.max_priority_fee = priority /\ r.contract = to /\ r.recipient = recipient
        /\ r.amount = amount /\ r.data = data /\ r.amount_text = uint256_to_text(amount, decimals)
    <2>1. ParsedRequest(tx, f, network, w, index) =
             [type |-> TypeOf(tx), network |-> network, token |-> token, address_index |-> index,
              nonce |-> nonce, gas_limit |-> gas, gas_price_or_max_fee |-> price,
              max_priority_fee |-> priority, maximum_fee |-> (gas * price) % WordMod,
              contract |-> to, recipient |-> recipient, amount |-> amount, data |-> data,
              amount_text |-> uint256_to_text(amount, decimals), unsigned_transaction |-> tx,
              from_address |-> derive_address(w, network, index)]
      BY Zenon DEF ParsedRequest, AmountOf, RecipientOf
    <2> HIDE DEF token, nonce, gas, price, priority, to, recipient, amount, data, decimals
    <2> QED
      BY <1>2, <2>1
  <1>5. nonce \in Nat /\ gas \in Nat /\ price \in Nat /\ data \in Seq(Byte) /\ Value(f.value.data) \in Nat
        /\ f.nonce.data \in Seq(Byte)
    BY FieldNumbers
  <1>6. /\ data # <<>> => token # None /\ IsTransfer(data)
        /\ amount # 0
    BY <1>2 DEF TransferAccepted, AmountOf
  <1>7. token # None => /\ token \in Tokens /\ token.network = network /\ token.signing
                        /\ token.contract = to /\ token.decimals \in Nat
    <2>1. SUFFICES ASSUME token # None
                   PROVE  /\ token \in Tokens /\ token.network = network /\ token.signing
                          /\ token.contract = to /\ token.decimals \in Nat
      OBVIOUS
    <2>2. token = find_token(network, to) /\ find_token(network, to) # None
      BY <2>1
    <2> HIDE DEF token, to
    <2> QED
      BY <2>2, FoundToken
  <1>8. decimals \in Nat
    <2>1. NativeDecimals \in Nat
      BY SizeAssumption
    <2> QED
      BY <1>7, <2>1
  <1>9. data # <<>> => /\ amount \in Nat
                       /\ Selector \o PaddedText(recipient, Uint256Size) \o Padded(amount, Uint256Size) = data
    <2>1. SUFFICES ASSUME data # <<>>
                   PROVE  /\ amount \in Nat
                          /\ Selector \o PaddedText(recipient, Uint256Size) \o Padded(amount, Uint256Size) = data
      OBVIOUS
    <2>2. amount = AmountOf(data) /\ recipient = RecipientOf(data)
      BY <2>1
    <2>3. IsTransfer(data) /\ data \in Seq(Byte)
      BY <1>5, <1>6, <2>1
    <2> HIDE DEF amount, recipient, data
    <2> QED
      BY <2>2, <2>3, CallIs
  <1>10. amount \in Nat
    <2>1. data = <<>> => amount = Value(f.value.data)
      OBVIOUS
    <2> HIDE DEF amount, data
    <2> QED
      BY <1>5, <1>9, <2>1
  <1>11. Denotes(r.amount_text, decimals) = amount
    <2> HIDE DEF amount, decimals
    <2> QED
      BY <1>4, <1>8, <1>10, AmountIsDenoted
  <1>12. /\ gas \in MinGas .. MaxGas /\ price # 0 /\ priority <= price
         /\ ReadsInteger(f.nonce, U64Size)
    BY <1>2 DEF FieldsAccepted, FeeAccepted
  <1>13. /\ r.maximum_fee \div gas = price /\ gas * price <= MaxFee
    <2>1. gas \in Nat \ {0}
      <3>1. MinGas \in Nat /\ MinGas > 0 /\ MaxGas \in Nat
        BY SizeAssumption
      <3> HIDE DEF gas
      <3> QED
        BY <1>5, <1>12, <3>1
    <2>2. gas * price = r.maximum_fee /\ r.maximum_fee <= MaxFee
      BY <1>3, <1>4 DEF FeeTold
    <2> HIDE DEF gas, price
    <2>3. (gas * price + 0) \div gas = price
      <3>1. 0 \in Nat /\ 0 < gas
        BY <2>1
      <3> QED
        BY <1>5, <2>1, <3>1, QuotientIs
    <2>4. gas * price + 0 = gas * price
      BY <1>5
    <2> QED
      BY <2>2, <2>3, <2>4
  <1>14. nonce < WordMod
    <2> DEFINE k == Len(f.nonce.data)
    <2>1. k \in Nat /\ k <= U64Size /\ nonce < Weight[k]
      BY <1>5, <1>12, PaddedIs DEF ReadsInteger
    <2>2. U64Size \in Nat
      BY SizeAssumption
    <2> HIDE DEF k, nonce
    <2>3. Weight[k] <= Weight[U64Size] /\ Weight[k] \in Nat /\ Weight[U64Size] \in Nat
      BY <2>1, <2>2, WeightGrows, WeightRecursion
    <2> QED
      BY <1>5, <2>1, <2>3 DEF WordMod
  <1>15. token = None => data = <<>>
    BY <1>6
  <1>16. data = <<>> => token = None /\ recipient = to
    OBVIOUS
  <1> HIDE DEF data, to, token, amount, recipient, decimals, gas, price, nonce, priority
  <1> DEFINE t == Shown(r)
  <1>17. /\ t.type = r.type /\ t.chain_id = network.chain_id /\ t.nonce = nonce /\ t.gas = gas
         /\ t.price = price /\ t.priority = priority /\ t.token = token /\ t.recipient = recipient
         /\ t.amount = amount
    <2>1. Denotes(r.amount_text, IF r.token = None THEN NativeDecimals ELSE r.token.decimals) = amount
      BY <1>4, <1>11 DEF decimals
    <2> QED
      BY <1>4, <1>13, <2>1 DEF Shown
  <1> HIDE DEF t
  <1>18. AsksFor(r, t)
    <2>1. CASE token = None
      BY <1>4, <1>15, <1>16, <1>17, <2>1 DEF AsksFor
    <2>2. CASE token # None
      <3>1. data # <<>>
        BY <1>16, <2>2
      <3> QED
        BY <1>4, <1>7, <1>9, <1>17, <2>2, <3>1, Zenon DEF AsksFor
    <2> QED
      BY <2>1, <2>2
  <1>19. KeepsPolicy(t, network)
    BY <1>6, <1>7, <1>12, <1>13, <1>14, <1>17, Zenon DEF KeepsPolicy
  <1>20. r.type \in {"Eip1559", "LegacyEip155"} /\ serialize_transaction(r, None) = tx
    BY <1>2, <1>4 DEF TypeOf
  <1> QED
    BY <1>18, <1>19, <1>20 DEF t, r

-----------------------------------------------------------------------------
(* A transfer that keeps the policy, accepted *)

\* The bytes of a number, padded to a size that it fits, still stand for the number.
LEMMA PaddedNumber ==
    ASSUME NEW n \in Nat, NEW size \in Nat, n < Weight[size]
    PROVE  /\ Padded(n, size) \in Seq(Nat) /\ Len(Padded(n, size)) = size
           /\ Value(Padded(n, size)) = n
  <1>1. PICK own : own = ToBytes(n)
    OBVIOUS
  <1>2. PICK zeros : zeros = [i \in 1 .. size - Len(own) |-> 0]
    OBVIOUS
  <1>3. PICK word : word = zeros \o own
    OBVIOUS
  <1> DEFINE D == Digits(n)
  <1>4. own \in Seq(Nat) /\ Len(own) = D /\ D \in Nat /\ D <= size
    BY <1>1, ToBytesType, ByteSeqs, DigitsBelow
  <1>5. own = [i \in 1 .. D |-> (n \div Weight[D - i]) % ByteBase]
    BY <1>1 DEF ToBytes
  <1>6. n < Weight[D]
    BY DigitsFit
  <1> HIDE DEF D
  <1>7. zeros \in Seq(Nat) /\ Len(zeros) = size - D /\ \A i \in 1 .. size - D : zeros[i] = 0
    <2>1. size - D \in Nat /\ zeros = [i \in 1 .. size - D |-> 0]
      BY <1>2, <1>4
    <2> QED
      BY <2>1, ZerosAre
  <1>8. /\ word \in Seq(Nat) /\ Len(word) = size
        /\ \A i \in 1 .. size - D : word[i] = 0
        /\ \A i \in 1 .. D : word[(size - D) + i] = own[i]
    <2>1. InTwo(word, zeros, own)
      BY <1>3, <1>4, <1>7, TwoLaid, Zenon
    <2>2. Len(zeros) = size - D /\ Len(own) = D /\ (size - D) + D = size
      BY ONLY <1>4, <1>7, size \in Nat
    <2> QED
      BY ONLY <1>7, <2>1, <2>2 DEF InTwo
  <1>9. ASSUME NEW i \in 1 .. size PROVE word[i] = (n \div Weight[size - i]) % ByteBase
    <2>1. CASE i <= size - D
      <3>1. i \in 1 .. size - D /\ size - i \in Nat /\ D <= size - i
        BY <1>4, <2>1
      <3>2. n < Weight[size - i] /\ Weight[size - i] \in Nat
        <4>1. Weight[D] <= Weight[size - i] /\ Weight[D] \in Nat /\ Weight[size - i] \in Nat
          BY <1>4, <3>1, WeightGrows, WeightRecursion
        <4> QED
          BY <1>6, <4>1
      <3>3. n \div Weight[size - i] = 0
        BY ONLY <3>2, n \in Nat, SmallQuotient
      <3>4. 0 % ByteBase = 0
        <4>1. \A b \in Nat : b >= 7 => 0 % b = 0
          OBVIOUS
        <4> QED
          BY <4>1, BaseType
      <3>5. word[i] = 0
        BY <1>8, <3>1
      <3> QED
        BY ONLY <3>3, <3>4, <3>5
    <2>2. CASE ~(i <= size - D)
      <3> DEFINE j == i - (size - D)
      <3>1. j \in 1 .. D /\ (size - D) + j = i /\ D - j = size - i
        BY <1>4, <2>2
      <3> HIDE DEF j
      <3>2. word[(size - D) + j] = own[j]
        BY ONLY <1>8, <3>1, Zenon
      <3>3. own[j] = (n \div Weight[D - j]) % ByteBase
        BY <1>5, <3>1
      <3> QED
        BY ONLY <3>1, <3>2, <3>3, Zenon
    <2> QED
      BY <2>1, <2>2
  <1>10. DigitsOf(word, n, ByteBase, Weight) /\ n < Weight[Len(word)]
    BY ONLY <1>8, <1>9, n < Weight[size], Zenon DEF DigitsOf
  <1>11. Numeral(ByteBase, word) = n
    BY <1>8, <1>10, WeightsArePowers, NumeralOfDigits
  <1>12. Value(word) = n
    BY <1>11, Zenon DEF Value, Numeral
  <1> QED
    BY <1>1, <1>2, <1>3, <1>8, <1>12, Zenon DEF Padded, PaddedText

\* An item that holds a number's bytes, or a string.
HoldsNumber(item, n) == item.list = FALSE /\ item.data = ToBytes(n)
HoldsBytes(item, data) == item.list = FALSE /\ item.data = data

\* Zero has no bytes.
LEMMA NoBytesOfZero == ToBytes(0) = <<>>
  <1>1. Digits(0) = 0
    BY DigitsFit
  <1> QED
    BY <1>1 DEF ToBytes

\* A number's bytes are taken for it by every reader that has room for them.
LEMMA NumberAccepted ==
    ASSUME NEW item, NEW n \in Nat, HoldsNumber(item, n), NEW size \in Nat, n < Weight[size]
    PROVE  ReadsInteger(item, size) /\ Value(item.data) = n
  <1>1. Digits(n) <= size /\ Len(ToBytes(n)) = Digits(n) /\ Digits(n) \in Nat
    BY DigitsBelow, ToBytesType
  <1>2. ToBytes(n) = <<>> \/ ToBytes(n)[1] # 0
    BY NoBytesOfZero, FirstByte
  <1>3. Value(ToBytes(n)) = n
    BY ValueOfBytes
  <1> QED
    BY <1>1, <1>2, <1>3 DEF ReadsInteger, HoldsNumber

\* Strings of a bounded length, laid end to end.
LEMMA FlattenBound ==
    ASSUME NEW seqs \in Seq(Seq(Nat)), Len(seqs) # 0, NEW m \in Nat,
           \A i \in 1 .. Len(seqs) : Len(seqs[i]) <= m
    PROVE  Len(FlattenSeq(seqs)) <= m * Len(seqs)
  <1> DEFINE n == Len(seqs)
  <1>1. n \in Nat \ {0} /\ \A i \in 1 .. n : seqs[i] \in Seq(Nat) /\ Len(seqs[i]) <= m
    BY Elements
  <1>2. PICK g : Joins(g, seqs) /\ FlattenSeq(seqs) = g[n]
    BY FlattenByPiece
  <1>3. g[1] = seqs[1] /\ \A k \in 2 .. n : g[k] = g[k - 1] \o seqs[k]
    BY <1>2 DEF Joins
  <1> HIDE DEF n
  <1> DEFINE Bound(k) == g[k] \in Seq(Nat) /\ Len(g[k]) <= m * k
             Good == {k \in Nat : k + 1 <= n => Bound(k + 1)}
  <1>4. 0 \in Good
    <2>1. 1 \in 1 .. n /\ m * 1 = m /\ 0 + 1 = 1
      BY <1>1
    <2>2. Bound(1)
      BY <1>1, <1>3, <2>1
    <2> HIDE DEF Bound
    <2> QED
      BY <2>1, <2>2
  <1>5. ASSUME NEW k \in Nat, k \in Good PROVE k + 1 \in Good
    <2> SUFFICES ASSUME (k + 1) + 1 <= n PROVE Bound((k + 1) + 1)
      OBVIOUS
    <2>1. (k + 1) + 1 \in 2 .. n /\ (k + 1) + 1 \in 1 .. n /\ ((k + 1) + 1) - 1 = k + 1 /\ k + 1 <= n
      BY <1>1
    <2>2. g[k + 1] \in Seq(Nat) /\ Len(g[k + 1]) <= m * (k + 1)
      BY <1>5, <2>1
    <2>3. g[(k + 1) + 1] = g[k + 1] \o seqs[(k + 1) + 1]
      BY <1>3, <2>1
    <2>4. seqs[(k + 1) + 1] \in Seq(Nat) /\ Len(seqs[(k + 1) + 1]) <= m
      BY <1>1, <2>1
    <2> DEFINE x == g[k + 1]
               y == seqs[(k + 1) + 1]
    <2> HIDE DEF x, y
    <2>5. x \o y \in Seq(Nat) /\ Len(x \o y) = Len(x) + Len(y) /\ Len(x) \in Nat /\ Len(y) \in Nat
      BY <2>2, <2>4, LaidTogether DEF x, y
    <2>6. m * ((k + 1) + 1) = m * (k + 1) + m /\ m * (k + 1) \in Nat
      OBVIOUS
    <2>7. Len(x) + Len(y) <= m * ((k + 1) + 1)
      <3>1. \A a, b, c, d \in Nat : a <= c /\ b <= d => a + b <= c + d
        OBVIOUS
      <3> QED
        BY <2>2, <2>4, <2>5, <2>6, <3>1 DEF x, y
    <2> QED
      BY <2>3, <2>5, <2>7 DEF x, y
  <1>6. Nat \subseteq Good
    <2> HIDE DEF Good
    <2> QED
      BY <1>4, <1>5, NatSetInduction
  <1>7. n - 1 \in Nat /\ (n - 1) + 1 = n /\ n <= n
    BY <1>1
  <1>8. Bound(n)
    <2>1. n - 1 \in Good
      BY <1>6, <1>7
    <2> HIDE DEF Bound
    <2> QED
      BY <1>7, <2>1
  <1> QED
    BY <1>2, <1>8 DEF n

\* A field at the end of others.
Follows1(x, f, s) ==
    /\ s \in Seq(FieldSet) /\ Len(s) = Len(x) + 1 /\ Len(x) \in Nat /\ s[Len(x) + 1] = f
    /\ \A i \in 1 .. Len(x) : s[i] = x[i]

\* It is laid there.
LEMMA OneMore ==
    ASSUME NEW x \in Seq(FieldSet), NEW f \in FieldSet, NEW s, s = x \o <<f>>
    PROVE  Follows1(x, f, s)
  <1>1. PICK one : one = <<f>>
    OBVIOUS
  <1>2. one \in Seq(FieldSet) /\ Len(one) = 1 /\ one[1] = f
    BY <1>1
  <1>3. /\ Len(x \o one) = Len(x) + Len(one) /\ Len(x) \in Nat
        /\ \A i \in 1 .. Len(x) : (x \o one)[i] = x[i]
        /\ \A i \in 1 .. Len(one) : (x \o one)[Len(x) + i] = one[i]
    BY ONLY <1>2, x \in Seq(FieldSet), MoreFields, Zenon
  <1>4. x \o one \in Seq(FieldSet)
    BY ONLY <1>2, x \in Seq(FieldSet), ConcatProperties, Zenon
  <1>5. 1 \in 1 .. 1
    OBVIOUS
  <1> QED
    BY ONLY <1>1, <1>2, <1>3, <1>4, <1>5, s = x \o <<f>>, Zenon DEF Follows1

\* Three fields, one after the other, between others.
InOrder(x, a, b, c, y, s) ==
    /\ s \in Seq(FieldSet) /\ Len(s) = Len(x) + 3 + Len(y) /\ Len(x) \in Nat /\ Len(y) \in Nat
    /\ \A i \in 1 .. Len(x) : s[i] = x[i]
    /\ s[Len(x) + 1] = a /\ s[Len(x) + 2] = b /\ s[Len(x) + 3] = c
    /\ \A i \in 1 .. Len(y) : s[Len(x) + 3 + i] = y[i]

LEMMA FieldsInOrder ==
    ASSUME NEW x \in Seq(FieldSet), NEW a \in FieldSet, NEW b \in FieldSet, NEW c \in FieldSet,
           NEW y \in Seq(FieldSet), NEW s, s = x \o <<a>> \o <<b>> \o <<c>> \o y
    PROVE  InOrder(x, a, b, c, y, s)
  <1>1. PICK xa : xa = x \o <<a>>
    OBVIOUS
  <1>2. PICK xb : xb = xa \o <<b>>
    OBVIOUS
  <1>3. PICK xc : xc = xb \o <<c>>
    OBVIOUS
  <1>4. s = xc \o y
    BY <1>1, <1>2, <1>3, Zenon
  <1>5. Follows1(x, a, xa)
    BY ONLY x \in Seq(FieldSet), a \in FieldSet, <1>1, OneMore, Zenon
  <1>6. Follows1(xa, b, xb)
    <2>1. xa \in Seq(FieldSet)
      BY ONLY <1>5, Zenon DEF Follows1
    <2> QED
      BY ONLY <2>1, b \in FieldSet, <1>2, OneMore, Zenon
  <1>7. Follows1(xb, c, xc)
    <2>1. xb \in Seq(FieldSet)
      BY ONLY <1>6, Zenon DEF Follows1
    <2> QED
      BY ONLY <2>1, c \in FieldSet, <1>3, OneMore, Zenon
  <1>8. /\ xc \in Seq(FieldSet) /\ Len(xc) = Len(x) + 3 /\ Len(x) \in Nat
        /\ \A i \in 1 .. Len(x) : xc[i] = x[i]
        /\ xc[Len(x) + 1] = a /\ xc[Len(x) + 2] = b /\ xc[Len(x) + 3] = c
    <2>1. /\ Len(x) \in Nat /\ Len(xa) = Len(x) + 1 /\ Len(xb) = Len(x) + 2 /\ Len(xc) = Len(x) + 3
      <3>1. Len(x) \in Nat /\ Len(xa) = Len(x) + 1 /\ Len(xb) = Len(xa) + 1 /\ Len(xc) = Len(xb) + 1
        BY <1>5, <1>6, <1>7 DEF Follows1
      <3> QED
        BY ONLY <3>1
    <2>2. /\ \A i \in 1 .. Len(x) : xa[i] = x[i]
          /\ \A i \in 1 .. Len(x) + 1 : xb[i] = xa[i]
          /\ \A i \in 1 .. Len(x) + 2 : xc[i] = xb[i]
          /\ xa[Len(x) + 1] = a /\ xb[Len(x) + 2] = b /\ xc[Len(x) + 3] = c /\ xc \in Seq(FieldSet)
      <3>1. Len(x) + 1 + 1 = Len(x) + 2 /\ Len(x) + 2 + 1 = Len(x) + 3
        BY <2>1
      <3> QED
        BY ONLY <1>5, <1>6, <1>7, <2>1, <3>1, Zenon DEF Follows1
    <2>3. /\ \A i \in 1 .. Len(x) : i \in 1 .. Len(x) + 1 /\ i \in 1 .. Len(x) + 2
          /\ Len(x) + 1 \in 1 .. Len(x) + 1 /\ Len(x) + 1 \in 1 .. Len(x) + 2
          /\ Len(x) + 2 \in 1 .. Len(x) + 2
      BY <2>1
    <2> QED
      BY ONLY <2>1, <2>2, <2>3, Zenon
  <1>9. /\ s \in Seq(FieldSet) /\ Len(s) = Len(xc) + Len(y) /\ Len(y) \in Nat
        /\ \A i \in 1 .. Len(xc) : s[i] = xc[i]
        /\ \A i \in 1 .. Len(y) : s[Len(xc) + i] = y[i]
    <2>1. xc \in Seq(FieldSet)
      BY <1>8
    <2>2. xc \o y \in Seq(FieldSet)
      BY ONLY <2>1, y \in Seq(FieldSet), ConcatProperties, Zenon
    <2>3. /\ Len(xc \o y) = Len(xc) + Len(y) /\ Len(y) \in Nat
          /\ \A i \in 1 .. Len(xc) : (xc \o y)[i] = xc[i]
          /\ \A i \in 1 .. Len(y) : (xc \o y)[Len(xc) + i] = y[i]
      BY ONLY <2>1, y \in Seq(FieldSet), MoreFields, Zenon
    <2> QED
      BY ONLY <1>4, <2>2, <2>3, Zenon
  <1>10. /\ \A i \in 1 .. Len(x) : i \in 1 .. Len(xc)
         /\ Len(x) + 1 \in 1 .. Len(xc) /\ Len(x) + 2 \in 1 .. Len(xc) /\ Len(x) + 3 \in 1 .. Len(xc)
    BY ONLY <1>8
  <1> QED
    <2>1. Len(s) = Len(x) + 3 + Len(y)
      BY ONLY <1>8, <1>9, Zenon
    <2> QED
      BY ONLY <1>8, <1>9, <1>10, <2>1, Zenon DEF InOrder

\* The sum that a field is for, when it is not in the call.
PaidOf(r) == IF r.token = None THEN r.amount ELSE 0

\* The fields that are read are those of a typed transaction, in their order.
TypedFields(s, r) ==
    /\ Len(s) = 9
    /\ s[1] = NumberField(r.network.chain_id) /\ s[2] = NumberField(r.nonce)
    /\ s[3] = NumberField(r.max_priority_fee) /\ s[4] = NumberField(r.gas_price_or_max_fee)
    /\ s[5] = NumberField(r.gas_limit) /\ s[6] = Field(FALSE, r.contract)
    /\ s[7] = NumberField(PaidOf(r)) /\ s[8] = Field(FALSE, r.data) /\ s[9] = Field(TRUE, <<>>)

\* Those of one without a type.
LegacyFields(s, r) ==
    /\ Len(s) = 9
    /\ s[1] = NumberField(r.nonce) /\ s[2] = NumberField(r.gas_price_or_max_fee)
    /\ s[3] = NumberField(r.gas_limit) /\ s[4] = Field(FALSE, r.contract)
    /\ s[5] = NumberField(PaidOf(r)) /\ s[6] = Field(FALSE, r.data)
    /\ s[7] = NumberField(r.network.chain_id) /\ s[8] = NumberField(0) /\ s[9] = NumberField(0)

\* What a written request's single fields are.
LEMMA SingleFields ==
    ASSUME NEW r, Written(r)
    PROVE  /\ Field(FALSE, r.contract) \in FieldSet /\ Field(FALSE, r.data) \in FieldSet
           /\ Field(TRUE, <<>>) \in FieldSet /\ NumberField(PaidOf(r)) \in FieldSet
           /\ PaidOf(r) \in Nat
  <1>1. r.contract \in Seq(Nat) /\ r.data \in Seq(Nat) /\ PaidOf(r) \in Nat /\ <<>> \in Seq(Nat)
    BY DEF Written, PaidOf
  <1>2. NumberField(PaidOf(r)) \in FieldSet
    BY <1>1, NumberIsField, Zenon
  <1> QED
    BY <1>1, <1>2 DEF Field, FieldSet

\* The number fields of a list of numbers.
LEMMA NumberFields ==
    ASSUME NEW numbers \in Seq(Nat), NEW s, s = [i \in DOMAIN numbers |-> NumberField(numbers[i])]
    PROVE  /\ s \in Seq(FieldSet) /\ Len(s) = Len(numbers) /\ Len(s) \in Nat
           /\ \A i \in 1 .. Len(numbers) : s[i] = NumberField(numbers[i])
  <1>1. Len(numbers) \in Nat /\ DOMAIN numbers = 1 .. Len(numbers)
    OBVIOUS
  <1>2. \A i \in 1 .. Len(numbers) : NumberField(numbers[i]) \in FieldSet
    <2>1. \A i \in 1 .. Len(numbers) : numbers[i] \in Nat
      BY Elements
    <2> QED
      BY <2>1, NumberIsField
  <1>3. s = [i \in 1 .. Len(numbers) |-> s[i]]
    BY <1>1
  <1>4. \A i \in 1 .. Len(numbers) : s[i] = NumberField(numbers[i])
    BY <1>1
  <1>5. s \in Seq(FieldSet) /\ Len(s) = Len(numbers)
    <2>1. \A i \in 1 .. Len(numbers) : s[i] \in FieldSet
      BY <1>2, <1>4
    <2> QED
      BY ONLY <1>1, <1>3, <2>1, StringOf
  <1> QED
    BY <1>1, <1>4, <1>5

\* The nine fields of a typed request that is not signed.
LEMMA NineTyped ==
    ASSUME NEW r, Written(r), r.type = "Eip1559"
    PROVE  TypedFields(KeptFields(r) \o AddedFields(r, None), r)
  <1>1. PICK numbers : numbers = NumbersOf(r)
    OBVIOUS
  <1>2. /\ numbers \in Seq(Nat) /\ Len(numbers) = 5
        /\ numbers[1] = r.network.chain_id /\ numbers[2] = r.nonce /\ numbers[3] = r.max_priority_fee
        /\ numbers[4] = r.gas_price_or_max_fee /\ numbers[5] = r.gas_limit
    <2>1. numbers = <<r.network.chain_id>> \o <<r.nonce>>
                    \o <<r.max_priority_fee, r.gas_price_or_max_fee>> \o <<r.gas_limit>>
      BY <1>1 DEF NumbersOf
    <2>2. /\ r.network.chain_id \in Nat /\ r.nonce \in Nat /\ r.max_priority_fee \in Nat
          /\ r.gas_price_or_max_fee \in Nat /\ r.gas_limit \in Nat
      BY DEF Written
    <2> QED
      BY ONLY <2>1, <2>2
  <1>3. PICK first : first = [i \in DOMAIN numbers |-> NumberField(numbers[i])]
    OBVIOUS
  <1>4. /\ first \in Seq(FieldSet) /\ Len(first) = 5
        /\ \A i \in 1 .. 5 : first[i] = NumberField(numbers[i])
    BY ONLY <1>2, <1>3, NumberFields
  <1>5. PICK last : last = <<Field(TRUE, <<>>)>>
    OBVIOUS
  <1>6. last \in Seq(FieldSet) /\ Len(last) = 1 /\ last[1] = Field(TRUE, <<>>)
    <2>1. PICK close : close = Field(TRUE, <<>>)
      OBVIOUS
    <2>2. close \in FieldSet
      BY <2>1, SingleFields, Zenon
    <2>3. last = <<close>>
      BY <1>5, <2>1, Zenon
    <2>4. last \in Seq(FieldSet) /\ Len(last) = 1 /\ last[1] = close
      BY ONLY <2>2, <2>3
    <2> QED
      BY ONLY <2>1, <2>4, Zenon
  <1>7. PICK s : s = KeptFields(r)
    OBVIOUS
  <1>8. s = first \o <<Field(FALSE, r.contract)>> \o <<NumberField(PaidOf(r))>>
            \o <<Field(FALSE, r.data)>> \o last
    BY <1>1, <1>3, <1>5, <1>7, Zenon DEF KeptFields, PaidOf
  <1>9. /\ s \in Seq(FieldSet) /\ Len(s) = Len(first) + 3 + Len(last)
        /\ \A i \in 1 .. Len(first) : s[i] = first[i]
        /\ s[Len(first) + 1] = Field(FALSE, r.contract) /\ s[Len(first) + 2] = NumberField(PaidOf(r))
        /\ s[Len(first) + 3] = Field(FALSE, r.data)
        /\ \A i \in 1 .. Len(last) : s[Len(first) + 3 + i] = last[i]
    <2>1. PICK a : a = Field(FALSE, r.contract)
      OBVIOUS
    <2>2. PICK b : b = NumberField(PaidOf(r))
      OBVIOUS
    <2>3. PICK c : c = Field(FALSE, r.data)
      OBVIOUS
    <2>4. a \in FieldSet
      BY <2>1, SingleFields, Zenon
    <2>5. b \in FieldSet
      BY <2>2, SingleFields, Zenon
    <2>6. c \in FieldSet
      BY <2>3, SingleFields, Zenon
    <2>7. first \in Seq(FieldSet)
      BY <1>4, Zenon
    <2>8. last \in Seq(FieldSet)
      BY <1>6, Zenon
    <2>9. s = first \o <<a>> \o <<b>> \o <<c>> \o last
      BY <1>8, <2>1, <2>2, <2>3, Zenon
    <2>10. InOrder(first, a, b, c, last, s)
      BY ONLY <2>4, <2>5, <2>6, <2>7, <2>8, <2>9, FieldsInOrder, Zenon
    <2> QED
      BY ONLY <2>1, <2>2, <2>3, <2>10, Zenon DEF InOrder
  <1>10. /\ Len(s) = 9 /\ \A i \in 1 .. 5 : s[i] = NumberField(numbers[i])
         /\ s[6] = Field(FALSE, r.contract) /\ s[7] = NumberField(PaidOf(r))
         /\ s[8] = Field(FALSE, r.data) /\ s[9] = Field(TRUE, <<>>)
    <2>1. 5 + 1 = 6 /\ 5 + 2 = 7 /\ 5 + 3 = 8 /\ 8 + 1 = 9 /\ 1 \in 1 .. 1
      OBVIOUS
    <2>2. Len(first) = 5 /\ Len(last) = 1 /\ last[1] = Field(TRUE, <<>>)
      BY <1>4, <1>6, Zenon
    <2>3. Len(s) = 9
      BY ONLY <1>9, <2>1, <2>2, Zenon
    <2>4. \A i \in 1 .. 5 : s[i] = NumberField(numbers[i])
      BY ONLY <1>4, <1>9, Zenon
    <2>5. s[6] = Field(FALSE, r.contract) /\ s[7] = NumberField(PaidOf(r)) /\ s[8] = Field(FALSE, r.data)
      BY ONLY <1>9, <2>1, <2>2, Zenon
    <2>6. s[8 + 1] = last[1]
      <3>1. \A i \in 1 .. 1 : s[8 + i] = last[i]
        <4>1. \A i \in 1 .. Len(last) : s[Len(first) + 3 + i] = last[i]
          BY ONLY <1>9, Zenon
        <4> QED
          BY ONLY <2>2, <4>1
      <3> QED
        BY ONLY <2>1, <3>1, Zenon
    <2> QED
      BY ONLY <2>1, <2>2, <2>3, <2>4, <2>5, <2>6, Zenon
  <1>11. AddedFields(r, None) = <<>> /\ s \o <<>> = s
    <2>1. AddedFields(r, None) = <<>>
      BY Zenon DEF AddedFields
    <2> QED
      BY <1>9, <2>1
  <1>12. 1 \in 1 .. 5 /\ 2 \in 1 .. 5 /\ 3 \in 1 .. 5 /\ 4 \in 1 .. 5 /\ 5 \in 1 .. 5
    OBVIOUS
  <1>13. TypedFields(s, r)
    BY ONLY <1>2, <1>10, <1>12, Zenon DEF TypedFields
  <1> QED
    BY ONLY <1>7, <1>11, <1>13, Zenon

\* And of one without a type.
LEMMA NineLegacy ==
    ASSUME NEW r, Written(r), r.type = "LegacyEip155"
    PROVE  LegacyFields(KeptFields(r) \o AddedFields(r, None), r)
  <1>1. PICK numbers : numbers = NumbersOf(r)
    OBVIOUS
  <1>2. /\ numbers \in Seq(Nat) /\ Len(numbers) = 3
        /\ numbers[1] = r.nonce /\ numbers[2] = r.gas_price_or_max_fee /\ numbers[3] = r.gas_limit
    <2>1. numbers = <<>> \o <<r.nonce>> \o <<r.gas_price_or_max_fee>> \o <<r.gas_limit>>
      BY <1>1 DEF NumbersOf
    <2>2. r.nonce \in Nat /\ r.gas_price_or_max_fee \in Nat /\ r.gas_limit \in Nat
      BY DEF Written
    <2> QED
      BY ONLY <2>1, <2>2
  <1>3. PICK first : first = [i \in DOMAIN numbers |-> NumberField(numbers[i])]
    OBVIOUS
  <1>4. /\ first \in Seq(FieldSet) /\ Len(first) = 3
        /\ \A i \in 1 .. 3 : first[i] = NumberField(numbers[i])
    BY ONLY <1>2, <1>3, NumberFields
  <1>5. PICK last : last = <<>>
    OBVIOUS
  <1>6. last \in Seq(FieldSet) /\ Len(last) = 0
    BY <1>5
  <1>7. PICK s : s = KeptFields(r)
    OBVIOUS
  <1>8. s = first \o <<Field(FALSE, r.contract)>> \o <<NumberField(PaidOf(r))>>
            \o <<Field(FALSE, r.data)>> \o last
    BY <1>1, <1>3, <1>5, <1>7, Zenon DEF KeptFields, PaidOf
  <1>9. /\ s \in Seq(FieldSet) /\ Len(s) = Len(first) + 3 + Len(last)
        /\ \A i \in 1 .. Len(first) : s[i] = first[i]
        /\ s[Len(first) + 1] = Field(FALSE, r.contract) /\ s[Len(first) + 2] = NumberField(PaidOf(r))
        /\ s[Len(first) + 3] = Field(FALSE, r.data)
    <2>1. PICK a : a = Field(FALSE, r.contract)
      OBVIOUS
    <2>2. PICK b : b = NumberField(PaidOf(r))
      OBVIOUS
    <2>3. PICK c : c = Field(FALSE, r.data)
      OBVIOUS
    <2>4. a \in FieldSet
      BY <2>1, SingleFields, Zenon
    <2>5. b \in FieldSet
      BY <2>2, SingleFields, Zenon
    <2>6. c \in FieldSet
      BY <2>3, SingleFields, Zenon
    <2>7. first \in Seq(FieldSet)
      BY <1>4, Zenon
    <2>8. last \in Seq(FieldSet)
      BY <1>6, Zenon
    <2>9. s = first \o <<a>> \o <<b>> \o <<c>> \o last
      BY <1>8, <2>1, <2>2, <2>3, Zenon
    <2>10. InOrder(first, a, b, c, last, s)
      BY ONLY <2>4, <2>5, <2>6, <2>7, <2>8, <2>9, FieldsInOrder, Zenon
    <2> QED
      BY ONLY <2>1, <2>2, <2>3, <2>10, Zenon DEF InOrder
  <1>10. /\ Len(s) = 6 /\ \A i \in 1 .. 3 : s[i] = NumberField(numbers[i])
         /\ s[4] = Field(FALSE, r.contract) /\ s[5] = NumberField(PaidOf(r)) /\ s[6] = Field(FALSE, r.data)
    <2>1. 3 + 1 = 4 /\ 3 + 2 = 5 /\ 3 + 3 = 6 /\ 6 + 0 = 6
      OBVIOUS
    <2>2. Len(first) = 3 /\ Len(last) = 0
      BY <1>4, <1>6, Zenon
    <2>3. Len(s) = 6
      BY ONLY <1>9, <2>1, <2>2, Zenon
    <2>4. \A i \in 1 .. 3 : s[i] = NumberField(numbers[i])
      BY ONLY <1>4, <1>9, Zenon
    <2>5. s[4] = Field(FALSE, r.contract) /\ s[5] = NumberField(PaidOf(r)) /\ s[6] = Field(FALSE, r.data)
      BY ONLY <1>9, <2>1, <2>2, Zenon
    <2> QED
      BY ONLY <2>3, <2>4, <2>5, Zenon
  <1>11. PICK added : added = AddedFields(r, None)
    OBVIOUS
  <1>12. /\ added \in Seq(FieldSet) /\ Len(added) = 3
         /\ added[1] = NumberField(r.network.chain_id) /\ added[2] = NumberField(0)
         /\ added[3] = NumberField(0)
    <2>1. added = ThreeFields(r.network.chain_id, 0, 0)
      BY <1>11, Zenon DEF AddedFields
    <2> DEFINE c == r.network.chain_id
    <2>2. c \in Nat /\ 0 \in Nat
      BY DEF Written
    <2> HIDE DEF c
    <2>3. /\ ThreeFields(c, 0, 0) \in Seq(FieldSet) /\ Len(ThreeFields(c, 0, 0)) = 3
          /\ ThreeFields(c, 0, 0)[1] = NumberField(c) /\ ThreeFields(c, 0, 0)[2] = NumberField(0)
          /\ ThreeFields(c, 0, 0)[3] = NumberField(0)
      BY ONLY <2>2, ThreeNumbers
    <2> QED
      BY <2>1, <2>3, Zenon DEF c
  <1>13. PICK all : all = s \o added
    OBVIOUS
  <1>14. /\ Len(all) = Len(s) + Len(added)
         /\ \A i \in 1 .. Len(s) : all[i] = s[i]
         /\ \A i \in 1 .. Len(added) : all[Len(s) + i] = added[i]
    BY <1>9, <1>12, <1>13, MoreFields, Zenon
  <1>15. /\ Len(all) = 9 /\ \A i \in 1 .. 6 : all[i] = s[i]
         /\ all[7] = added[1] /\ all[8] = added[2] /\ all[9] = added[3]
    <2>1. /\ 6 + 3 = 9 /\ 6 + 1 = 7 /\ 6 + 2 = 8 /\ 1 \in 1 .. 3 /\ 2 \in 1 .. 3 /\ 3 \in 1 .. 3
      OBVIOUS
    <2>2. Len(s) = 6 /\ Len(added) = 3
      BY <1>10, <1>12, Zenon
    <2>3. Len(all) = 9 /\ \A i \in 1 .. 6 : all[i] = s[i]
      BY ONLY <1>14, <2>1, <2>2, Zenon
    <2>4. \A i \in 1 .. 3 : all[6 + i] = added[i]
      BY ONLY <1>14, <2>2, Zenon
    <2> QED
      BY ONLY <2>1, <2>3, <2>4, Zenon
  <1>16. /\ 1 \in 1 .. 3 /\ 2 \in 1 .. 3 /\ 3 \in 1 .. 3
         /\ 1 \in 1 .. 6 /\ 2 \in 1 .. 6 /\ 3 \in 1 .. 6 /\ 4 \in 1 .. 6 /\ 5 \in 1 .. 6 /\ 6 \in 1 .. 6
    OBVIOUS
  <1>17. LegacyFields(all, r)
    BY ONLY <1>2, <1>10, <1>12, <1>15, <1>16, Zenon DEF LegacyFields
  <1> QED
    BY ONLY <1>7, <1>11, <1>13, <1>17, Zenon

\* The fields that the parser takes from a transaction are those of a request.
FieldsHold(f, r) ==
    /\ HoldsNumber(f.chain_id, r.network.chain_id) /\ HoldsNumber(f.nonce, r.nonce)
    /\ HoldsNumber(f.priority, IF r.type = "Eip1559" THEN r.max_priority_fee ELSE 0)
    /\ HoldsNumber(f.price, r.gas_price_or_max_fee) /\ HoldsNumber(f.gas, r.gas_limit)
    /\ HoldsBytes(f.to, r.contract) /\ HoldsNumber(f.value, PaidOf(r)) /\ HoldsBytes(f.data, r.data)

\* What an item that agrees with a field holds.
Agrees(item, field) == item.data = field.data /\ item.list = field.list
LEMMA AgreesWith ==
    /\ \A item, n : Agrees(item, NumberField(n)) => HoldsNumber(item, n)
    /\ \A item, data : Agrees(item, Field(FALSE, data)) => HoldsBytes(item, data)
    /\ \A item : Agrees(item, Field(TRUE, <<>>)) => item.list /\ item.data = <<>>
  BY DEF Agrees, NumberField, Field, HoldsNumber, HoldsBytes

\* The items of a typed transaction that was written.
LEMMA TypedItems ==
    ASSUME NEW r, r.type = "Eip1559", NEW s, TypedFields(s, r), NEW items,
           \A i \in 1 .. 9 : Agrees(items[i], s[i])
    PROVE  FieldsHold(FieldsOf(r.type, items), r) /\ ClosesWell(r.type, items)
  <1>1. \A i \in {1, 2, 3, 4, 5, 6, 7, 8, 9} : Agrees(items[i], s[i])
    <2>1. {1, 2, 3, 4, 5, 6, 7, 8, 9} \subseteq 1 .. 9
      OBVIOUS
    <2> QED
      BY <2>1
  <1>2. /\ Agrees(items[1], NumberField(r.network.chain_id)) /\ Agrees(items[2], NumberField(r.nonce))
        /\ Agrees(items[3], NumberField(r.max_priority_fee))
        /\ Agrees(items[4], NumberField(r.gas_price_or_max_fee))
        /\ Agrees(items[5], NumberField(r.gas_limit)) /\ Agrees(items[6], Field(FALSE, r.contract))
        /\ Agrees(items[7], NumberField(PaidOf(r))) /\ Agrees(items[8], Field(FALSE, r.data))
        /\ Agrees(items[9], Field(TRUE, <<>>))
    BY <1>1 DEF TypedFields
  <1>3. /\ HoldsNumber(items[1], r.network.chain_id) /\ HoldsNumber(items[2], r.nonce)
        /\ HoldsNumber(items[3], r.max_priority_fee)
        /\ HoldsNumber(items[4], r.gas_price_or_max_fee)
        /\ HoldsNumber(items[5], r.gas_limit) /\ HoldsBytes(items[6], r.contract)
        /\ HoldsNumber(items[7], PaidOf(r)) /\ HoldsBytes(items[8], r.data)
        /\ items[9].list /\ items[9].data = <<>>
    BY ONLY <1>2, AgreesWith, Zenon
  <1>4. ClosesWell(r.type, items)
    BY <1>3 DEF ClosesWell
  <1>5. PICK f : f = FieldsOf(r.type, items)
    OBVIOUS
  <1>6. /\ f.chain_id = items[1] /\ f.nonce = items[2] /\ f.priority = items[3] /\ f.price = items[4]
        /\ f.gas = items[5] /\ f.to = items[6] /\ f.value = items[7] /\ f.data = items[8]
    BY <1>5 DEF FieldsOf
  <1>7. FieldsHold(f, r)
    BY ONLY <1>3, <1>6, r.type = "Eip1559", Zenon DEF FieldsHold
  <1> QED
    BY ONLY <1>4, <1>5, <1>7, Zenon

\* And of one without a type.
LEMMA LegacyItems ==
    ASSUME NEW r, r.type = "LegacyEip155", NEW s, LegacyFields(s, r), NEW items,
           \A i \in 1 .. 9 : Agrees(items[i], s[i])
    PROVE  FieldsHold(FieldsOf(r.type, items), r) /\ ClosesWell(r.type, items)
  <1>1. \A i \in {1, 2, 3, 4, 5, 6, 7, 8, 9} : Agrees(items[i], s[i])
    <2>1. {1, 2, 3, 4, 5, 6, 7, 8, 9} \subseteq 1 .. 9
      OBVIOUS
    <2> QED
      BY <2>1
  <1>2. /\ Agrees(items[1], NumberField(r.nonce)) /\ Agrees(items[2], NumberField(r.gas_price_or_max_fee))
        /\ Agrees(items[3], NumberField(r.gas_limit)) /\ Agrees(items[4], Field(FALSE, r.contract))
        /\ Agrees(items[5], NumberField(PaidOf(r))) /\ Agrees(items[6], Field(FALSE, r.data))
        /\ Agrees(items[7], NumberField(r.network.chain_id))
        /\ Agrees(items[8], NumberField(0)) /\ Agrees(items[9], NumberField(0))
    BY <1>1 DEF LegacyFields
  <1>3. /\ HoldsNumber(items[1], r.nonce) /\ HoldsNumber(items[2], r.gas_price_or_max_fee)
        /\ HoldsNumber(items[3], r.gas_limit) /\ HoldsBytes(items[4], r.contract)
        /\ HoldsNumber(items[5], PaidOf(r)) /\ HoldsBytes(items[6], r.data)
        /\ HoldsNumber(items[7], r.network.chain_id)
        /\ HoldsNumber(items[8], 0) /\ HoldsNumber(items[9], 0)
    BY ONLY <1>2, AgreesWith, Zenon
  <1>4. ClosesWell(r.type, items)
    <2>1. \A i \in {8, 9} : items[i].list = FALSE /\ items[i].data = <<>>
      BY <1>3, NoBytesOfZero DEF HoldsNumber
    <2> QED
      BY <2>1 DEF ClosesWell
  <1>5. PICK f : f = FieldsOf(r.type, items)
    OBVIOUS
  <1>6. /\ f.nonce = items[1] /\ f.price = items[2] /\ f.gas = items[3] /\ f.to = items[4]
        /\ f.value = items[5] /\ f.data = items[6] /\ f.chain_id = items[7]
        /\ f.priority = Item(FALSE, <<>>, <<>>)
    BY <1>5 DEF FieldsOf
  <1>7. HoldsNumber(f.priority, 0)
    BY <1>6, NoBytesOfZero DEF HoldsNumber, Item
  <1>8. r.type # "Eip1559"
    OBVIOUS
  <1>9. FieldsHold(f, r)
    BY ONLY <1>3, <1>6, <1>7, <1>8, Zenon DEF FieldsHold
  <1> QED
    BY ONLY <1>4, <1>5, <1>9, Zenon

\* What the reader finds in what the writer wrote of a request.
Found(r) ==
    LET tx == serialize_transaction(r, None)
        outer == read_rlp_item(IF r.type = "Eip1559" THEN Tail(tx) ELSE tx)
        read == ReadItems(outer.data, 9)
    IN  /\ outer.ok /\ outer.list /\ outer.rest = <<>>
        /\ read.ok /\ read.rest = <<>>
        /\ ClosesWell(r.type, read.items)
        /\ FieldsHold(FieldsOf(r.type, read.items), r)

\* The reader finds the request's own fields.
LEMMA FieldsRead ==
    ASSUME NEW r, Written(r), r.type \in Types, Len(serialize_transaction(r, None)) < Weight[SizeBytes]
    PROVE  Found(r)
  <1>1. PICK tx : tx = serialize_transaction(r, None)
    OBVIOUS
  <1>2. PICK outer : outer = read_rlp_item(IF r.type = "Eip1559" THEN Tail(tx) ELSE tx)
    OBVIOUS
  <1>3. PICK fields : fields = KeptFields(r) \o AddedFields(r, None)
    OBVIOUS
  <1>4. PICK read : read = ReadItems(outer.data, 9)
    OBVIOUS
  <1>5. r.type \in {"Eip1559", "LegacyEip155"}
    BY DEF Types
  <1>6. LET bytes == serialize_transaction(r, None)
            out == read_rlp_item(IF r.type = "Eip1559" THEN Tail(bytes) ELSE bytes)
            all == KeptFields(r) \o AddedFields(r, None)
            items == ReadItems(out.data, Len(all))
        IN  /\ all \in Seq(FieldSet) /\ Len(all) = Kept(r) + Len(AddedFields(r, None))
            /\ AddedFields(r, None) \in Seq(FieldSet)
            /\ out.ok /\ out.list /\ out.rest = <<>>
            /\ items.ok /\ items.rest = <<>> /\ Len(items.items) = Len(all)
            /\ \A i \in 1 .. Len(all) : items.items[i].data = all[i].data
            /\ \A i \in 1 .. Len(all) : items.items[i].list = all[i].list
    <2>1. None = None \/ (None # None /\ RecoveryByte(r, None) \in Nat /\ None.r \in Nat /\ None.s \in Nat)
      OBVIOUS
    <2> QED
      BY ONLY <1>5, <2>1, Written(r), Len(serialize_transaction(r, None)) < Weight[SizeBytes],
              PayloadReadBack, Zenon
  <1>7. Kept(r) + Len(AddedFields(r, None)) = 9
    BY ONLY Written(r), <1>5, AddedIs, Zenon
  <1>8. Len(fields) = 9
    BY ONLY <1>3, <1>6, <1>7, Zenon
  <1>9. /\ outer.ok /\ outer.list /\ outer.rest = <<>> /\ read.ok /\ read.rest = <<>>
        /\ \A i \in 1 .. 9 : read.items[i].data = fields[i].data
        /\ \A i \in 1 .. 9 : read.items[i].list = fields[i].list
    BY ONLY <1>1, <1>2, <1>3, <1>4, <1>6, <1>8, Zenon
  <1>10. \A i \in 1 .. 9 : Agrees(read.items[i], fields[i])
    BY ONLY <1>9, Zenon DEF Agrees
  <1>11. FieldsHold(FieldsOf(r.type, read.items), r) /\ ClosesWell(r.type, read.items)
    <2>1. CASE r.type = "Eip1559"
      <3>1. TypedFields(fields, r)
        BY <1>3, <2>1, NineTyped
      <3> QED
        BY ONLY <1>10, <2>1, <3>1, TypedItems, Zenon
    <2>2. CASE r.type = "LegacyEip155"
      <3>1. LegacyFields(fields, r)
        BY <1>3, <2>2, NineLegacy
      <3> QED
        BY ONLY <1>10, <2>2, <3>1, LegacyItems, Zenon
    <2> QED
      BY <1>5, <2>1, <2>2
  <1> QED
    BY ONLY <1>1, <1>2, <1>4, <1>9, <1>11, Zenon DEF Found

\* A written request's first byte tells its type.
LEMMA TypeRead ==
    ASSUME NEW r, Written(r), r.type \in Types
    PROVE  LET tx == serialize_transaction(r, None)
           IN  tx \in Seq(Nat) /\ tx # <<>> /\ TypeOf(tx) = r.type
  <1>1. PICK tx : tx = serialize_transaction(r, None)
    OBVIOUS
  <1>2. PICK payload : payload = SignedFields(r) \o SignatureFields(r, None)
    OBVIOUS
  <1>3. payload \in Seq(Nat)
    <2>1. SignatureFields(r, None) \in Seq(Nat)
      <3>1. CASE r.type = "LegacyEip155"
        <4>1. SignatureFields(r, None) = write_rlp_integer(r.network.chain_id)
                  \o write_rlp_integer(0) \o write_rlp_integer(0)
          BY <3>1, Zenon DEF SignatureFields
        <4>2. r.network.chain_id \in Nat /\ 0 \in Nat
          BY DEF Written
        <4>3. write_rlp_integer(r.network.chain_id) \in Seq(Nat) /\ write_rlp_integer(0) \in Seq(Nat)
          BY <4>2, WrittenInteger
        <4> QED
          BY <4>1, <4>3
      <3>2. CASE r.type # "LegacyEip155"
        <4>1. SignatureFields(r, None) = <<>>
          BY <3>2, Zenon DEF SignatureFields
        <4> QED
          BY <4>1
      <3> QED
        BY <3>1, <3>2
    <2>2. SignedFields(r) \in Seq(Nat)
      BY SignedFieldsType
    <2> QED
      BY ONLY <1>2, <2>1, <2>2
  <1>4. PICK list : list = write_rlp_list(payload)
    OBVIOUS
  <1>5. list \in Seq(Nat) /\ Len(list) >= 1 /\ list[1] >= ListBase /\ list[1] # Eip1559Type
    <2>1. PICK head : head = write_rlp_prefix(Len(payload), TRUE)
      OBVIOUS
    <2>2. Len(payload) \in Nat
      BY <1>3
    <2>3. head \in Seq(Nat) /\ Len(head) >= 1
      BY ONLY <2>1, <2>2, PrefixLength
    <2>4. head[1] >= ListBase /\ head[1] \in Nat
      <3>1. /\ ListBase \in Nat /\ Short \in Nat /\ Digits(Len(payload)) \in Nat
        BY <2>2, BaseType, ToBytesType
      <3>2. CASE Len(payload) <= Short
        <4>1. head = <<ListBase + Len(payload)>>
          BY <2>1, <3>2 DEF write_rlp_prefix
        <4> QED
          BY ONLY <2>2, <3>1, <4>1
      <3>3. CASE ~(Len(payload) <= Short)
        <4>1. head = <<ListBase + Short + Digits(Len(payload))>> \o ToBytes(Len(payload))
          BY <2>1, <3>3 DEF write_rlp_prefix
        <4>2. ToBytes(Len(payload)) \in Seq(Nat)
          BY <2>2, ToBytesType, ByteSeqs
        <4>3. head[1] = ListBase + Short + Digits(Len(payload))
          <5>1. PICK n : n = ListBase + Short + Digits(Len(payload))
            OBVIOUS
          <5>2. n \in Nat
            BY ONLY <3>1, <5>1
          <5>3. PICK b : b = ToBytes(Len(payload))
            OBVIOUS
          <5>4. b \in Seq(Nat) /\ head = <<n>> \o b
            BY <4>1, <4>2, <5>1, <5>3
          <5>5. head[1] = n
            BY ONLY <5>2, <5>4
          <5> QED
            BY <5>1, <5>5
        <4> QED
          BY ONLY <3>1, <4>3
      <3> QED
        BY <3>2, <3>3
    <2>5. list = head \o payload
      BY <1>4, <2>1 DEF write_rlp_list
    <2>6. list \in Seq(Nat) /\ Len(list) >= 1 /\ list[1] = head[1]
      BY ONLY <1>3, <2>3, <2>5
    <2>7. ListBase > 2 /\ ListBase \in Nat
      BY RlpAssumption DEF ListBase
    <2> QED
      BY ONLY <2>4, <2>6, <2>7 DEF Eip1559Type
  <1>6. tx = (IF r.type = "Eip1559" THEN <<Eip1559Type>> ELSE <<>>) \o list
    BY <1>1, <1>2, <1>4 DEF serialize_transaction
  <1>7. tx \in Seq(Nat) /\ tx # <<>> /\ TypeOf(tx) = r.type
    <2>1. CASE r.type = "Eip1559"
      <3>1. PICK first : first = <<Eip1559Type>>
        OBVIOUS
      <3>2. first \in Seq(Nat) /\ Len(first) = 1 /\ first[1] = Eip1559Type
        BY <3>1 DEF Eip1559Type
      <3>3. tx = first \o list
        BY <1>6, <2>1, <3>1
      <3>4. tx \in Seq(Nat) /\ Len(tx) >= 1 /\ tx[1] = Eip1559Type
        <4>1. tx \in Seq(Nat) /\ Len(tx) = Len(first) + Len(list) /\ tx[1] = first[1]
          <5>1. first \in Seq(Nat) /\ list \in Seq(Nat)
            BY <1>5, <3>2
          <5>2. InTwo(tx, first, list)
            BY ONLY <3>3, <5>1, TwoLaid, Zenon
          <5>3. 1 \in 1 .. Len(first)
            BY <3>2
          <5> QED
            BY ONLY <5>2, <5>3, Zenon DEF InTwo
        <4>2. Len(list) \in Nat
          BY <1>5
        <4> QED
          BY ONLY <3>2, <4>1, <4>2
      <3> QED
        BY <2>1, <3>4 DEF TypeOf
    <2>2. CASE r.type = "LegacyEip155"
      <3>1. tx = <<>> \o list
        BY <1>6, <2>2
      <3>2. tx = list
        BY <1>5, <3>1
      <3> QED
        BY <1>5, <2>2, <3>2 DEF TypeOf
    <2> QED
      BY <2>1, <2>2 DEF Types
  <1> QED
    BY <1>1, <1>7

\* A string that has the size of a call at most takes its own length and that of the longest prefix.
LEMMA WrittenText ==
    ASSUME NEW data \in Seq(Nat), NEW size \in Nat, Len(data) <= size, size < Weight[SizeBytes]
    PROVE  /\ write_rlp_bytes(data) \in Seq(Nat) /\ Len(write_rlp_bytes(data)) \in Nat
           /\ Len(write_rlp_bytes(data)) <= 1 + SizeBytes + size
  <1>1. Len(data) \in Nat /\ SizeBytes \in Nat /\ Weight[SizeBytes] \in Nat
    <2>1. SizeBytes \in Nat
      BY RlpAssumption
    <2>2. Weight[SizeBytes] \in Nat
      BY <2>1, WeightRecursion
    <2> QED
      BY <2>1, <2>2
  <1>2. write_rlp_bytes(data) \in Seq(Nat)
    BY WrittenBytes
  <1>3. CASE Len(data) = 1 /\ data[1] < Single
    <2>1. write_rlp_bytes(data) = data
      BY <1>3 DEF write_rlp_bytes
    <2> QED
      BY <1>1, <1>2, <2>1
  <1>4. CASE ~(Len(data) = 1 /\ data[1] < Single)
    <2>1. PICK head : head = write_rlp_prefix(Len(data), FALSE)
      OBVIOUS
    <2>2. head \in Seq(Nat) /\ Len(head) <= 1 + Digits(Len(data)) /\ Len(head) \in Nat
      <3>1. PICK n : n = Len(data)
        OBVIOUS
      <3>2. n \in Nat /\ head = write_rlp_prefix(n, FALSE)
        BY <1>1, <2>1, <3>1
      <3>3. head \in Seq(Nat) /\ Len(head) <= 1 + Digits(n)
        BY ONLY <3>2, PrefixLength, Zenon
      <3>4. Len(head) \in Nat
        BY ONLY <3>3
      <3> QED
        BY ONLY <3>1, <3>3, <3>4, Zenon
    <2>3. Digits(Len(data)) <= SizeBytes /\ Digits(Len(data)) \in Nat
      <3>1. Len(data) < Weight[SizeBytes]
        BY <1>1
      <3>2. Digits(Len(data)) <= SizeBytes
        BY ONLY <1>1, <3>1, DigitsBelow
      <3> QED
        BY <1>1, <3>2, ToBytesType
    <2>4. write_rlp_bytes(data) = head \o data
      BY <1>4, <2>1 DEF write_rlp_bytes
    <2>5. Len(head \o data) = Len(head) + Len(data)
      BY ONLY <2>2, data \in Seq(Nat)
    <2> QED
      BY ONLY <1>1, <1>2, <2>2, <2>3, <2>4, <2>5, size \in Nat, Len(data) <= size
  <1> QED
    BY <1>3, <1>4

\* A list as well.
LEMMA WrittenRoom ==
    ASSUME NEW payload \in Seq(Nat), NEW size \in Nat, Len(payload) <= size, size < Weight[SizeBytes]
    PROVE  /\ write_rlp_list(payload) \in Seq(Nat) /\ Len(write_rlp_list(payload)) \in Nat
           /\ Len(write_rlp_list(payload)) <= 1 + SizeBytes + size
  <1>1. Len(payload) \in Nat /\ SizeBytes \in Nat /\ Weight[SizeBytes] \in Nat
    <2>1. SizeBytes \in Nat
      BY RlpAssumption
    <2>2. Weight[SizeBytes] \in Nat
      BY <2>1, WeightRecursion
    <2> QED
      BY <2>1, <2>2
  <1>2. Digits(Len(payload)) <= SizeBytes /\ Digits(Len(payload)) \in Nat
    <2>1. Len(payload) < Weight[SizeBytes]
      BY <1>1
    <2>2. Digits(Len(payload)) <= SizeBytes
      BY ONLY <1>1, <2>1, DigitsBelow
    <2> QED
      BY <1>1, <2>2, ToBytesType
  <1>3. /\ write_rlp_list(payload) \in Seq(Nat)
        /\ Len(write_rlp_list(payload)) <= 1 + Digits(Len(payload)) + Len(payload)
    BY WrittenList
  <1>4. Len(write_rlp_list(payload)) \in Nat
    BY <1>3
  <1> QED
    BY ONLY <1>1, <1>2, <1>3, <1>4, size \in Nat, Len(payload) <= size

\* A request whose parts fit the fields that they are for.
FitsFields(r) ==
    /\ \A n \in {r.network.chain_id, r.nonce, r.gas_limit, r.gas_price_or_max_fee, r.max_priority_fee} :
           n < Weight[U64Size]
    /\ Len(r.contract) = AddressSize
    /\ IF r.token = None THEN r.data = <<>> /\ r.amount < Weight[Uint256Size]
                         ELSE Len(r.data) <= MaxDataSize

\* How long the parts of the payload can get.
LEMMA PartsFit ==
    ASSUME NEW r, Written(r), FitsFields(r)
    PROVE  /\ Len(write_rlp_bytes(r.contract)) <= 1 + AddressSize
           /\ Len(write_rlp_integer(PaidOf(r))) + Len(write_rlp_bytes(r.data)) <= 1 + (1 + SizeBytes + MaxDataSize)
           /\ MaxDataSize \in Nat /\ MaxDataSize < Weight[SizeBytes] /\ MaxUnsigned < Weight[SizeBytes]
           /\ Weight[SizeBytes] \in Nat
  <1>1. /\ AddressSize \in Nat /\ Uint256Size \in Nat /\ U64Size \in Nat /\ MaxUnsigned \in Nat /\ MaxSigned \in Nat
        /\ AddressSize <= Uint256Size /\ Uint256Size <= Short /\ SizeBytes \in Nat
        /\ Short \in Nat /\ MaxSigned < Weight[SizeBytes] /\ Weight[SizeBytes] \in Nat
    BY SizeAssumption, RoomAssumption, RlpAssumption, WeightRecursion
  <1>2. MaxDataSize \in Nat /\ MaxDataSize >= 2 * Uint256Size
    <2>1. Len(Selector) \in Nat
      BY ByteAssumption
    <2> QED
      BY ONLY <1>1, <2>1 DEF MaxDataSize
  <1>3. MaxDataSize <= MaxUnsigned /\ MaxUnsigned <= MaxSigned
    <2>1. MaxDataSize <= MaxUnsigned
      BY ONLY <1>1, <1>2, TransferRoomAssumption
    <2>2. MaxUnsigned <= MaxSigned
      BY ONLY <1>1, RoomAssumption
    <2> QED
      BY <2>1, <2>2
  <1>4. MaxDataSize < Weight[SizeBytes] /\ MaxUnsigned < Weight[SizeBytes]
    BY ONLY <1>1, <1>2, <1>3
  <1>5. r.contract \in Seq(Nat) /\ r.data \in Seq(Nat) /\ PaidOf(r) \in Nat
    BY SingleFields DEF Written
  <1>6. Len(write_rlp_bytes(r.contract)) <= 1 + AddressSize
    <2>1. Len(r.contract) = AddressSize /\ Len(r.contract) <= Short
      BY <1>1 DEF FitsFields
    <2>2. Len(write_rlp_bytes(r.contract)) <= 1 + Len(r.contract)
      BY ONLY <1>5, <2>1, WrittenBytes
    <2> QED
      BY <2>1, <2>2
  <1>7. Len(write_rlp_integer(PaidOf(r))) \in Nat /\ Len(write_rlp_bytes(r.data)) \in Nat
    <2>1. write_rlp_integer(PaidOf(r)) \in Seq(Nat) /\ write_rlp_bytes(r.data) \in Seq(Nat)
      BY ONLY <1>5, WrittenInteger, WrittenBytes
    <2> QED
      BY <2>1
  <1>8. Len(write_rlp_integer(PaidOf(r))) + Len(write_rlp_bytes(r.data)) <= 1 + (1 + SizeBytes + MaxDataSize)
    <2>1. CASE r.token = None
      <3>1. r.data = <<>> /\ PaidOf(r) < Weight[Uint256Size]
        BY <2>1 DEF FitsFields, PaidOf
      <3>2. Len(write_rlp_integer(PaidOf(r))) <= 1 + Uint256Size
        BY ONLY <1>1, <1>5, <3>1, WrittenInteger
      <3>3. Len(write_rlp_bytes(r.data)) <= 1
        <4>1. Len(r.data) = 0 /\ 0 <= Short
          BY <1>1, <3>1
        <4>2. Len(write_rlp_bytes(r.data)) <= 1 + Len(r.data)
          BY ONLY <1>5, <4>1, WrittenBytes
        <4> QED
          BY <4>1, <4>2
      <3> QED
        BY ONLY <1>1, <1>2, <1>7, <3>2, <3>3
    <2>2. CASE r.token # None
      <3>1. Len(r.data) <= MaxDataSize /\ PaidOf(r) = 0
        BY <2>2 DEF FitsFields, PaidOf
      <3>2. Len(write_rlp_integer(PaidOf(r))) <= 1
        <4>1. 0 < Weight[0] /\ 0 \in Nat /\ 0 <= Short
          BY <1>1, WeightRecursion
        <4>2. Len(write_rlp_integer(0)) <= 1 + 0
          BY ONLY <4>1, WrittenInteger
        <4> QED
          BY <3>1, <4>2
      <3>3. Len(write_rlp_bytes(r.data)) <= 1 + SizeBytes + MaxDataSize
        BY ONLY <1>2, <1>4, <1>5, <3>1, WrittenText
      <3> QED
        BY ONLY <1>1, <1>2, <1>7, <3>2, <3>3
    <2> QED
      BY <2>1, <2>2
  <1> QED
    BY <1>1, <1>2, <1>4, <1>6, <1>8

\* How long the fields that come first can get, and how many there are.
LEMMA NumbersFit ==
    ASSUME NEW r, Written(r), FitsFields(r), r.type \in Types,
           NEW numbers, numbers = NumbersOf(r), NEW texts,
           texts = [i \in DOMAIN numbers |-> write_rlp_integer(numbers[i])]
    PROVE  /\ FlattenSeq(texts) \in Seq(Nat)
           /\ Len(FlattenSeq(texts)) <= (1 + U64Size) * (IF r.type = "Eip1559" THEN 5 ELSE 3)
  <1>1. PICK count : count = IF r.type = "Eip1559" THEN 5 ELSE 3
    OBVIOUS
  <1>2. /\ r.network.chain_id \in Nat /\ r.nonce \in Nat /\ r.max_priority_fee \in Nat
        /\ r.gas_price_or_max_fee \in Nat /\ r.gas_limit \in Nat
    BY DEF Written
  <1>3. /\ r.network.chain_id < Weight[U64Size] /\ r.nonce < Weight[U64Size] /\ r.gas_limit < Weight[U64Size]
        /\ r.gas_price_or_max_fee < Weight[U64Size] /\ r.max_priority_fee < Weight[U64Size]
    BY DEF FitsFields
  <1>4. numbers \in Seq(Nat) /\ Len(numbers) = count /\ \A i \in 1 .. count : numbers[i] < Weight[U64Size]
    <2>1. CASE r.type = "Eip1559"
      <3>1. numbers = <<r.network.chain_id>> \o <<r.nonce>>
                      \o <<r.max_priority_fee, r.gas_price_or_max_fee>> \o <<r.gas_limit>>
        BY <2>1 DEF NumbersOf
      <3>2. /\ numbers \in Seq(Nat) /\ Len(numbers) = 5
            /\ numbers[1] = r.network.chain_id /\ numbers[2] = r.nonce /\ numbers[3] = r.max_priority_fee
            /\ numbers[4] = r.gas_price_or_max_fee /\ numbers[5] = r.gas_limit
        BY ONLY <1>2, <3>1
      <3>3. \A i \in 1 .. 5 : i = 1 \/ i = 2 \/ i = 3 \/ i = 4 \/ i = 5
        OBVIOUS
      <3>4. \A i \in 1 .. 5 : numbers[i] < Weight[U64Size]
        BY ONLY <1>3, <3>2, <3>3, Zenon
      <3> QED
        BY <1>1, <2>1, <3>2, <3>4
    <2>2. CASE r.type = "LegacyEip155"
      <3>1. numbers = <<>> \o <<r.nonce>> \o <<r.gas_price_or_max_fee>> \o <<r.gas_limit>>
        BY <2>2 DEF NumbersOf
      <3>2. /\ numbers \in Seq(Nat) /\ Len(numbers) = 3
            /\ numbers[1] = r.nonce /\ numbers[2] = r.gas_price_or_max_fee /\ numbers[3] = r.gas_limit
        BY ONLY <1>2, <3>1
      <3>3. \A i \in 1 .. 3 : i = 1 \/ i = 2 \/ i = 3
        OBVIOUS
      <3>4. \A i \in 1 .. 3 : numbers[i] < Weight[U64Size]
        BY ONLY <1>3, <3>2, <3>3, Zenon
      <3> QED
        BY <1>1, <2>2, <3>2, <3>4
    <2> QED
      BY <2>1, <2>2 DEF Types
  <1>5. count \in Nat \ {0}
    BY <1>1
  <1>6. U64Size \in Nat /\ U64Size <= Short
    <2>1. U64Size \in Nat /\ Short \in Nat /\ U64Size + 1 <= Short
      BY SizeAssumption, RoomAssumption, RlpAssumption
    <2> QED
      BY ONLY <2>1
  <1>7. \A i \in 1 .. count : write_rlp_integer(numbers[i]) \in Seq(Nat)
                             /\ Len(write_rlp_integer(numbers[i])) <= 1 + U64Size
    <2> TAKE i \in 1 .. count
    <2>1. PICK n : n = numbers[i]
      OBVIOUS
    <2>2. n \in Nat /\ n < Weight[U64Size]
      BY <1>4, <2>1, Elements
    <2>3. write_rlp_integer(n) \in Seq(Nat) /\ Len(write_rlp_integer(n)) <= 1 + U64Size
      BY ONLY <1>6, <2>2, WrittenInteger
    <2> QED
      BY ONLY <2>1, <2>3, Zenon
  <1>8. texts = [i \in 1 .. count |-> texts[i]] /\ \A i \in 1 .. count : texts[i] = write_rlp_integer(numbers[i])
    <2>1. DOMAIN numbers = 1 .. count
      BY <1>4
    <2> QED
      BY <2>1
  <1>9. \A i \in 1 .. count : texts[i] \in Seq(Nat) /\ Len(texts[i]) <= 1 + U64Size
    BY ONLY <1>7, <1>8, Zenon
  <1>10. texts \in Seq(Seq(Nat)) /\ Len(texts) = count
    <2>1. count \in Nat /\ texts = [i \in 1 .. count |-> texts[i]] /\ \A i \in 1 .. count : texts[i] \in Seq(Nat)
      BY <1>5, <1>8, <1>9
    <2> QED
      BY ONLY <2>1, StringOf
  <1>11. Len(FlattenSeq(texts)) <= (1 + U64Size) * count
    <2>1. PICK m : m = 1 + U64Size
      OBVIOUS
    <2>2. m \in Nat /\ Len(texts) # 0 /\ \A i \in 1 .. Len(texts) : Len(texts[i]) <= m
      BY <1>5, <1>6, <1>9, <1>10, <2>1
    <2>3. texts \in Seq(Seq(Nat))
      BY <1>10
    <2>4. Len(FlattenSeq(texts)) <= m * Len(texts)
      BY ONLY <2>2, <2>3, FlattenBound
    <2> QED
      BY <1>10, <2>1, <2>4
  <1>12. FlattenSeq(texts) \in Seq(Nat)
    BY ONLY <1>10, FlattenType
  <1> QED
    BY <1>1, <1>11, <1>12

\* The sum of the lengths of five strings.
LEMMA FiveLaid ==
    ASSUME NEW a \in Seq(Nat), NEW b \in Seq(Nat), NEW c \in Seq(Nat), NEW d \in Seq(Nat), NEW e \in Seq(Nat),
           NEW s, s = a \o b \o c \o d \o e
    PROVE  s \in Seq(Nat) /\ Len(s) = Len(a) + Len(b) + Len(c) + Len(d) + Len(e)
  OBVIOUS

\* The text of the fields that the signature does not change, and of what is added without one.
LEMMA SignedTexts ==
    ASSUME NEW r, NEW numbers, numbers = NumbersOf(r), NEW texts,
           texts = [i \in DOMAIN numbers |-> write_rlp_integer(numbers[i])]
    PROVE  SignedFields(r) = FlattenSeq(texts) \o write_rlp_bytes(r.contract) \o write_rlp_integer(PaidOf(r))
                             \o write_rlp_bytes(r.data)
                             \o (IF r.type = "Eip1559" THEN write_rlp_list(<<>>) ELSE <<>>)
  BY Zenon DEF SignedFields, NumbersOf, PaidOf

\* The payload of a request that is not signed fits the buffer with its prefixes.
LEMMA PayloadFits ==
    ASSUME NEW r, Written(r), FitsFields(r), r.type \in Types,
           NEW payload, payload = SignedFields(r) \o SignatureFields(r, None)
    PROVE  /\ payload \in Seq(Nat)
           /\ Len(payload) <= 5 * (1 + U64Size) + (1 + AddressSize) + (1 + (1 + SizeBytes + MaxDataSize)) + 1
  <1>1. PICK numbers : numbers = NumbersOf(r)
    OBVIOUS
  <1>2. PICK texts : texts = [i \in DOMAIN numbers |-> write_rlp_integer(numbers[i])]
    OBVIOUS
  <1>3. PICK first : first = FlattenSeq(texts)
    OBVIOUS
  <1>4. PICK to : to = write_rlp_bytes(r.contract)
    OBVIOUS
  <1>5. PICK paid : paid = write_rlp_integer(PaidOf(r))
    OBVIOUS
  <1>6. PICK data : data = write_rlp_bytes(r.data)
    OBVIOUS
  <1>7. PICK closing : closing = IF r.type = "Eip1559" THEN write_rlp_list(<<>>) ELSE <<>>
    OBVIOUS
  <1>8. PICK added : added = SignatureFields(r, None)
    OBVIOUS
  <1>9. PICK front : front = SignedFields(r)
    OBVIOUS
  <1>10. /\ first \in Seq(Nat)
         /\ Len(first) <= (1 + U64Size) * (IF r.type = "Eip1559" THEN 5 ELSE 3)
    BY ONLY <1>1, <1>2, <1>3, Written(r), FitsFields(r), r.type \in Types, NumbersFit, Zenon
  <1>11. /\ Len(to) <= 1 + AddressSize /\ Len(paid) + Len(data) <= 1 + (1 + SizeBytes + MaxDataSize)
         /\ MaxDataSize \in Nat
    BY ONLY <1>4, <1>5, <1>6, Written(r), FitsFields(r), PartsFit, Zenon
  <1>12. to \in Seq(Nat) /\ paid \in Seq(Nat) /\ data \in Seq(Nat)
    <2>1. r.contract \in Seq(Nat) /\ r.data \in Seq(Nat) /\ PaidOf(r) \in Nat
      BY SingleFields DEF Written
    <2> QED
      BY ONLY <1>4, <1>5, <1>6, <2>1, WrittenBytes, WrittenInteger
  <1>13. U64Size \in Nat \ {0} /\ AddressSize \in Nat /\ SizeBytes \in Nat /\ U64Size + 1 <= Short
         /\ Short \in Nat
    BY SizeAssumption, RoomAssumption, RlpAssumption
  <1>14. closing \in Seq(Nat) /\ Len(closing) <= (IF r.type = "Eip1559" THEN 1 ELSE 0)
    <2>1. CASE r.type = "Eip1559"
      <3>1. PICK e : e = <<>>
        OBVIOUS
      <3>2. e \in Seq(Nat) /\ Len(e) = 0
        BY <3>1
      <3>3. Digits(0) = 0
        BY DigitsFit
      <3>4. closing = write_rlp_list(e)
        BY <1>7, <2>1, <3>1
      <3>5. write_rlp_list(e) \in Seq(Nat) /\ Len(write_rlp_list(e)) <= 1 + Digits(Len(e)) + Len(e)
        BY ONLY <3>2, WrittenList
      <3>6. 1 + 0 + 0 = 1
        OBVIOUS
      <3> QED
        BY ONLY <2>1, <3>2, <3>3, <3>4, <3>5, <3>6, Zenon
    <2>2. CASE r.type # "Eip1559"
      BY <1>7, <2>2
    <2> QED
      BY <2>1, <2>2
  <1>15. added \in Seq(Nat) /\ Len(added) <= (IF r.type = "Eip1559" THEN 0 ELSE (1 + U64Size) + 1 + 1)
    <2>1. CASE r.type = "Eip1559"
      <3>1. added = <<>>
        BY <1>8, <2>1, Zenon DEF SignatureFields
      <3> QED
        BY <2>1, <3>1
    <2>2. CASE r.type = "LegacyEip155"
      <3>1. PICK c : c = r.network.chain_id
        OBVIOUS
      <3>2. c \in Nat /\ c < Weight[U64Size]
        BY <3>1 DEF Written, FitsFields
      <3>3. PICK x : x = write_rlp_integer(c)
        OBVIOUS
      <3>4. PICK y : y = write_rlp_integer(0)
        OBVIOUS
      <3>5. x \in Seq(Nat) /\ Len(x) <= 1 + U64Size
        <4>1. U64Size \in Nat /\ U64Size <= Short
          BY ONLY <1>13
        <4> QED
          BY ONLY <3>2, <3>3, <4>1, WrittenInteger
      <3>6. y \in Seq(Nat) /\ Len(y) <= 1
        <4>1. 0 < Weight[0] /\ 0 \in Nat /\ 0 <= Short
          BY <1>13, WeightRecursion
        <4>2. Len(write_rlp_integer(0)) <= 1 + 0 /\ write_rlp_integer(0) \in Seq(Nat)
          BY ONLY <4>1, WrittenInteger
        <4> QED
          BY <3>4, <4>2
      <3>7. added = x \o y \o y
        BY <1>8, <2>2, <3>1, <3>3, <3>4, Zenon DEF SignatureFields
      <3>8. added \in Seq(Nat) /\ Len(added) = Len(x) + Len(y) + Len(y)
        BY ONLY <3>5, <3>6, <3>7
      <3>9. Len(x) \in Nat /\ Len(y) \in Nat
        BY ONLY <3>5, <3>6
      <3>10. Len(added) <= (1 + U64Size) + 1 + 1
        BY ONLY <1>13, <3>5, <3>6, <3>8, <3>9
      <3> QED
        BY <2>2, <3>8, <3>10
    <2> QED
      BY <2>1, <2>2 DEF Types
  <1>16. front = first \o to \o paid \o data \o closing
    BY ONLY <1>1, <1>2, <1>3, <1>4, <1>5, <1>6, <1>7, <1>9, SignedTexts, Zenon
  <1>17. front \in Seq(Nat) /\ Len(front) = Len(first) + Len(to) + Len(paid) + Len(data) + Len(closing)
    <2>1. first \in Seq(Nat) /\ to \in Seq(Nat) /\ paid \in Seq(Nat) /\ data \in Seq(Nat) /\ closing \in Seq(Nat)
      BY <1>10, <1>12, <1>14
    <2> QED
      BY ONLY <1>16, <2>1, FiveLaid
  <1>18. payload \in Seq(Nat) /\ Len(payload) = Len(front) + Len(added)
    <2>1. payload = front \o added
      BY <1>8, <1>9
    <2>2. front \in Seq(Nat) /\ added \in Seq(Nat)
      BY <1>15, <1>17
    <2> QED
      BY ONLY <2>1, <2>2
  <1>19. /\ Len(first) \in Nat /\ Len(to) \in Nat /\ Len(paid) \in Nat /\ Len(data) \in Nat
         /\ Len(closing) \in Nat /\ Len(added) \in Nat
    BY ONLY <1>10, <1>12, <1>14, <1>15
  <1>20. Len(first) + Len(closing) + Len(added) <= 5 * (1 + U64Size) + 1
    <2>1. CASE r.type = "Eip1559"
      <3>1. Len(first) <= (1 + U64Size) * 5 /\ Len(closing) <= 1 /\ Len(added) <= 0
        BY <1>10, <1>14, <1>15, <2>1
      <3> QED
        BY ONLY <1>13, <1>19, <3>1
    <2>2. CASE r.type # "Eip1559"
      <3>1. Len(first) <= (1 + U64Size) * 3 /\ Len(closing) <= 0 /\ Len(added) <= (1 + U64Size) + 1 + 1
        BY <1>10, <1>14, <1>15, <2>2
      <3> QED
        BY ONLY <1>13, <1>19, <3>1
    <2> QED
      BY <2>1, <2>2
  <1>21. Len(payload) <= 5 * (1 + U64Size) + (1 + AddressSize) + (1 + (1 + SizeBytes + MaxDataSize)) + 1
    BY ONLY <1>11, <1>13, <1>17, <1>18, <1>19, <1>20
  <1> QED
    BY <1>18, <1>21

\* Such a request fits the buffer for unsigned transactions.
LEMMA UnsignedFits ==
    ASSUME NEW r, Written(r), FitsFields(r), r.type \in Types
    PROVE  /\ serialize_transaction(r, None) \in Seq(Nat)
           /\ Len(serialize_transaction(r, None)) <= MaxUnsigned
           /\ Len(serialize_transaction(r, None)) < Weight[SizeBytes]
  <1>1. PICK payload : payload = SignedFields(r) \o SignatureFields(r, None)
    OBVIOUS
  <1>2. PICK size : size = 5 * (1 + U64Size) + (1 + AddressSize) + (1 + (1 + SizeBytes + MaxDataSize)) + 1
    OBVIOUS
  <1>3. payload \in Seq(Nat) /\ Len(payload) <= size
    BY ONLY <1>1, <1>2, Written(r), FitsFields(r), r.type \in Types, PayloadFits, Zenon
  <1>4. MaxDataSize \in Nat /\ MaxUnsigned < Weight[SizeBytes] /\ Weight[SizeBytes] \in Nat
    BY PartsFit
  <1>5. U64Size \in Nat /\ AddressSize \in Nat /\ SizeBytes \in Nat /\ MaxUnsigned \in Nat
    BY SizeAssumption, RlpAssumption
  <1>6. size \in Nat /\ 1 + (1 + SizeBytes + size) <= MaxUnsigned /\ size < Weight[SizeBytes]
    <2>1. size \in Nat
      BY ONLY <1>2, <1>4, <1>5
    <2>2. 1 + (1 + SizeBytes + size) <= MaxUnsigned
      BY ONLY <1>2, <1>4, <1>5, TransferRoomAssumption
    <2>3. size < Weight[SizeBytes]
      BY ONLY <1>4, <1>5, <2>1, <2>2
    <2> QED
      BY <2>1, <2>2, <2>3
  <1>7. PICK list : list = write_rlp_list(payload)
    OBVIOUS
  <1>8. list \in Seq(Nat) /\ Len(list) \in Nat /\ Len(list) <= 1 + SizeBytes + size
    BY ONLY <1>3, <1>6, <1>7, WrittenRoom
  <1>9. PICK tx : tx = serialize_transaction(r, None)
    OBVIOUS
  <1>10. PICK type : type = IF r.type = "Eip1559" THEN <<Eip1559Type>> ELSE <<>>
    OBVIOUS
  <1>11. type \in Seq(Nat) /\ Len(type) <= 1
    BY <1>10 DEF Eip1559Type
  <1>12. tx = type \o list
    BY <1>1, <1>7, <1>9, <1>10 DEF serialize_transaction
  <1>13. tx \in Seq(Nat) /\ Len(tx) = Len(type) + Len(list) /\ Len(type) \in Nat
    BY ONLY <1>8, <1>11, <1>12
  <1>14. Len(tx) <= MaxUnsigned /\ Len(tx) < Weight[SizeBytes]
    BY ONLY <1>4, <1>5, <1>6, <1>8, <1>11, <1>13
  <1> QED
    BY ONLY <1>9, <1>13, <1>14, Zenon

\* A call of transfer, put together.
CallOf(recipient, amount) == Selector \o PaddedText(recipient, Uint256Size) \o Padded(amount, Uint256Size)

\* It is recognized, and its amount is read from it.
LEMMA CallHas ==
    ASSUME NEW recipient \in [1 .. AddressSize -> Byte], NEW amount \in 0 .. Weight[Uint256Size] - 1,
           amount # 0, NEW data, data = CallOf(recipient, amount)
    PROVE  /\ data \in Seq(Nat) /\ data # <<>> /\ Len(data) = MaxDataSize
           /\ IsTransfer(data) /\ AmountOf(data) = amount
  <1>1. PICK S : S = Len(Selector)
    OBVIOUS
  <1>2. PICK U : U = Uint256Size
    OBVIOUS
  <1>3. PICK A : A = AddressSize
    OBVIOUS
  <1>4. /\ S \in Nat /\ U \in Nat /\ A \in Nat /\ A <= U /\ Selector \in Seq(Nat)
        /\ MaxDataSize = S + 2 * U /\ Weight[U] \in Nat
    <2>1. U \in Nat
      BY <1>2, SizeAssumption
    <2>2. Weight[U] \in Nat
      BY <2>1, WeightRecursion
    <2> QED
      BY <1>1, <1>2, <1>3, <2>1, <2>2, SizeAssumption, ByteAssumption, ByteSeqs DEF MaxDataSize
  <1>5. amount \in Nat /\ amount < Weight[U]
    <2>1. amount \in 0 .. Weight[U] - 1
      BY <1>2
    <2> QED
      BY ONLY <1>4, <2>1
  <1>6. U # 0
    <2>1. U = 0 => Weight[U] = 1
      BY WeightRecursion
    <2> QED
      BY <1>5, <2>1
  <1>7. PICK front : front = PaddedText(recipient, U)
    OBVIOUS
  <1>8. PICK back : back = Padded(amount, U)
    OBVIOUS
  <1>9. back \in Seq(Nat) /\ Len(back) = U /\ Value(back) = amount
    BY ONLY <1>4, <1>5, <1>8, PaddedNumber
  <1>10. recipient \in Seq(Nat) /\ Len(recipient) = A
    <2>1. recipient = [i \in 1 .. A |-> recipient[i]] /\ \A i \in 1 .. A : recipient[i] \in Byte
      BY <1>3
    <2>2. recipient \in Seq(Byte) /\ Len(recipient) = A
      BY ONLY <1>4, <2>1, StringOf
    <2> QED
      BY <2>2, ByteSeqs
  <1>11. front \in Seq(Nat) /\ Len(front) = U /\ \A i \in 1 .. U - A : front[i] = 0
    <2>1. PICK zeros : zeros = [i \in 1 .. U - A |-> 0]
      OBVIOUS
    <2>2. U - A \in Nat
      BY <1>4
    <2>3. zeros \in Seq(Nat) /\ Len(zeros) = U - A /\ \A i \in 1 .. U - A : zeros[i] = 0
      BY ONLY <2>1, <2>2, ZerosAre
    <2>4. front = zeros \o recipient
      BY <1>7, <1>10, <2>1 DEF PaddedText
    <2>5. zeros \in Seq(Nat) /\ recipient \in Seq(Nat)
      BY <1>10, <2>3
    <2>6. InTwo(front, zeros, recipient)
      BY ONLY <2>4, <2>5, TwoLaid, Zenon
    <2>7. /\ front \in Seq(Nat) /\ Len(front) = Len(zeros) + Len(recipient)
          /\ \A i \in 1 .. Len(zeros) : front[i] = zeros[i]
      BY ONLY <2>6, Zenon DEF InTwo
    <2>8. Len(front) = U
      BY ONLY <1>4, <1>10, <2>3, <2>7
    <2> QED
      BY ONLY <2>3, <2>7, <2>8
  <1>12. data = Selector \o front \o back
    BY <1>2, <1>7, <1>8 DEF CallOf
  <1>13. InThree(data, Selector, front, back)
    <2>1. front \in Seq(Nat) /\ back \in Seq(Nat) /\ Selector \in Seq(Nat)
      BY <1>4, <1>9, <1>11
    <2> QED
      BY ONLY <1>12, <2>1, ThreeLaid, Zenon
  <1>14. /\ data \in Seq(Nat) /\ Len(data) = Len(Selector) + Len(front) + Len(back)
         /\ \A i \in 1 .. Len(Selector) : data[i] = Selector[i]
         /\ \A i \in 1 .. Len(front) : data[Len(Selector) + i] = front[i]
         /\ \A i \in 1 .. Len(back) : data[Len(Selector) + Len(front) + i] = back[i]
    BY ONLY <1>13, Zenon DEF InThree
  <1>15. /\ \A i \in 1 .. S : data[i] = Selector[i]
         /\ \A i \in 1 .. U : data[S + i] = front[i]
         /\ \A i \in 1 .. U : data[(S + U) + i] = back[i]
    BY ONLY <1>1, <1>9, <1>11, <1>14, Zenon
  <1>16. Len(data) = MaxDataSize /\ data # <<>> /\ Len(data) = S + 2 * U
    <2>1. Len(data) = S + U + U
      BY ONLY <1>1, <1>9, <1>11, <1>14, Zenon
    <2>2. S + U + U = S + 2 * U /\ S + 2 * U # 0
      BY ONLY <1>4, <1>6
    <2>3. data # <<>>
      BY <2>1, <2>2
    <2> QED
      BY <1>4, <2>1, <2>2, <2>3
  <1>17. \A i \in 1 .. U - A : data[S + i] = 0
    <2>1. \A i \in 1 .. U - A : i \in 1 .. U
      BY <1>4
    <2> QED
      BY ONLY <1>11, <1>15, <2>1, Zenon
  <1>18. IsPrefix(Selector, data)
    <2>1. PICK p : p = SubSeq(Selector, 1, S)
      OBVIOUS
    <2>2. PICK q : q = SubSeq(data, 1, S)
      OBVIOUS
    <2>3. S <= Len(data) /\ S <= Len(Selector)
      BY ONLY <1>1, <1>4, <1>16
    <2>4. FirstOf(p, Selector, S) /\ FirstOf(q, data, S)
      <3>1. data \in Seq(Nat) /\ Selector \in Seq(Nat) /\ S \in Nat
        BY <1>4, <1>14
      <3> QED
        BY ONLY <2>1, <2>2, <2>3, <3>1, FirstPart, Zenon
    <2>5. /\ p \in Seq(Nat) /\ Len(p) = S /\ \A i \in 1 .. S : p[i] = Selector[i]
          /\ q \in Seq(Nat) /\ Len(q) = S /\ \A i \in 1 .. S : q[i] = data[i]
      BY ONLY <2>4 DEF FirstOf
    <2>6. \A i \in 1 .. S : p[i] = q[i]
      BY ONLY <1>15, <2>5, Zenon
    <2>7. p = q
      BY ONLY <2>5, <2>6, SameElements
    <2> QED
      BY <1>1, <2>1, <2>2, <2>3, <2>7 DEF IsPrefix
  <1>19. IsTransfer(data)
    BY <1>1, <1>2, <1>3, <1>16, <1>17, <1>18 DEF IsTransfer
  <1>20. AmountOf(data) = amount
    <2>1. PICK k : k = (S + U) + 1
      OBVIOUS
    <2>2. PICK m : m = S + 2 * U
      OBVIOUS
    <2>3. PICK part : part = SubSeq(data, k, m)
      OBVIOUS
    <2>4. k \in Nat \ {0} /\ m \in Nat /\ m <= Len(data) /\ k <= m
      BY ONLY <1>4, <1>6, <1>16, <2>1, <2>2
    <2>5. PartOf(part, data, k, m)
      <3>1. data \in Seq(Nat) /\ k \in Nat \ {0} /\ m \in Nat /\ m <= Len(data)
        BY <1>14, <2>4
      <3> QED
        BY ONLY <2>3, <3>1, Part, Zenon
    <2>6. /\ part \in Seq(Nat) /\ Len(part) = IF k <= m THEN m - k + 1 ELSE 0
          /\ \A i \in 1 .. Len(part) : part[i] = data[k + i - 1]
      BY ONLY <2>5 DEF PartOf
    <2>7. Len(part) = U
      BY ONLY <1>4, <2>1, <2>2, <2>4, <2>6
    <2>8. \A i \in 1 .. U : k + i - 1 = (S + U) + i
      BY ONLY <1>4, <2>1
    <2>9. \A i \in 1 .. U : part[i] = back[i]
      BY ONLY <1>15, <2>6, <2>7, <2>8, Zenon
    <2>10. part = back
      BY ONLY <1>9, <2>6, <2>7, <2>9, SameElements
    <2>11. AmountOf(data) = Value(part)
      BY <1>1, <1>2, <1>4, <2>1, <2>2, <2>3 DEF AmountOf
    <2> QED
      BY ONLY <1>9, <2>10, <2>11, Zenon
  <1> QED
    BY ONLY <1>14, <1>16, <1>19, <1>20, Zenon

\* A product of positive factors is as large as each of them.
LEMMA FactorsBelow == ASSUME NEW a \in Nat \ {0}, NEW b \in Nat \ {0} PROVE a <= a * b /\ b <= a * b
  <1>1. \A x, y \in Nat : x <= x + x * y
    OBVIOUS
  <1>2. a * b = a + a * (b - 1) /\ a * b = b + b * (a - 1) /\ a - 1 \in Nat /\ b - 1 \in Nat
    OBVIOUS
  <1> QED
    BY <1>1, <1>2

\* A factor of a product within a limit is within the quotient of the limit by the other.
LEMMA QuotientAbove ==
    ASSUME NEW a \in Nat, NEW b \in Nat \ {0}, NEW m \in Nat, a * b <= m
    PROVE  a <= m \div b
  <1>1. PICK q : q = m \div b
    OBVIOUS
  <1>2. q \in Nat /\ m < q * b + b
    <2>1. q \in Nat /\ m = b * q + (m % b) /\ m % b \in 0 .. b - 1
      BY <1>1
    <2> QED
      BY <2>1
  <1>3. ~(q < a)
    <2> SUFFICES ASSUME q < a PROVE FALSE
      OBVIOUS
    <2>1. PICK d : d = a - q - 1
      OBVIOUS
    <2>2. d \in Nat /\ a = q + 1 + d
      BY <1>2, <2>1
    <2>3. a * b = q * b + b + d * b /\ d * b \in Nat /\ q * b \in Nat
      BY <1>2, <2>2
    <2> QED
      BY ONLY <1>2, <2>3, a * b <= m, b \in Nat, m \in Nat
  <1> QED
    BY <1>1, <1>2, <1>3

\* The request that a transfer becomes on a network, before it is parsed.
Asked(t, network) ==
    [type |-> t.type, network |-> network, token |-> t.token, nonce |-> t.nonce, gas_limit |-> t.gas,
     gas_price_or_max_fee |-> t.price, max_priority_fee |-> t.priority, amount |-> t.amount,
     contract |-> IF t.token = None THEN t.recipient ELSE t.token.contract,
     data |-> IF t.token = None THEN <<>> ELSE CallOf(t.recipient, t.amount)]

\* The numbers of a transfer that keeps the policy.
LEMMA PolicyNumbers ==
    ASSUME NEW t \in TransferSet, NEW network \in Networks, KeepsPolicy(t, network)
    PROVE  /\ t.chain_id = network.chain_id
           /\ t.chain_id \in Nat /\ t.nonce \in Nat /\ t.gas \in Nat \ {0} /\ t.price \in Nat \ {0}
           /\ t.priority \in Nat /\ t.amount \in Nat \ {0} /\ t.priority <= t.price
           /\ t.chain_id < Weight[U64Size] /\ t.nonce < Weight[U64Size] /\ t.gas < Weight[U64Size]
           /\ t.price < Weight[U64Size] /\ t.priority < Weight[U64Size] /\ t.amount < Weight[Uint256Size]
           /\ FeeAccepted(t.gas, t.price)
  <1>1. /\ t.chain_id \in Nat /\ t.nonce \in Nat /\ t.gas \in Nat /\ t.price \in Nat /\ t.priority \in Nat
        /\ t.amount \in 0 .. Weight[Uint256Size] - 1
    BY DEF TransferSet
  <1>2. /\ t.chain_id = network.chain_id /\ t.nonce < WordMod /\ t.amount # 0
        /\ t.gas \in MinGas .. MaxGas /\ t.price # 0 /\ t.gas * t.price <= MaxFee
        /\ t.priority <= t.price
    BY DEF KeepsPolicy
  <1>3. /\ MinGas \in Nat /\ MaxGas \in Nat /\ MaxFee \in Nat /\ U64Size \in Nat /\ Uint256Size \in Nat
        /\ MinGas > 0 /\ MaxFee < WordMod
    BY SizeAssumption
  <1>4. Weight[U64Size] \in Nat /\ Weight[Uint256Size] \in Nat
    BY <1>3, WeightRecursion
  <1>5. network.chain_id < WordMod
    BY ByteAssumption
  <1>6. t.gas \in Nat \ {0} /\ t.price \in Nat \ {0}
    BY ONLY <1>1, <1>2, <1>3
  <1>7. PICK m : m = t.gas * t.price
    OBVIOUS
  <1>8. t.gas <= m /\ t.price <= m
    BY ONLY <1>6, <1>7, FactorsBelow
  <1>9. m \in Nat /\ m <= MaxFee
    BY ONLY <1>1, <1>2, <1>7
  <1>10. t.gas < Weight[U64Size] /\ t.price < Weight[U64Size] /\ t.priority < Weight[U64Size]
    BY ONLY <1>1, <1>2, <1>3, <1>4, <1>8, <1>9 DEF WordMod
  <1>11. t.gas <= MaxFee \div t.price
    BY ONLY <1>1, <1>2, <1>3, <1>6, QuotientAbove
  <1>12. FeeAccepted(t.gas, t.price)
    BY ONLY <1>2, <1>11 DEF FeeAccepted
  <1>13. t.amount \in Nat \ {0} /\ t.amount < Weight[Uint256Size]
    BY ONLY <1>1, <1>2, <1>4
  <1> QED
    BY ONLY <1>1, <1>2, <1>5, <1>6, <1>10, <1>12, <1>13, Zenon DEF WordMod

\* Bytes of a fixed number are a string.
LEMMA BytesAre ==
    ASSUME NEW size \in Nat, NEW bytes \in [1 .. size -> Byte]
    PROVE  bytes \in Seq(Nat) /\ Len(bytes) = size
  <1>1. bytes = [i \in 1 .. size |-> bytes[i]] /\ \A i \in 1 .. size : bytes[i] \in Byte
    OBVIOUS
  <1>2. bytes \in Seq(Byte) /\ Len(bytes) = size
    BY ONLY <1>1, size \in Nat, StringOf
  <1> QED
    BY <1>2, ByteSeqs

\* The request of such a transfer can be written, fits its fields, and asks for the transfer.
LEMMA AskedIs ==
    ASSUME NEW t \in TransferSet, NEW network \in Networks, KeepsPolicy(t, network),
           NEW r, r = Asked(t, network)
    PROVE  Written(r) /\ FitsFields(r) /\ r.type \in Types /\ AsksFor(r, t)
  <1>1. /\ r.type = t.type /\ r.network = network /\ r.token = t.token /\ r.nonce = t.nonce
        /\ r.gas_limit = t.gas /\ r.gas_price_or_max_fee = t.price /\ r.max_priority_fee = t.priority
        /\ r.amount = t.amount
        /\ t.token = None => r.contract = t.recipient /\ r.data = <<>>
        /\ t.token # None => r.contract = t.token.contract /\ r.data = CallOf(t.recipient, t.amount)
    BY DEF Asked
  <1>2. /\ t.type \in Types /\ t.token \in Tokens \cup {None} /\ t.recipient \in [1 .. AddressSize -> Byte]
        /\ t.amount \in 0 .. Weight[Uint256Size] - 1
    BY DEF TransferSet
  <1>3. /\ t.chain_id = network.chain_id
        /\ t.chain_id \in Nat /\ t.nonce \in Nat /\ t.gas \in Nat \ {0} /\ t.price \in Nat \ {0}
        /\ t.priority \in Nat /\ t.amount \in Nat \ {0}
        /\ t.chain_id < Weight[U64Size] /\ t.nonce < Weight[U64Size] /\ t.gas < Weight[U64Size]
        /\ t.price < Weight[U64Size] /\ t.priority < Weight[U64Size] /\ t.amount < Weight[Uint256Size]
    BY PolicyNumbers
  <1>4. AddressSize \in Nat
    BY SizeAssumption
  <1>5. t.token = None => t.recipient \in Seq(Nat) /\ Len(t.recipient) = AddressSize
    BY ONLY <1>2, <1>4, BytesAre
  <1>6. t.token # None => t.token.contract \in Seq(Nat) /\ Len(t.token.contract) = AddressSize
    <2> SUFFICES ASSUME t.token # None PROVE t.token.contract \in Seq(Nat) /\ Len(t.token.contract) = AddressSize
      OBVIOUS
    <2>1. t.token.contract \in [1 .. AddressSize -> Byte]
      BY <1>2, ByteAssumption
    <2> QED
      BY ONLY <1>4, <2>1, BytesAre
  <1>7. r.contract \in Seq(Nat) /\ Len(r.contract) = AddressSize
    BY ONLY <1>1, <1>5, <1>6, Zenon
  <1>8. t.token # None => r.data \in Seq(Nat) /\ Len(r.data) = MaxDataSize
    <2> SUFFICES ASSUME t.token # None PROVE r.data \in Seq(Nat) /\ Len(r.data) = MaxDataSize
      OBVIOUS
    <2>1. t.amount # 0 /\ r.data = CallOf(t.recipient, t.amount)
      BY <1>1, <1>3
    <2> QED
      BY ONLY <1>2, <2>1, CallHas
  <1>9. r.data \in Seq(Nat) /\ (IF r.token = None THEN r.data = <<>> ELSE Len(r.data) = MaxDataSize)
    <2>1. CASE t.token = None
      <3>1. r.data = <<>> /\ r.token = None
        BY <1>1, <2>1
      <3>2. <<>> \in Seq(Nat)
        OBVIOUS
      <3> QED
        BY ONLY <3>1, <3>2, Zenon
    <2>2. CASE t.token # None
      <3>1. r.token # None
        BY <1>1, <2>2
      <3> QED
        BY ONLY <1>8, <2>2, <3>1, Zenon
    <2> QED
      BY <2>1, <2>2
  <1>10. Written(r)
    <2>1. /\ r.network.chain_id \in Nat /\ r.nonce \in Nat /\ r.gas_limit \in Nat
          /\ r.gas_price_or_max_fee \in Nat /\ r.max_priority_fee \in Nat /\ r.amount \in Nat
      BY <1>1, <1>3
    <2>2. {r.network.chain_id, r.nonce, r.gas_limit, r.gas_price_or_max_fee, r.max_priority_fee} \subseteq Nat
      BY <2>1
    <2> QED
      BY ONLY <1>7, <1>9, <2>1, <2>2, Zenon DEF Written
  <1>11. FitsFields(r)
    <2>1. \A n \in {r.network.chain_id, r.nonce, r.gas_limit, r.gas_price_or_max_fee, r.max_priority_fee} :
              n < Weight[U64Size]
      <3>1. /\ r.network.chain_id < Weight[U64Size] /\ r.nonce < Weight[U64Size]
            /\ r.gas_limit < Weight[U64Size] /\ r.gas_price_or_max_fee < Weight[U64Size]
            /\ r.max_priority_fee < Weight[U64Size]
        BY <1>1, <1>3
      <3> QED
        BY <3>1
    <2>2. IF r.token = None THEN r.data = <<>> /\ r.amount < Weight[Uint256Size]
                            ELSE Len(r.data) <= MaxDataSize
      <3>1. CASE r.token = None
        BY <1>1, <1>3, <1>9, <3>1
      <3>2. CASE r.token # None
        <4>1. Len(r.data) = MaxDataSize /\ Len(r.data) \in Nat
          BY <1>9, <3>2
        <4> QED
          BY <3>2, <4>1
      <3> QED
        BY <3>1, <3>2
    <2> QED
      BY ONLY <1>7, <2>1, <2>2, Zenon DEF FitsFields
  <1>12. AsksFor(r, t)
    <2>1. CASE t.token = None
      BY <1>1, <1>3, <2>1, Zenon DEF AsksFor
    <2>2. CASE t.token # None
      BY <1>1, <1>3, <2>2, Zenon DEF AsksFor, CallOf
    <2> QED
      BY <2>1, <2>2
  <1> QED
    BY ONLY <1>1, <1>2, <1>10, <1>11, <1>12, Zenon

\* Its fields are accepted, one by one and together.
LEMMA AskedAccepted ==
    ASSUME NEW t \in TransferSet, NEW network \in Networks, KeepsPolicy(t, network),
           NEW r, r = Asked(t, network), NEW f, FieldsHold(f, r)
    PROVE  FieldsAccepted(f, network) /\ TransferAccepted(f, network)
  <1>1. /\ r.type = t.type /\ r.network = network /\ r.token = t.token /\ r.nonce = t.nonce
        /\ r.gas_limit = t.gas /\ r.gas_price_or_max_fee = t.price /\ r.max_priority_fee = t.priority
        /\ r.amount = t.amount
        /\ t.token = None => r.data = <<>>
        /\ t.token # None => r.contract = t.token.contract /\ r.data = CallOf(t.recipient, t.amount)
    BY DEF Asked
  <1>2. /\ t.token \in Tokens \cup {None} /\ t.recipient \in [1 .. AddressSize -> Byte]
        /\ t.amount \in 0 .. Weight[Uint256Size] - 1
    BY DEF TransferSet
  <1>3. PICK tip : tip = IF r.type = "Eip1559" THEN r.max_priority_fee ELSE 0
    OBVIOUS
  <1>4. /\ t.chain_id = network.chain_id
        /\ t.chain_id \in Nat /\ t.nonce \in Nat /\ t.gas \in Nat \ {0} /\ t.price \in Nat \ {0}
        /\ t.priority \in Nat /\ t.amount \in Nat \ {0} /\ t.priority <= t.price
        /\ t.chain_id < Weight[U64Size] /\ t.nonce < Weight[U64Size] /\ t.gas < Weight[U64Size]
        /\ t.price < Weight[U64Size] /\ t.priority < Weight[U64Size] /\ t.amount < Weight[Uint256Size]
        /\ FeeAccepted(t.gas, t.price)
    BY PolicyNumbers
  <1>5. U64Size \in Nat /\ Uint256Size \in Nat /\ Weight[U64Size] \in Nat /\ Weight[Uint256Size] \in Nat
    <2>1. U64Size \in Nat /\ Uint256Size \in Nat
      BY SizeAssumption
    <2> QED
      BY ONLY <2>1, WeightRecursion
  <1>6. tip \in Nat /\ tip < Weight[U64Size] /\ tip <= t.price
    <2>1. CASE r.type = "Eip1559"
      BY <1>1, <1>3, <1>4, <2>1
    <2>2. CASE r.type # "Eip1559"
      <3>1. tip = 0
        BY <1>3, <2>2
      <3> QED
        BY ONLY <1>4, <1>5, <3>1
    <2> QED
      BY <2>1, <2>2
  <1>7. /\ HoldsNumber(f.chain_id, t.chain_id) /\ HoldsNumber(f.nonce, t.nonce) /\ HoldsNumber(f.priority, tip)
        /\ HoldsNumber(f.price, t.price) /\ HoldsNumber(f.gas, t.gas)
        /\ HoldsBytes(f.to, r.contract) /\ HoldsNumber(f.value, PaidOf(r)) /\ HoldsBytes(f.data, r.data)
    BY ONLY <1>1, <1>3, <1>4, FieldsHold(f, r), Zenon DEF FieldsHold
  <1>8. /\ ReadsInteger(f.chain_id, U64Size) /\ Value(f.chain_id.data) = t.chain_id
        /\ ReadsInteger(f.nonce, U64Size) /\ Value(f.nonce.data) = t.nonce
        /\ ReadsInteger(f.priority, U64Size) /\ Value(f.priority.data) = tip
        /\ ReadsInteger(f.price, U64Size) /\ Value(f.price.data) = t.price
        /\ ReadsInteger(f.gas, U64Size) /\ Value(f.gas.data) = t.gas
    <2>1. t.price \in Nat /\ t.gas \in Nat
      BY <1>4
    <2>2. ReadsInteger(f.chain_id, U64Size) /\ Value(f.chain_id.data) = t.chain_id
      BY ONLY <1>4, <1>5, <1>7, NumberAccepted, Zenon
    <2>3. ReadsInteger(f.nonce, U64Size) /\ Value(f.nonce.data) = t.nonce
      BY ONLY <1>4, <1>5, <1>7, NumberAccepted, Zenon
    <2>4. ReadsInteger(f.priority, U64Size) /\ Value(f.priority.data) = tip
      BY ONLY <1>5, <1>6, <1>7, NumberAccepted, Zenon
    <2>5. ReadsInteger(f.price, U64Size) /\ Value(f.price.data) = t.price
      BY ONLY <1>4, <1>5, <1>7, <2>1, NumberAccepted, Zenon
    <2>6. ReadsInteger(f.gas, U64Size) /\ Value(f.gas.data) = t.gas
      BY ONLY <1>4, <1>5, <1>7, <2>1, NumberAccepted, Zenon
    <2> QED
      BY ONLY <2>2, <2>3, <2>4, <2>5, <2>6, Zenon
  <1>9. PICK paid : paid = PaidOf(r)
    OBVIOUS
  <1>10. paid = (IF t.token = None THEN t.amount ELSE 0) /\ paid \in Nat /\ paid < Weight[Uint256Size]
    <2>1. paid = IF t.token = None THEN t.amount ELSE 0
      BY <1>1, <1>9 DEF PaidOf
    <2>2. 0 < Weight[Uint256Size]
      BY ONLY <1>4, <1>5
    <2> QED
      BY ONLY <1>4, <2>1, <2>2
  <1>11. ReadsInteger(f.value, Uint256Size) /\ Value(f.value.data) = paid
    <2>1. paid \in Nat /\ paid < Weight[Uint256Size] /\ HoldsNumber(f.value, paid)
      BY <1>7, <1>9, <1>10
    <2> QED
      BY ONLY <1>5, <2>1, NumberAccepted, Zenon
  <1>12. Written(r) /\ FitsFields(r)
    BY ONLY t \in TransferSet, network \in Networks, KeepsPolicy(t, network), r = Asked(t, network), AskedIs, Zenon
  <1>13. /\ f.to.list = FALSE /\ f.to.data = r.contract /\ f.data.list = FALSE /\ f.data.data = r.data
         /\ Len(r.contract) = AddressSize
    BY ONLY <1>7, <1>12, Zenon DEF HoldsBytes, FitsFields
  <1>14. Len(r.data) <= MaxDataSize
    <2>1. CASE r.token = None
      <3>1. r.data = <<>>
        BY <1>1, <2>1
      <3>2. MaxDataSize \in Nat
        BY <1>12, PartsFit
      <3> QED
        BY ONLY <3>1, <3>2
    <2>2. CASE r.token # None
      BY <1>12, <2>2 DEF FitsFields
    <2> QED
      BY <2>1, <2>2
  <1>15. FieldsAccepted(f, network)
    <2>1. \A number \in {f.chain_id, f.nonce, f.priority, f.price, f.gas} : ReadsInteger(number, U64Size)
      BY ONLY <1>8, Zenon
    <2>2. Value(f.priority.data) <= Value(f.price.data)
      BY ONLY <1>6, <1>8, Zenon
    <2>3. Value(f.chain_id.data) = network.chain_id
      BY ONLY <1>4, <1>8, Zenon
    <2>4. FeeAccepted(Value(f.gas.data), Value(f.price.data))
      BY ONLY <1>4, <1>8, Zenon
    <2>5. ~f.to.list /\ Len(f.to.data) = AddressSize /\ ~f.data.list /\ Len(f.data.data) <= MaxDataSize
      BY ONLY <1>13, <1>14, Zenon
    <2> QED
      BY ONLY <1>11, <2>1, <2>2, <2>3, <2>4, <2>5, Zenon DEF FieldsAccepted
  <1>16. TransferAccepted(f, network)
    <2>1. CASE t.token = None
      <3>1. f.data.data = <<>> /\ Value(f.value.data) # 0
        BY <1>1, <1>4, <1>10, <1>11, <1>13, <2>1
      <3> QED
        BY <3>1 DEF TransferAccepted
    <2>2. CASE t.token # None
      <3>1. f.data.data = CallOf(t.recipient, t.amount) /\ f.to.data = t.token.contract
            /\ Value(f.value.data) = 0
        BY <1>1, <1>10, <1>11, <1>13, <2>2
      <3>2. PICK data : data = f.data.data
        OBVIOUS
      <3>3. data # <<>> /\ IsTransfer(data) /\ AmountOf(data) = t.amount
        <4>1. t.amount # 0 /\ data = CallOf(t.recipient, t.amount)
          BY <1>4, <3>1, <3>2
        <4> QED
          BY ONLY <1>2, <4>1, CallHas
      <3>4. find_token(network, f.to.data) # None
        <4>1. t.token \in Tokens /\ t.token.network = network /\ t.token.signing
          BY <2>2 DEF KeepsPolicy
        <4> DEFINE found == {u \in Tokens : u.network = network /\ u.signing /\ u.contract = f.to.data}
        <4>3. t.token \in found
          BY <3>1, <4>1
        <4>4. find_token(network, f.to.data) = IF found = {} THEN None ELSE CHOOSE u \in found : TRUE
          BY Zenon DEF find_token
        <4>5. \A u \in found : u \in Tokens
          OBVIOUS
        <4> HIDE DEF found
        <4>6. find_token(network, f.to.data) \in found
          BY ONLY <4>3, <4>4
        <4>7. find_token(network, f.to.data) \in Tokens
          BY ONLY <4>5, <4>6
        <4> QED
          BY <4>7, NoneAssumption
      <3> QED
        BY <1>4, <3>1, <3>2, <3>3, <3>4, Zenon DEF TransferAccepted, AmountOf
    <2> QED
      BY <2>1, <2>2
  <1> QED
    BY <1>15, <1>16

\* An amount's text is a string.
LEMMA TextType == ASSUME NEW n \in Nat, NEW decimals \in Nat PROVE uint256_to_text(n, decimals) \in Seq(Nat)
  <1>1. PICK plain : plain = Decimal(n)
    OBVIOUS
  <1>2. PICK whole : whole = Len(plain) - decimals
    OBVIOUS
  <1>3. PICK zeros : zeros = [i \in 1 .. 0 - whole |-> 0]
    OBVIOUS
  <1>4. PICK left : left = SubSeq(plain, 1, whole)
    OBVIOUS
  <1>5. PICK right : right = SubSeq(plain, whole + 1, Len(plain))
    OBVIOUS
  <1>6. PICK text : text = CASE decimals = 0 -> plain
                             [] decimals # 0 /\ whole <= 0 -> <<0, Point>> \o zeros \o plain
                             [] decimals # 0 /\ whole > 0 -> left \o <<Point>> \o right
    OBVIOUS
  <1>7. uint256_to_text(n, decimals) = Trim(text, decimals)
    BY ONLY <1>1, <1>2, <1>3, <1>4, <1>5, <1>6, Zenon DEF uint256_to_text
  <1>8. plain \in Seq(Nat) /\ Len(plain) \in Nat /\ whole \in Int /\ whole <= Len(plain)
    <2>1. plain \in Seq(Nat) /\ Len(plain) \in Nat
      BY <1>1, DecimalIs
    <2> QED
      BY ONLY <1>2, <2>1, decimals \in Nat
  <1>9. text \in Seq(Nat)
    <2>1. CASE decimals = 0
      <3>1. text = plain
        BY <1>6, <2>1
      <3> QED
        BY <1>8, <3>1
    <2>2. CASE decimals # 0 /\ whole <= 0
      <3>1. 0 - whole \in Nat
        BY ONLY <1>8, <2>2
      <3>2. zeros \in Seq(Nat)
        BY ONLY <1>3, <3>1, ZerosAre
      <3>3. PICK start : start = <<0, Point>>
        OBVIOUS
      <3>4. start \in Seq(Nat)
        BY <3>3 DEF Point
      <3>5. text = start \o zeros \o plain
        <4>1. ~(whole > 0)
          BY ONLY <1>8, <2>2
        <4>2. text = <<0, Point>> \o zeros \o plain
          BY ONLY <1>6, <2>2, <4>1, Zenon
        <4> QED
          BY ONLY <3>3, <4>2, Zenon
      <3>6. plain \in Seq(Nat)
        BY <1>8
      <3> QED
        BY ONLY <3>2, <3>4, <3>5, <3>6
    <2>3. CASE decimals # 0 /\ ~(whole <= 0)
      <3>1. whole \in Nat /\ whole > 0 /\ whole + 1 \in Nat \ {0}
        BY ONLY <1>8, <2>3
      <3>2. plain \in Seq(Nat) /\ whole \in Nat /\ Len(plain) \in Nat /\ whole <= Len(plain)
            /\ Len(plain) <= Len(plain)
        BY <1>8, <3>1
      <3>3. FirstOf(left, plain, whole)
        BY ONLY <1>4, <3>2, FirstPart, Zenon
      <3>4. PartOf(right, plain, whole + 1, Len(plain))
        BY ONLY <1>5, <3>1, <3>2, Part, Zenon
      <3>5. left \in Seq(Nat)
        BY ONLY <3>3 DEF FirstOf
      <3>6. right \in Seq(Nat)
        BY ONLY <3>4 DEF PartOf
      <3>7. PICK point : point = <<Point>>
        OBVIOUS
      <3>8. point \in Seq(Nat)
        BY <3>7 DEF Point
      <3>9. text = left \o point \o right
        BY <1>6, <2>3, <3>1, <3>7
      <3> QED
        BY ONLY <3>5, <3>6, <3>8, <3>9
    <2> QED
      BY <2>1, <2>2, <2>3
  <1>10. ASSUME NEW s \in Seq(Nat), NEW symbol PROVE Without(s, symbol) \in Seq(Nat)
    <2>1. PICK m \in 0 .. Len(s) : Without(s, symbol) = SubSeq(s, 1, m)
      BY WithoutIs
    <2>2. m \in Nat /\ m <= Len(s)
      OBVIOUS
    <2>3. FirstOf(SubSeq(s, 1, m), s, m)
      BY ONLY s \in Seq(Nat), <2>2, FirstPart, Zenon
    <2> QED
      BY ONLY <2>1, <2>3, Zenon DEF FirstOf
  <1>11. Trim(text, decimals) \in Seq(Nat)
    <2>1. Without(text, 0) \in Seq(Nat)
      BY ONLY <1>9, <1>10, Zenon
    <2>2. Without(Without(text, 0), Point) \in Seq(Nat)
      BY ONLY <1>10, <2>1, Zenon
    <2> QED
      BY ONLY <1>9, <2>2, Zenon DEF Trim
  <1> QED
    BY ONLY <1>7, <1>11, Zenon

\* Two requests of which the same is written.
SameToWrite(p, r) ==
    /\ p.type = r.type /\ p.network = r.network /\ p.nonce = r.nonce /\ p.gas_limit = r.gas_limit
    /\ p.gas_price_or_max_fee = r.gas_price_or_max_fee
    /\ p.type = "Eip1559" => p.max_priority_fee = r.max_priority_fee
    /\ p.contract = r.contract /\ p.data = r.data /\ PaidOf(p) = PaidOf(r)

\* They are serialized to the same bytes.
LEMMA SameWritten ==
    ASSUME NEW p, NEW r, SameToWrite(p, r), r.type \in Types
    PROVE  serialize_transaction(p, None) = serialize_transaction(r, None)
  <1>1. PICK numbers : numbers = NumbersOf(r)
    OBVIOUS
  <1>2. numbers = NumbersOf(p)
    <2>1. CASE r.type = "Eip1559"
      <3>1. /\ p.type = "Eip1559" /\ p.network.chain_id = r.network.chain_id /\ p.nonce = r.nonce
            /\ p.max_priority_fee = r.max_priority_fee /\ p.gas_limit = r.gas_limit
            /\ p.gas_price_or_max_fee = r.gas_price_or_max_fee
        BY <2>1 DEF SameToWrite
      <3> QED
        BY ONLY <1>1, <2>1, <3>1, Zenon DEF NumbersOf
    <2>2. CASE r.type # "Eip1559"
      <3>1. /\ p.type # "Eip1559" /\ p.nonce = r.nonce /\ p.gas_limit = r.gas_limit
            /\ p.gas_price_or_max_fee = r.gas_price_or_max_fee
        BY <2>2 DEF SameToWrite
      <3> QED
        BY ONLY <1>1, <2>2, <3>1, Zenon DEF NumbersOf
    <2> QED
      BY <2>1, <2>2
  <1>3. PICK texts : texts = [i \in DOMAIN numbers |-> write_rlp_integer(numbers[i])]
    OBVIOUS
  <1>4. SignedFields(p) = FlattenSeq(texts) \o write_rlp_bytes(p.contract) \o write_rlp_integer(PaidOf(p))
                          \o write_rlp_bytes(p.data)
                          \o (IF p.type = "Eip1559" THEN write_rlp_list(<<>>) ELSE <<>>)
    BY ONLY <1>2, <1>3, SignedTexts, Zenon
  <1>5. SignedFields(r) = FlattenSeq(texts) \o write_rlp_bytes(r.contract) \o write_rlp_integer(PaidOf(r))
                          \o write_rlp_bytes(r.data)
                          \o (IF r.type = "Eip1559" THEN write_rlp_list(<<>>) ELSE <<>>)
    BY ONLY <1>1, <1>3, SignedTexts, Zenon
  <1>6. SignedFields(p) = SignedFields(r)
    <2>1. p.contract = r.contract /\ PaidOf(p) = PaidOf(r) /\ p.data = r.data /\ p.type = r.type
      BY ONLY SameToWrite(p, r), Zenon DEF SameToWrite
    <2>2. PICK closing : closing = IF r.type = "Eip1559" THEN write_rlp_list(<<>>) ELSE <<>>
      OBVIOUS
    <2>3. (IF p.type = "Eip1559" THEN write_rlp_list(<<>>) ELSE <<>>) = closing
      BY ONLY <2>1, <2>2
    <2>4. SignedFields(p) = FlattenSeq(texts) \o write_rlp_bytes(r.contract) \o write_rlp_integer(PaidOf(r))
                            \o write_rlp_bytes(r.data) \o closing
      BY ONLY <1>4, <2>1, <2>3
    <2>5. SignedFields(r) = FlattenSeq(texts) \o write_rlp_bytes(r.contract) \o write_rlp_integer(PaidOf(r))
                            \o write_rlp_bytes(r.data) \o closing
      BY ONLY <1>5, <2>2, Zenon
    <2> QED
      BY ONLY <2>4, <2>5, Zenon
  <1>7. SignatureFields(p, None) = SignatureFields(r, None)
    <2>1. CASE r.type = "LegacyEip155"
      <3>1. p.type = "LegacyEip155" /\ p.network.chain_id = r.network.chain_id
        BY <2>1 DEF SameToWrite
      <3>2. SignatureFields(r, None) = write_rlp_integer(r.network.chain_id)
                \o write_rlp_integer(0) \o write_rlp_integer(0)
        BY <2>1, Zenon DEF SignatureFields
      <3>3. SignatureFields(p, None) = write_rlp_integer(p.network.chain_id)
                \o write_rlp_integer(0) \o write_rlp_integer(0)
        BY <3>1, Zenon DEF SignatureFields
      <3> QED
        BY ONLY <3>1, <3>2, <3>3, Zenon
    <2>2. CASE r.type # "LegacyEip155"
      <3>1. p.type # "LegacyEip155"
        BY <2>2 DEF SameToWrite
      <3>2. SignatureFields(r, None) = <<>>
        BY <2>2, Zenon DEF SignatureFields
      <3>3. SignatureFields(p, None) = <<>>
        BY <3>1, Zenon DEF SignatureFields
      <3> QED
        BY ONLY <3>2, <3>3, Zenon
    <2> QED
      BY <2>1, <2>2
  <1>8. p.type = r.type
    BY DEF SameToWrite
  <1> QED
    BY ONLY <1>6, <1>7, <1>8, Zenon DEF serialize_transaction

\* The recipient of a call is a string.
LEMMA RecipientType ==
    ASSUME NEW data \in Seq(Nat), Len(data) = MaxDataSize
    PROVE  RecipientOf(data) \in Seq(Nat)
  <1>1. PICK word : word = Len(Selector) + Uint256Size
    OBVIOUS
  <1>2. PICK k : k = word - AddressSize + 1
    OBVIOUS
  <1>3. Len(Selector) \in Nat /\ Uint256Size \in Nat /\ AddressSize \in Nat /\ AddressSize <= Uint256Size
    BY SizeAssumption, ByteAssumption
  <1>4. k \in Nat \ {0} /\ word \in Nat /\ word <= Len(data)
    <2>1. Len(data) = Len(Selector) + 2 * Uint256Size
      BY DEF MaxDataSize
    <2> QED
      BY ONLY <1>1, <1>2, <1>3, <2>1
  <1>5. PartOf(SubSeq(data, k, word), data, k, word)
    BY ONLY <1>4, data \in Seq(Nat), Part, Zenon
  <1>6. SubSeq(data, k, word) \in Seq(Nat)
    BY ONLY <1>5 DEF PartOf
  <1> QED
    BY <1>1, <1>2, <1>6 DEF RecipientOf

\* What the parser makes of the fields of a transfer: a request of which the same is written.
LEMMA AskedParsed ==
    ASSUME NEW t \in TransferSet, NEW network \in Networks, KeepsPolicy(t, network),
           NEW r, r = Asked(t, network), NEW f, FieldsHold(f, r),
           NEW tx \in Transactions, TypeOf(tx) = r.type, NEW w \in Wallets, NEW index \in Indexes,
           NEW p, p = ParsedRequest(tx, f, network, w, index)
    PROVE  SameToWrite(p, r) /\ p \in Requests
  <1>1. /\ r.type = t.type /\ r.network = network /\ r.token = t.token /\ r.nonce = t.nonce
        /\ r.gas_limit = t.gas /\ r.gas_price_or_max_fee = t.price /\ r.max_priority_fee = t.priority
        /\ r.amount = t.amount
        /\ t.token = None => r.data = <<>>
        /\ t.token # None => r.data = CallOf(t.recipient, t.amount)
    BY DEF Asked
  <1>2. /\ t.recipient \in [1 .. AddressSize -> Byte] /\ t.amount \in 0 .. Weight[Uint256Size] - 1
        /\ t.type \in Types
    BY DEF TransferSet
  <1>3. /\ t.nonce \in Nat /\ t.gas \in Nat /\ t.price \in Nat /\ t.priority \in Nat /\ t.amount \in Nat \ {0}
    BY PolicyNumbers
  <1>4. Written(r)
    BY AskedIs
  <1>5. r.contract \in Seq(Nat) /\ r.data \in Seq(Nat) /\ PaidOf(r) \in Nat
    BY <1>4, SingleFields DEF Written
  <1>6. TransferAccepted(f, network)
    BY AskedAccepted
  <1>7. PICK tip : tip = IF r.type = "Eip1559" THEN r.max_priority_fee ELSE 0
    OBVIOUS
  <1>8. tip \in Nat /\ (r.type = "Eip1559" => tip = r.max_priority_fee)
    BY <1>1, <1>3, <1>7
  <1>9. \A item, n : n \in Nat /\ HoldsNumber(item, n) => Value(item.data) = n
    BY ValueOfBytes DEF HoldsNumber
  <1>10. /\ HoldsNumber(f.nonce, t.nonce) /\ HoldsNumber(f.priority, tip)
         /\ HoldsNumber(f.price, t.price) /\ HoldsNumber(f.gas, t.gas)
         /\ HoldsNumber(f.value, PaidOf(r)) /\ f.to.data = r.contract /\ f.data.data = r.data
    BY ONLY <1>1, <1>7, FieldsHold(f, r), Zenon DEF FieldsHold, HoldsBytes
  <1>11. /\ Value(f.nonce.data) = t.nonce /\ Value(f.priority.data) = tip
         /\ Value(f.price.data) = t.price /\ Value(f.gas.data) = t.gas /\ Value(f.value.data) = PaidOf(r)
    BY ONLY <1>3, <1>5, <1>8, <1>9, <1>10, Zenon
  <1>12. PICK token : token = IF r.data = <<>> THEN None ELSE find_token(network, r.contract)
    OBVIOUS
  <1>13. PICK amount : amount = IF r.data = <<>> THEN PaidOf(r) ELSE AmountOf(r.data)
    OBVIOUS
  <1>14. PICK recipient : recipient = IF r.data = <<>> THEN r.contract ELSE RecipientOf(r.data)
    OBVIOUS
  <1>15. PICK decimals : decimals = IF token = None THEN NativeDecimals ELSE token.decimals
    OBVIOUS
  <1>16. PICK text : text = uint256_to_text(amount, decimals)
    OBVIOUS
  <1>17. PICK fee : fee = (t.gas * t.price) % WordMod
    OBVIOUS
  <1>18. PICK account : account = derive_address(w, network, index)
    OBVIOUS
  <1>19. p = [type |-> r.type, network |-> network, token |-> token, address_index |-> index,
              nonce |-> t.nonce, gas_limit |-> t.gas, gas_price_or_max_fee |-> t.price,
              max_priority_fee |-> tip, maximum_fee |-> fee, contract |-> r.contract,
              recipient |-> recipient, amount |-> amount, data |-> r.data, amount_text |-> text,
              unsigned_transaction |-> tx, from_address |-> account]
    BY ONLY <1>10, <1>11, <1>12, <1>13, <1>14, <1>15, <1>16, <1>17, <1>18, TypeOf(tx) = r.type,
            p = ParsedRequest(tx, f, network, w, index), ZenonT(60) DEF ParsedRequest, AmountOf, RecipientOf
  <1>20. t.token # None => r.data # <<>> /\ Len(r.data) = MaxDataSize /\ AmountOf(r.data) = t.amount
    <2> SUFFICES ASSUME t.token # None
                 PROVE  r.data # <<>> /\ Len(r.data) = MaxDataSize /\ AmountOf(r.data) = t.amount
      OBVIOUS
    <2>1. t.amount # 0 /\ r.data = CallOf(t.recipient, t.amount)
      BY <1>1, <1>3
    <2> QED
      BY ONLY <1>2, <2>1, CallHas
  <1>21. token \in Tokens \cup {None} /\ decimals \in Nat /\ (token = None <=> t.token = None)
    <2>1. CASE t.token = None
      <3>1. token = None
        BY <1>1, <1>12, <2>1
      <3>2. decimals \in Nat
        BY <1>15, <3>1, SizeAssumption
      <3> QED
        BY <2>1, <3>1, <3>2
    <2>2. CASE t.token # None
      <3>1. token = find_token(network, r.contract) /\ r.data # <<>>
        BY <1>12, <1>20, <2>2
      <3>2. find_token(network, r.contract) # None
        BY ONLY <1>6, <1>10, <3>1, Zenon DEF TransferAccepted
      <3>3. token \in Tokens /\ token.decimals \in Nat
        BY ONLY <3>1, <3>2, FoundToken, Zenon
      <3> QED
        BY <1>15, <2>2, <3>1, <3>2, <3>3
    <2> QED
      BY <2>1, <2>2
  <1>22. amount = t.amount /\ amount \in Nat
    <2>1. CASE t.token = None
      <3>1. amount = PaidOf(r) /\ PaidOf(r) = t.amount
        BY <1>1, <1>13, <2>1 DEF PaidOf
      <3> QED
        BY <1>3, <3>1
    <2>2. CASE t.token # None
      BY <1>3, <1>13, <1>20, <2>2
    <2> QED
      BY <2>1, <2>2
  <1>23. recipient \in Seq(Nat)
    <2>1. CASE r.data = <<>>
      BY <1>5, <1>14, <2>1
    <2>2. CASE r.data # <<>>
      <3>1. recipient = RecipientOf(r.data)
        BY <1>14, <2>2
      <3>2. Len(r.data) = MaxDataSize /\ r.data \in Seq(Nat)
        BY <1>1, <1>5, <1>20, <2>2
      <3> QED
        BY ONLY <3>1, <3>2, RecipientType
    <2> QED
      BY <2>1, <2>2
  <1>24. text \in Seq(Nat)
    BY ONLY <1>16, <1>21, <1>22, TextType
  <1>25. fee \in Nat
    <2>1. WordMod \in Nat \ {0}
      <3>1. U64Size \in Nat
        BY SizeAssumption
      <3> QED
        BY <3>1, WeightSteps DEF WordMod
    <2>2. t.gas * t.price \in Nat
      BY <1>3
    <2> DEFINE m == t.gas * t.price
    <2> HIDE DEF m
    <2> QED
      BY <1>17, <2>1, <2>2 DEF m
  <1>26. account \in Accounts
    BY <1>18 DEF derive_address, Accounts
  <1>27. p \in Requests
    <2>1. /\ r.type \in Types /\ t.nonce \in Nat /\ t.gas \in Nat /\ t.price \in Nat /\ tip \in Nat
          /\ r.contract \in Seq(Nat) /\ r.data \in Seq(Nat)
      BY <1>1, <1>2, <1>3, <1>5, <1>8
    <2> QED
      BY ONLY <1>19, <1>21, <1>22, <1>23, <1>24, <1>25, <1>26, <2>1, tx \in Transactions, network \in Networks,
              index \in Indexes DEF Requests
  <1>28. SameToWrite(p, r)
    <2>1. /\ p.type = r.type /\ p.network = network /\ p.token = token /\ p.nonce = t.nonce
          /\ p.gas_limit = t.gas /\ p.gas_price_or_max_fee = t.price /\ p.max_priority_fee = tip
          /\ p.contract = r.contract /\ p.amount = amount /\ p.data = r.data
      BY ONLY <1>19
    <2>2. PaidOf(p) = PaidOf(r)
      <3>1. PaidOf(p) = (IF token = None THEN amount ELSE 0) /\ PaidOf(r) = (IF t.token = None THEN t.amount ELSE 0)
        BY <1>1, <2>1 DEF PaidOf
      <3> QED
        BY <1>21, <1>22, <3>1
    <2> QED
      BY ONLY <1>1, <1>8, <2>1, <2>2, Zenon DEF SameToWrite
  <1> QED
    BY <1>27, <1>28

\* A transfer that keeps the policy is parsed in its encoding.
LEMMA DueIsParsed ==
    ASSUME NEW t \in TransferSet, NEW network \in Networks, KeepsPolicy(t, network),
           NEW tx \in Transactions, tx = Encoding(t), NEW w \in Wallets, NEW index \in Indexes
    PROVE  evm_parse_transaction(tx, network, w, index) # None
  <1>1. PICK r : r = Asked(t, network)
    OBVIOUS
  <1>2. Written(r) /\ FitsFields(r) /\ r.type \in Types /\ AsksFor(r, t)
    BY <1>1, AskedIs
  <1>3. tx = serialize_transaction(r, None)
    <2>1. CASE r.type = "Eip1559"
      BY <1>2, <2>1, TypedEncoding
    <2>2. CASE r.type = "LegacyEip155"
      BY <1>2, <2>2, LegacyEncoding
    <2> QED
      BY <1>2, <2>1, <2>2 DEF Types
  <1>4. tx # <<>> /\ TypeOf(tx) = r.type
    BY ONLY <1>2, <1>3, TypeRead, Zenon
  <1>5. Len(tx) <= MaxUnsigned /\ Len(tx) < Weight[SizeBytes]
    BY ONLY <1>2, <1>3, UnsignedFits, Zenon
  <1>6. Found(r)
    <2>1. Len(serialize_transaction(r, None)) < Weight[SizeBytes]
      BY <1>3, <1>5
    <2> QED
      BY ONLY <1>2, <2>1, FieldsRead, Zenon
  <1>7. PICK outer : outer = read_rlp_item(IF TypeOf(tx) = "Eip1559" THEN Tail(tx) ELSE tx)
    OBVIOUS
  <1>8. PICK read : read = ReadItems(outer.data, 9)
    OBVIOUS
  <1>9. PICK f : f = FieldsOf(TypeOf(tx), read.items)
    OBVIOUS
  <1>10. /\ outer.ok /\ outer.list /\ outer.rest = <<>> /\ read.ok /\ read.rest = <<>>
         /\ ClosesWell(TypeOf(tx), read.items) /\ FieldsHold(f, r)
    BY ONLY <1>3, <1>4, <1>6, <1>7, <1>8, <1>9, Zenon DEF Found
  <1>11. PICK parsed : parsed = ParsedRequest(tx, f, network, w, index)
    OBVIOUS
  <1>12. FieldsAccepted(f, network) /\ TransferAccepted(f, network)
    BY ONLY t \in TransferSet, network \in Networks, KeepsPolicy(t, network), <1>1, <1>10, AskedAccepted, Zenon
  <1>13. SameToWrite(parsed, r) /\ parsed \in Requests
    BY ONLY t \in TransferSet, network \in Networks, KeepsPolicy(t, network), <1>1, <1>4, <1>10, <1>11,
            tx \in Transactions, w \in Wallets, index \in Indexes, AskedParsed, Zenon
  <1>14. serialize_transaction(parsed, None) = tx
    BY ONLY <1>2, <1>3, <1>13, SameWritten, Zenon
  <1>15. evm_parse_transaction(tx, network, w, index) = parsed
    BY ONLY <1>4, <1>5, <1>7, <1>8, <1>9, <1>10, <1>11, <1>12, <1>14, Zenon DEF evm_parse_transaction
  <1> QED
    BY <1>13, <1>15, NoneAssumption

-----------------------------------------------------------------------------
(* Reviewing and signing *)

\* What the parser returns names its bytes and the account they were parsed for.
LEMMA ParsedNames ==
    ASSUME NEW tx, NEW network, NEW w, NEW index,
           evm_parse_transaction(tx, network, w, index) # None
    PROVE  LET parsed == evm_parse_transaction(tx, network, w, index)
           IN  /\ parsed.unsigned_transaction = tx
               /\ parsed.network = network
               /\ parsed.address_index = index
               /\ parsed.from_address = derive_address(w, network, index)
  <1> DEFINE outer == read_rlp_item(IF TypeOf(tx) = "Eip1559" THEN Tail(tx) ELSE tx)
  <1> DEFINE f == FieldsOf(TypeOf(tx), ReadItems(outer.data, 9).items)
  <1> HIDE DEF outer, f
  <1>1. evm_parse_transaction(tx, network, w, index) = ParsedRequest(tx, f, network, w, index)
    BY DEF evm_parse_transaction, f, outer
  <1> QED  BY <1>1 DEF ParsedRequest

\* A signature is made by the account the request was reviewed for.
LEMMA SignerIsReviewer ==
    ASSUME NEW r, NEW w, NEW signature, evm_sign_transaction(r, w, signature) # None
    PROVE  LET made == evm_sign_transaction(r, w, signature)
           IN  made.key = r.from_address /\ made.digest = r.unsigned_transaction
  <1> DEFINE validated ==
        evm_parse_transaction(r.unsigned_transaction, r.network, w, r.address_index)
  <1>1. /\ validated # None /\ SameRequest(validated, r)
        /\ evm_sign_transaction(r, w, signature) =
               [bytes |-> serialize_transaction(validated, signature),
                digest |-> validated.unsigned_transaction, signature |-> signature,
                key |-> derive_address(w, validated.network, validated.address_index)]
    BY DEF evm_sign_transaction
  <1>2. /\ validated.network = r.network /\ validated.address_index = r.address_index
        /\ validated.from_address = derive_address(w, r.network, r.address_index)
    BY <1>1, ParsedNames
  <1> HIDE DEF validated
  <1>3. /\ evm_sign_transaction(r, w, signature).key = validated.from_address
        /\ evm_sign_transaction(r, w, signature).digest = validated.unsigned_transaction
    BY <1>1, <1>2
  <1> QED  BY <1>1, <1>3 DEF SameRequest

\* A request that is held is what the parser makes of what was received.
ParsedInv ==
    request # None =>
        /\ received \in Inputs
        /\ request = evm_parse_transaction(received.transaction, received.network,
                                           received.wallet, received.index)

\* Before a transaction is received, there is nothing to review and nothing signed.
FreshInv == received = None => request = None /\ signed = None

\* What was signed is the request that is still held, with one of the signatures.
MadeInv ==
    signed # None =>
        /\ request # None /\ signed.signature \in Signatures
        /\ signed.bytes = serialize_transaction(request, signed.signature)

\* What was received was answered by the parser, with a request or without.
AnsweredInv ==
    received # None =>
        /\ received \in Inputs
        /\ request = evm_parse_transaction(received.transaction, received.network,
                                           received.wallet, received.index)

SignInv == ParsedInv /\ FreshInv /\ SignedByReviewer /\ MadeInv /\ AnsweredInv

\* A request that is held names the transaction, network and index it was parsed from.
LEMMA HeldNames ==
    ASSUME ParsedInv, request # None
    PROVE  /\ request.unsigned_transaction = received.transaction
           /\ request.network = received.network
           /\ request.address_index = received.index
  BY ParsedNames DEF ParsedInv

\* Only the wallet of the review signs, and what it signs is the request it reviewed.
LEMMA SignsTheRequest ==
    ASSUME ParsedInv, request # None, NEW w, NEW signature,
           evm_sign_transaction(request, w, signature) # None
    PROVE  LET made == evm_sign_transaction(request, w, signature)
           IN  made.signature = signature /\ made.bytes = serialize_transaction(request, signature)
  <1> DEFINE validated ==
        evm_parse_transaction(request.unsigned_transaction, request.network, w, request.address_index)
  <1>1. /\ validated # None /\ SameRequest(validated, request)
        /\ evm_sign_transaction(request, w, signature) =
               [bytes |-> serialize_transaction(validated, signature),
                digest |-> validated.unsigned_transaction, signature |-> signature,
                key |-> derive_address(w, validated.network, validated.address_index)]
    BY DEF evm_sign_transaction
  <1>2. validated.from_address = derive_address(w, request.network, request.address_index)
    BY <1>1, ParsedNames
  <1>3. /\ request = evm_parse_transaction(received.transaction, received.network,
                                           received.wallet, received.index)
        /\ request.unsigned_transaction = received.transaction
        /\ request.network = received.network /\ request.address_index = received.index
        /\ request.from_address = derive_address(received.wallet, request.network, request.address_index)
    BY HeldNames, ParsedNames DEF ParsedInv
  <1>4. w = received.wallet
    <2>1. validated.from_address = request.from_address
      BY <1>1 DEF SameRequest
    <2> HIDE DEF validated
    <2>2. derive_address(w, request.network, request.address_index) =
              derive_address(received.wallet, request.network, request.address_index)
      BY <1>2, <1>3, <2>1
    <2>3. /\ derive_address(w, request.network, request.address_index).wallet = w
          /\ derive_address(received.wallet, request.network, request.address_index).wallet = received.wallet
      BY DEF derive_address
    <2> QED
      BY <2>2, <2>3, Zenon
  <1>5. validated = request
    BY <1>3, <1>4, Zenon
  <1> HIDE DEF validated
  <1> QED
    BY <1>1, <1>5

\* SignInv is an inductive invariant.
THEOREM SignerInvariance == Spec => []SignInv
  <1>1. Init => SignInv
    BY DEF Init, SignInv, ParsedInv, FreshInv, SignedByReviewer, MadeInv, AnsweredInv
  <1>2. SignInv /\ [Next]_vars => SignInv'
    <2> SUFFICES ASSUME SignInv, [Next]_vars PROVE SignInv'  OBVIOUS
    <2>1. CASE clear_evm_request
      BY <2>1 DEF clear_evm_request, SignInv, ParsedInv, FreshInv, SignedByReviewer, MadeInv, AnsweredInv
    <2>2. ASSUME NEW tx \in Transactions, NEW network \in Networks, NEW w \in Wallets,
                 NEW index \in Indexes, Inspect(tx, network, w, index)
          PROVE  SignInv'
      <3>1. received' \in Inputs /\ received' # None
        <4>1. received' \in Inputs  BY <2>2 DEF Inspect, Inputs
        <4> QED  BY <4>1, NoneAssumption
      <3>2. ParsedInv'
        BY <2>2, <3>1 DEF Inspect, ParsedInv
      <3>3. signed' = None
        BY <2>2 DEF Inspect, SignInv, FreshInv
      <3>4. AnsweredInv'
        BY <2>2, <3>1 DEF Inspect, AnsweredInv
      <3> QED  BY <3>1, <3>2, <3>3, <3>4 DEF SignInv, FreshInv, SignedByReviewer, MadeInv
    <2>3. ASSUME NEW w \in Wallets, NEW signature \in Signatures, Sign(w, signature)
          PROVE  SignInv'
      <3>1. ParsedInv'  BY <2>3 DEF Sign, SignInv, ParsedInv
      <3>2. SignedByReviewer'
        <4>1. request # None /\ request.unsigned_transaction = received.transaction
          BY <2>3, HeldNames DEF Sign, SignInv
        <4>2. signed' # None =>
                 signed'.key = request.from_address /\ signed'.digest = request.unsigned_transaction
          BY <2>3, SignerIsReviewer DEF Sign
        <4> QED  BY <2>3, <4>1, <4>2 DEF Sign, SignedByReviewer
      <3>3. FreshInv'  BY <2>3 DEF Sign, SignInv, FreshInv
      <3>4. MadeInv'
        <4>1. /\ request # None /\ ParsedInv /\ request' = request
              /\ signed' = evm_sign_transaction(request, w, signature)
          BY <2>3 DEF Sign, SignInv
        <4>2. signed' # None =>
                 /\ signed'.signature = signature
                 /\ signed'.bytes = serialize_transaction(request, signature)
          BY <4>1, SignsTheRequest
        <4> QED  BY <4>1, <4>2 DEF MadeInv
      <3>5. AnsweredInv'
        BY <2>3 DEF Sign, SignInv, AnsweredInv
      <3> QED  BY <3>1, <3>2, <3>3, <3>4, <3>5 DEF SignInv
    <2>4. CASE UNCHANGED vars
      BY <2>4 DEF vars, SignInv, ParsedInv, FreshInv, SignedByReviewer, MadeInv, AnsweredInv
    <2> QED  BY <2>1, <2>2, <2>3, <2>4 DEF Next
  <1> QED  BY <1>1, <1>2, PTL DEF Spec

\* evm_sign_transaction signs with the key of the account that was reviewed, and
\* exactly the bytes that were received, however the wallet changes in between.
THEOREM ReviewerSigns == Spec => []SignedByReviewer
  <1>1. SignInv => SignedByReviewer  BY DEF SignInv
  <1> QED  BY <1>1, SignerInvariance, PTL

\* The fee on the display is the product of gas and price, not what is left of it in
\* 64 bits, and the tip is part of it: calculate_max_fee divides before it multiplies.
THEOREM FeeIsWhatItSays == Spec => []FeeIsBounded
  <1>1. SignInv => FeeIsBounded
    <2> SUFFICES ASSUME SignInv, request # None
                 PROVE  FeeTold(request)
      BY DEF FeeIsBounded, FeeTold
    <2>1. /\ request = evm_parse_transaction(received.transaction, received.network,
                                             received.wallet, received.index)
          /\ received.transaction \in Seq(Byte)
      BY ByteAssumption DEF SignInv, ParsedInv, Inputs
    <2> QED  BY <2>1, ParsedFee
  <1> QED  BY <1>1, SignerInvariance, PTL

\* What was shown for confirmation can be signed by the account it was shown for: the
\* second parse sees the same request, and the buffer has room for every signature.
THEOREM ReviewedCanBeSigned == Spec => []ReviewerCanSign
  <1>1. SignInv => ReviewerCanSign
    <2> SUFFICES ASSUME SignInv, request # None, NEW signature \in Signatures
                 PROVE  evm_sign_transaction(request, received.wallet, signature) # None
      BY DEF ReviewerCanSign
    <2>1. /\ received \in Inputs
          /\ request = evm_parse_transaction(received.transaction, received.network,
                                             received.wallet, received.index)
      BY DEF SignInv, ParsedInv
    <2>2. received.transaction \in Transactions /\ received.network \in Networks
      BY <2>1 DEF Inputs
    <2>3. evm_parse_transaction(request.unsigned_transaction, request.network,
                                received.wallet, request.address_index) = request
      BY <2>1, HeldNames DEF SignInv
    <2>4. /\ Fits(serialize_transaction(request, signature))
          /\ serialize_transaction(request, signature) \in Seq(Nat)
      BY <2>1, <2>2, SignedFits
    <2>5. evm_sign_transaction(request, received.wallet, signature) =
              [bytes |-> serialize_transaction(request, signature),
               digest |-> request.unsigned_transaction, signature |-> signature,
               key |-> derive_address(received.wallet, request.network, request.address_index)]
      BY <2>3, <2>4 DEF evm_sign_transaction, SameRequest
    <2>6. evm_sign_transaction(request, received.wallet, signature) \in Results
      <3>1. /\ request.unsigned_transaction \in Transactions /\ request.network \in Networks
            /\ request.address_index \in Indexes /\ received.wallet \in Wallets
        BY <2>1, HeldNames DEF SignInv, Inputs
      <3> QED  BY <2>4, <2>5, <3>1 DEF Results, Accounts, derive_address
    <2> QED  BY <2>6, NoneAssumption
  <1> QED  BY <1>1, SignerInvariance, PTL

\* What a chain reads out of the signed bytes is what was reviewed, byte for byte in
\* every field, with its own chain id in the recovery byte and both halves of the
\* signature: the reader undoes the writer, whatever the lengths of the fields.
THEOREM ReviewedIsSigned == Spec => []SignedIsReviewed
  <1>1. SignInv => SignedIsReviewed
    <2> SUFFICES ASSUME SignInv, signed # None PROVE SignedFieldsRead
      BY DEF SignedIsReviewed
    <2> DEFINE r == request
               made == signed.signature
               v == RecoveryByte(r, made)
               typed == r.type = "Eip1559"
               old == r.unsigned_transaction
               Body(bytes) == read_rlp_item(IF typed THEN Tail(bytes) ELSE bytes).data
               after == ReadItems(Body(signed.bytes), Kept(r) + 3)
    <2>1. /\ r # None /\ received \in Inputs /\ made \in Signatures
          /\ signed.bytes = serialize_transaction(r, made)
          /\ r = evm_parse_transaction(received.transaction, received.network,
                                       received.wallet, received.index)
      BY DEF SignInv, ParsedInv, MadeInv
    <2>2. /\ received.transaction \in Transactions /\ received.network \in Networks
          /\ received.transaction \in Seq(Byte)
      BY <2>1, ByteAssumption DEF Inputs
    <2>3. Written(r)
      BY <2>1, <2>2, ParsedWritten
    <2>4. PICK f \in FieldType :
             /\ r = ParsedRequest(received.transaction, f, received.network, received.wallet,
                                   received.index)
             /\ Len(received.transaction) <= MaxUnsigned
             /\ serialize_transaction(ParsedRequest(received.transaction, f, received.network,
                    received.wallet, received.index), None) = received.transaction
      BY <2>1, <2>2, ParsedFrom
    <2>5. /\ r.type \in {"Eip1559", "LegacyEip155"} /\ old = received.transaction
          /\ r.network = received.network /\ serialize_transaction(r, None) = old
      BY <2>4 DEF ParsedRequest, TypeOf
    <2>6. Fits(signed.bytes) /\ signed.bytes \in Seq(Nat)
      BY <2>1, <2>2, SignedFits
    <2> HIDE DEF r, made, v, old
    <2>7. Len(signed.bytes) < Weight[SizeBytes] /\ Len(old) < Weight[SizeBytes]
      <3>1. /\ MaxUnsigned \in Nat /\ MaxSigned \in Nat /\ SizeBytes \in Nat /\ U64Size \in Nat
            /\ Uint256Size \in Nat /\ Weight[SizeBytes] \in Nat
        BY SizeAssumption, BaseType, WeightRecursion
      <3>2. MaxUnsigned <= MaxSigned /\ MaxSigned < Weight[SizeBytes]
        BY <3>1, RoomAssumption
      <3>3. Len(signed.bytes) \in Nat /\ Len(old) \in Nat
        BY <2>2, <2>5, <2>6
      <3> QED
        BY <2>4, <2>5, <2>6, <3>1, <3>2, <3>3 DEF Fits
    <2>8. made # None /\ made.y_parity \in 0 .. 1 /\ made.r \in Nat /\ made.s \in Nat
      <3>1. Uint256Size \in Nat /\ Weight[Uint256Size] \in Nat
        BY SizeAssumption, WeightRecursion
      <3> QED
        BY <2>1, <3>1, NoneAssumption, ByteAssumption
    <2>9. r.network.chain_id \in Nat
      BY <2>3 DEF Written
    <2>10. v = IF typed THEN made.y_parity ELSE 2 * r.network.chain_id + 35 + made.y_parity
      BY DEF RecoveryByte, v
    <2>11. v \in Nat
      BY <2>8, <2>9, <2>10
    <2>12. /\ after.ok /\ after.rest = <<>>
           /\ \A i \in 1 .. Kept(r) : after.items[i].data = ReadItems(Body(old), 9).items[i].data
           /\ Value(after.items[Kept(r) + 1].data) = v
           /\ Value(after.items[Kept(r) + 2].data) = made.r
           /\ Value(after.items[Kept(r) + 3].data) = made.s
      <3>1. Len(serialize_transaction(r, None)) < Weight[SizeBytes]
            /\ Len(serialize_transaction(r, made)) < Weight[SizeBytes]
        BY <2>1, <2>5, <2>7, Zenon
      <3> DEFINE before == ReadItems(Body(serialize_transaction(r, None)), 9).items
                 read == ReadItems(Body(serialize_transaction(r, made)), Kept(r) + 3)
      <3>2. RecoveryByte(r, made) \in Nat
        BY <2>11 DEF v
      <3>3. /\ read.ok /\ read.rest = <<>>
            /\ \A i \in 1 .. Kept(r) : read.items[i].data = before[i].data
            /\ Value(read.items[Kept(r) + 1].data) = RecoveryByte(r, made)
            /\ Value(read.items[Kept(r) + 2].data) = made.r
            /\ Value(read.items[Kept(r) + 3].data) = made.s
        BY <2>3, <2>5, <2>8, <3>1, <3>2, FieldsReadBack, Zenon
      <3>4. read = after /\ before = ReadItems(Body(old), 9).items
        BY <2>1, <2>5, Zenon
      <3> HIDE DEF read, before, after
      <3> QED
        BY <3>3, <3>4, Zenon DEF v
    <2>13. IF typed THEN v = made.y_parity
                    ELSE v >= 35 /\ (v - 35) \div 2 = r.network.chain_id /\ (v - 35) % 2 = made.y_parity
      <3>1. CASE typed
        BY <2>10, <3>1, Zenon
      <3>2. CASE ~typed
        <4> DEFINE c == r.network.chain_id
                   y == made.y_parity
        <4>1. v = 2 * c + 35 + y
          BY <2>10, <3>2, Zenon
        <4> HIDE DEF c, y
        <4>2. c \in Nat /\ y \in 0 .. 1
          BY <2>8, <2>9 DEF c, y
        <4>3. v >= 35 /\ v - 35 = 2 * c + y
          BY <4>1, <4>2
        <4>4. (v - 35) \div 2 = c /\ (v - 35) % 2 = y
          BY <4>2, <4>3
        <4> QED
          BY <3>2, <4>3, <4>4, Zenon DEF c, y
      <3> QED
        BY <3>1, <3>2
    <2> HIDE DEF after
    <2> QED
      BY <2>12, <2>13, Zenon DEF SignedFieldsRead, after, r, made, old, Kept
  <1> QED
    BY <1>1, SignerInvariance, PTL

\* What the review prints leaves no choice of the bytes that are signed: the transfer it
\* names has one encoding, and that is what was received.  Amounts are read back from
\* their text, the price from the largest fee.
THEOREM ReviewNamesTheBytes == Spec => []ReviewDeterminesBytes
  <1>1. SignInv => ReviewDeterminesBytes
    <2> SUFFICES ASSUME SignInv, request # None
                 PROVE  /\ Encoding(Shown(request)) = request.unsigned_transaction
                        /\ KeepsPolicy(Shown(request), request.network)
      BY DEF ReviewDeterminesBytes
    <2>1. /\ received \in Inputs
          /\ request = evm_parse_transaction(received.transaction, received.network,
                                             received.wallet, received.index)
      BY DEF SignInv, ParsedInv
    <2>2. received.transaction \in Transactions /\ received.network \in Networks
      BY <2>1 DEF Inputs
    <2>3. /\ request.unsigned_transaction = received.transaction
          /\ request.network = received.network
      BY HeldNames DEF SignInv
    <2>4. /\ AsksFor(request, Shown(request)) /\ KeepsPolicy(Shown(request), received.network)
          /\ request.type \in {"Eip1559", "LegacyEip155"}
          /\ serialize_transaction(request, None) = received.transaction
      BY <2>1, <2>2, ParsedTransfer
    <2>5. Written(request)
      BY <2>1, <2>2, ParsedWritten
    <2>6. Encoding(Shown(request)) = serialize_transaction(request, None)
      BY <2>4, <2>5, TypedEncoding, LegacyEncoding
    <2> QED
      BY <2>3, <2>4, <2>6, Zenon
  <1> QED
    BY <1>1, SignerInvariance, PTL

\* evm_parse_transaction refuses no transfer that keeps the policy, of the network's
\* coin or of a token that is known there, typed or not, in its one encoding: the
\* reader's refusals, the limits, the buffer's size and the comparison with the
\* canonical bytes all let it pass.
THEOREM TransfersAreAccepted == Spec => []AcceptsTransfers
  <1>1. SignInv => AcceptsTransfers
    <2> SUFFICES ASSUME SignInv, received # None, received.transaction \in Due[received.network]
                 PROVE  request # None
      BY DEF AcceptsTransfers
    <2>1. /\ received \in Inputs
          /\ request = evm_parse_transaction(received.transaction, received.network,
                                             received.wallet, received.index)
      BY DEF SignInv, AnsweredInv
    <2>2. /\ received.transaction \in Transactions /\ received.network \in Networks
          /\ received.wallet \in Wallets /\ received.index \in Indexes
      BY <2>1 DEF Inputs
    <2>3. PICK t \in Transfers :
              KeepsPolicy(t, received.network) /\ received.transaction = Encoding(t)
      BY <2>2 DEF Due
    <2>4. t \in TransferSet
      BY TransferAssumption
    <2> QED  BY ONLY <2>1, <2>2, <2>3, <2>4, DueIsParsed, Zenon
  <1> QED  BY <1>1, SignerInvariance, PTL
=============================================================================
