------------------------------ MODULE FoldFacts ------------------------------
(***************************************************************************)
(* Sums, recursive functions and numbers in a base as the models use them, *)
(* proved for every argument. Induction goes through smallest              *)
(* counterexamples: a set of bad arguments of a well-founded order would   *)
(* have a minimal one.                                                     *)
(***************************************************************************)
EXTENDS Integers, SequencesExt, FiniteSetTheorems, WellFoundedInduction, TLAPS

-----------------------------------------------------------------------------
(* Recursion along a well-founded order, one smaller argument at a time *)

\* f is base where the recursion ends and a step from the value at prev elsewhere.
Recurs(f, D, Rest, prev, base, step) ==
    f = [x \in D |-> IF x \in Rest THEN step[<<x, f[prev[x]]>>] ELSE base]

Descends(D, R, Rest, prev) ==
    /\ IsWellFoundedOn(R, D) /\ Rest \subseteq D
    /\ \A x \in Rest : prev[x] \in D /\ <<prev[x], x>> \in R

\* Such a recursion has a solution: the pairs of argument and value that every closed relation has.
LEMMA RecursionExists ==
    ASSUME NEW D, NEW R, NEW Rest, NEW prev, NEW V, NEW base \in V, NEW step,
           Descends(D, R, Rest, prev), \A x \in Rest, v \in V : step[<<x, v>>] \in V
    PROVE  \E f \in [D -> V] : Recurs(f, D, Rest, prev, base, step)
  <1> DEFINE Closed(H) ==
        /\ \A x \in D \ Rest : <<x, base>> \in H
        /\ \A x \in Rest, v \in V : <<prev[x], v>> \in H => <<x, step[<<x, v>>]>> \in H
  <1> DEFINE G == {p \in D \X V : \A H \in SUBSET (D \X V) : Closed(H) => p \in H}
  <1>1. Rest \subseteq D /\ \A x \in Rest : prev[x] \in D
    BY DEF Descends
  <1>2. Closed(G)
    <2>1. ASSUME NEW x \in D \ Rest PROVE <<x, base>> \in G
      OBVIOUS
    <2>2. ASSUME NEW x \in Rest, NEW v \in V, <<prev[x], v>> \in G
          PROVE  <<x, step[<<x, v>>]>> \in G
      <3>1. <<x, step[<<x, v>>]>> \in D \X V
        BY <1>1
      <3>2. ASSUME NEW H \in SUBSET (D \X V), Closed(H) PROVE <<x, step[<<x, v>>]>> \in H
        BY <2>2, <3>2
      <3> QED
        BY <3>1, <3>2
    <2> QED
      BY <2>1, <2>2
  <1>3. ASSUME NEW p \in D \X V, Closed(G \ {p}) PROVE p \notin G
    BY <1>3
  <1> HIDE DEF G
  <1> DEFINE One(x) == \E v \in V : <<x, v>> \in G /\ \A w \in V : <<x, w>> \in G => w = v
  <1> DEFINE Bad == {x \in D : ~One(x)}
  <1>4. Bad = {}
    <2>1. SUFFICES ASSUME Bad # {} PROVE FALSE
      OBVIOUS
    <2>2. PICK x \in Bad : \A y \in Bad : ~(<<y, x>> \in R)
      BY <2>1, WFMin DEF Descends
    <2>3. CASE x \notin Rest
      <3>1. <<x, base>> \in G
        BY <1>2, <2>2, <2>3
      <3>2. ASSUME NEW w \in V, w # base PROVE <<x, w>> \notin G
        <4>1. Closed(G \ {<<x, w>>})
          BY <1>2, <2>3, <3>2
        <4> QED
          BY <1>3, <2>2, <4>1
      <3> QED
        BY <2>2, <3>1, <3>2
    <2>4. CASE x \in Rest
      <3>1. One(prev[x])
        BY <1>1, <2>2, <2>4 DEF Descends
      <3>2. PICK v \in V : <<prev[x], v>> \in G /\ \A w \in V : <<prev[x], w>> \in G => w = v
        BY <3>1
      <3>3. <<x, step[<<x, v>>]>> \in G /\ step[<<x, v>>] \in V
        BY <1>2, <2>4, <3>2
      <3>4. ASSUME NEW w \in V, w # step[<<x, v>>] PROVE <<x, w>> \notin G
        <4>1. ASSUME NEW y \in D \ Rest PROVE <<y, base>> \in G \ {<<x, w>>}
          BY <1>2, <2>4
        <4>2. ASSUME NEW y \in Rest, NEW u \in V, <<prev[y], u>> \in G \ {<<x, w>>}
              PROVE  <<y, step[<<y, u>>]>> \in G \ {<<x, w>>}
          <5>1. <<y, step[<<y, u>>]>> \in G
            BY <1>2, <4>2
          <5>2. y = x => u = v
            BY <3>2, <4>2
          <5> QED
            BY <3>4, <5>1, <5>2
        <4>3. Closed(G \ {<<x, w>>})
          BY <4>1, <4>2
        <4> QED
          BY <1>3, <2>2, <4>3
      <3> QED
        BY <2>2, <3>3, <3>4
    <2> QED
      BY <2>3, <2>4
  <1>5. \E f \in [D -> V] : \A x \in D :
            <<x, f[x]>> \in G /\ \A w \in V : <<x, w>> \in G => w = f[x]
    <2> DEFINE h == [x \in D |-> CHOOSE v \in V :
                         <<x, v>> \in G /\ \A w \in V : <<x, w>> \in G => w = v]
    <2>1. ASSUME NEW x \in D
          PROVE  h[x] \in V /\ <<x, h[x]>> \in G /\ \A w \in V : <<x, w>> \in G => w = h[x]
      BY <1>4
    <2>2. h \in [D -> V]
      BY <2>1
    <2> QED
      BY <2>1, <2>2
  <1>6. PICK f \in [D -> V] : \A x \in D :
            <<x, f[x]>> \in G /\ \A w \in V : <<x, w>> \in G => w = f[x]
    BY <1>5
  <1>7. ASSUME NEW x \in D PROVE f[x] = IF x \in Rest THEN step[<<x, f[prev[x]]>>] ELSE base
    <2>1. CASE x \notin Rest
      BY <1>2, <1>6, <2>1
    <2>2. CASE x \in Rest
      <3>1. prev[x] \in D /\ f[prev[x]] \in V /\ <<prev[x], f[prev[x]]>> \in G
        BY <1>1, <1>6, <2>2
      <3>2. <<x, step[<<x, f[prev[x]]>>]>> \in G
        BY <1>2, <2>2, <3>1
      <3> QED
        BY <1>6, <2>2, <3>1, <3>2
    <2> QED
      BY <2>1, <2>2
  <1>8. Recurs(f, D, Rest, prev, base, step)
    <2> DEFINE g == [x \in D |-> IF x \in Rest THEN step[<<x, f[prev[x]]>>] ELSE base]
    <2>1. \A x \in D : f[x] = g[x]
      BY <1>7
    <2>2. f = g
      BY <2>1
    <2> QED
      BY <2>2 DEF Recurs
  <1> QED
    BY <1>8

-----------------------------------------------------------------------------
(* Natural numbers *)

LessThan == {p \in Nat \X Nat : p[1] < p[2]}

\* A non-empty set of natural numbers has a least one.
LEMMA NatWellFounded == ASSUME NEW D, D \subseteq Nat PROVE IsWellFoundedOn(LessThan, D)
  <1>1. OpToRel(<, Nat) = LessThan
    BY DEF OpToRel, LessThan
  <1>2. IsWellFoundedOn(LessThan, Nat)
    BY <1>1, NatLessThanWellFounded
  <1> QED
    BY <1>2, IsWellFoundedOnSubset

\* A set of numbers that has 0 and with every number the next one has them all.
LEMMA NatSetInduction ==
    ASSUME NEW Good, 0 \in Good, \A n \in Nat : n \in Good => n + 1 \in Good
    PROVE  Nat \subseteq Good
  <1>1. SUFFICES ASSUME Nat \ Good # {} PROVE FALSE
    OBVIOUS
  <1>2. PICK n \in Nat \ Good : \A m \in Nat \ Good : ~(<<m, n>> \in LessThan)
    BY <1>1, NatWellFounded, WFMin
  <1>3. n # 0 /\ n - 1 \in Nat /\ <<n - 1, n>> \in LessThan
    BY <1>2 DEF LessThan
  <1> QED
    BY <1>2, <1>3

\* A recursive function over the numbers from lo on, up to some number or without end.
Counts(f, D, lo, base, step) == f = [n \in D |-> IF n = lo THEN base ELSE step[<<n, f[n - 1]>>]]

\* A recursive definition over numbers has a function that satisfies it.
LEMMA NatRecursion ==
    ASSUME NEW lo \in Nat, NEW D, D \subseteq Nat, lo \in D,
           \A n \in D : n >= lo /\ (n # lo => n - 1 \in D),
           NEW V, NEW base \in V, NEW step,
           \A n \in D \ {lo}, v \in V : step[<<n, v>>] \in V
    PROVE  \E f \in [D -> V] : Counts(f, D, lo, base, step)
  <1> DEFINE prev == [n \in D |-> n - 1]
             Rest == D \ {lo}
  <1>1. Descends(D, LessThan, Rest, prev)
    <2>1. IsWellFoundedOn(LessThan, D)
      BY NatWellFounded
    <2>2. ASSUME NEW n \in Rest PROVE prev[n] \in D /\ <<prev[n], n>> \in LessThan
      <3>1. n \in Nat /\ n - 1 \in Nat /\ n - 1 \in D /\ n - 1 < n
        BY <2>2
      <3> QED
        BY <3>1 DEF LessThan
    <2> QED
      BY <2>1, <2>2 DEF Descends
  <1>2. PICK f \in [D -> V] : Recurs(f, D, Rest, prev, base, step)
    BY <1>1, RecursionExists
  <1>3. Counts(f, D, lo, base, step)
    BY <1>2 DEF Recurs, Counts
  <1> QED
    BY <1>3

-----------------------------------------------------------------------------
(* Finite sets *)

\* 1 .. n is finite and has n elements.
LEMMA UpTo == ASSUME NEW n \in Nat PROVE IsFiniteSet(1 .. n) /\ Cardinality(1 .. n) = n
  BY FS_Interval

\* A non-empty set of subsets of a finite set has a smallest one.
LEMMA SubsetsWellFounded ==
    ASSUME NEW S, IsFiniteSet(S)
    PROVE  IsWellFoundedOn(StrictSubsetOrdering(S), SUBSET S)
  <1>1. FiniteSubsetsOf(S) = SUBSET S
    BY FS_FiniteSubsetsOfFinite
  <1> QED
    BY <1>1, FS_StrictSubsetOrderingWellFounded

\* What holds of the empty set, and of a set with one more element whenever it
\* holds of the set, holds of every subset of a finite set.
LEMMA FiniteSetInduction ==
    ASSUME NEW S, IsFiniteSet(S), NEW Good, {} \in Good,
           \A T \in SUBSET S, x \in S : x \notin T /\ T \in Good => T \cup {x} \in Good
    PROVE  SUBSET S \subseteq Good
  <1>1. SUFFICES ASSUME (SUBSET S) \ Good # {} PROVE FALSE
    OBVIOUS
  <1>2. PICK T \in (SUBSET S) \ Good :
            \A U \in (SUBSET S) \ Good : ~(<<U, T>> \in StrictSubsetOrdering(S))
    BY <1>1, SubsetsWellFounded, WFMin
  <1>3. PICK x \in T : TRUE
    BY <1>2
  <1>4. T \ {x} \in Good
    <2>1. T \ {x} \in SUBSET S /\ T \ {x} # T
      OBVIOUS
    <2>2. <<T \ {x}, T>> \in StrictSubsetOrdering(S)
      BY <2>1 DEF StrictSubsetOrdering
    <2> QED
      BY <1>2, <2>1, <2>2
  <1>5. T = (T \ {x}) \cup {x} /\ T \ {x} \in SUBSET S /\ x \in S
    OBVIOUS
  <1> QED
    BY <1>2, <1>4, <1>5

-----------------------------------------------------------------------------
(* Sums over finite sets *)

SumsUp(sum, fun, S) ==
    /\ \A T \in SUBSET S : SumFunctionOnSet(fun, T) = sum[T]
    /\ sum[{}] = 0
    /\ \A T \in SUBSET S : T # {} => \E x \in T : sum[T] = fun[x] + sum[T \ {x}]

\* A sum is built up one element at a time, in some order.
LEMMA SumRecursion ==
    ASSUME NEW S, IsFiniteSet(S), NEW fun, \A x \in S : fun[x] \in Nat
    PROVE  \E sum \in [SUBSET S -> Nat] : SumsUp(sum, fun, S)
  <1> DEFINE Pick(T) == CHOOSE x \in T : TRUE
             Rest(U) == (SUBSET U) \ {{}}
             prev(U) == [T \in Rest(U) |-> T \ {Pick(T)}]
             step(U) == [p \in Rest(U) \X Nat |-> fun[Pick(p[1])] + p[2]]
             R == StrictSubsetOrdering(S)
             Solves(f, U) == Recurs(f, SUBSET U, Rest(U), prev(U), 0, step(U))
             Equation(f, U) == f = [s \in SUBSET U |-> IF s = {} THEN 0
                                                       ELSE fun[Pick(s)] + f[s \ {Pick(s)}]]
  <1>1. ASSUME NEW T \in SUBSET S, T # {}
        PROVE  Pick(T) \in T /\ T \ {Pick(T)} \in SUBSET T /\ <<T \ {Pick(T)}, T>> \in R
    <2>1. Pick(T) \in T
      BY <1>1
    <2> HIDE DEF Pick
    <2>2. T \ {Pick(T)} # T
      BY <2>1
    <2> QED
      BY <2>1, <2>2 DEF StrictSubsetOrdering
  <1> HIDE DEF Pick
  <1>2. ASSUME NEW U \in SUBSET S PROVE Descends(SUBSET U, R, Rest(U), prev(U))
    <2>1. IsWellFoundedOn(R, SUBSET U)
      BY SubsetsWellFounded, IsWellFoundedOnSubset
    <2> QED
      BY <1>1, <2>1 DEF Descends
  <1>3. PICK sum \in [SUBSET S -> Nat] : Solves(sum, S)
    <2>1. ASSUME NEW T \in Rest(S), NEW v \in Nat PROVE step(S)[<<T, v>>] \in Nat
      <3>1. fun[Pick(T)] \in Nat /\ step(S)[<<T, v>>] = fun[Pick(T)] + v
        BY <1>1
      <3> QED
        BY <3>1
    <2> QED
      BY <1>2, <2>1, RecursionExists
  <1>4. \A T \in SUBSET S : sum[T] = IF T = {} THEN 0 ELSE fun[Pick(T)] + sum[T \ {Pick(T)}]
    <2> SUFFICES ASSUME NEW T \in SUBSET S
                 PROVE  sum[T] = IF T = {} THEN 0 ELSE fun[Pick(T)] + sum[T \ {Pick(T)}]
      OBVIOUS
    <2>1. CASE T = {}
      BY <1>3, <2>1 DEF Recurs
    <2>2. CASE T # {}
      <3>1. T \in Rest(S) /\ prev(S)[T] = T \ {Pick(T)} /\ sum[T \ {Pick(T)}] \in Nat
        BY <2>2, <1>1
      <3>2. sum[T] = step(S)[<<T, sum[prev(S)[T]]>>]
        BY <1>3, <3>1 DEF Recurs
      <3> QED
        BY <2>2, <3>1, <3>2
    <2> QED
      BY <2>1, <2>2
  <1>5. ASSUME NEW U \in SUBSET S PROVE SumFunctionOnSet(fun, U) = sum[U]
    <2>1. SumFunctionOnSet(fun, U) = (CHOOSE f : Equation(f, U))[U]
      BY DEF SumFunctionOnSet, FoldFunctionOnSet, MapThenFoldSet, Pick
    <2> DEFINE part == [T \in SUBSET U |-> sum[T]]
    <2>2. Equation(part, U)
      <3>1. ASSUME NEW T \in SUBSET U
            PROVE  part[T] = IF T = {} THEN 0 ELSE fun[Pick(T)] + part[T \ {Pick(T)}]
        BY <1>1, <1>4
      <3> QED
        BY <3>1
    <2> DEFINE f == CHOOSE f : Equation(f, U)
    <2>3. Equation(f, U)
      BY <2>2
    <2> HIDE DEF f
    <2>4. \A T \in SUBSET U : f[T] = sum[T]
      <3> DEFINE Differ == {T \in SUBSET U : f[T] # sum[T]}
      <3>1. SUFFICES ASSUME Differ # {} PROVE FALSE
        OBVIOUS
      <3>2. PICK T \in Differ : \A W \in Differ : ~(<<W, T>> \in R)
        <4>1. IsWellFoundedOn(R, SUBSET U)
          BY <1>2 DEF Descends
        <4>2. Differ \subseteq SUBSET U
          OBVIOUS
        <4> HIDE DEF Differ, R
        <4> QED
          BY <3>1, <4>1, <4>2, WFMin
      <3>3. T # {} => f[T \ {Pick(T)}] = sum[T \ {Pick(T)}]
        BY <1>1, <3>2
      <3>4. f[T] = IF T = {} THEN 0 ELSE fun[Pick(T)] + f[T \ {Pick(T)}]
        BY <2>3
      <3> QED
        BY <1>4, <3>2, <3>3, <3>4
    <2> QED
      BY <2>1, <2>4 DEF f
  <1>6. sum[{}] = 0
    BY <1>4
  <1>7. ASSUME NEW T \in SUBSET S, T # {} PROVE \E x \in T : sum[T] = fun[x] + sum[T \ {x}]
    BY <1>1, <1>4, <1>7
  <1> QED
    BY <1>5, <1>6, <1>7 DEF SumsUp

\* A sum of natural numbers is one, and nothing adds up to zero.
LEMMA SumType ==
    ASSUME NEW S, IsFiniteSet(S), NEW fun, \A x \in S : fun[x] \in Nat
    PROVE  SumFunctionOnSet(fun, {}) = 0 /\ SumFunctionOnSet(fun, S) \in Nat
  <1>1. PICK sum \in [SUBSET S -> Nat] : SumsUp(sum, fun, S)
    BY SumRecursion
  <1>2. {} \in SUBSET S /\ S \in SUBSET S
    OBVIOUS
  <1> QED
    BY <1>1, <1>2 DEF SumsUp

\* Any element can be taken out, whatever the order the sum is built in.
LEMMA SumTakeOut ==
    ASSUME NEW S, IsFiniteSet(S), NEW fun, \A x \in S : fun[x] \in Nat, NEW x \in S
    PROVE  SumFunctionOnSet(fun, S) = fun[x] + SumFunctionOnSet(fun, S \ {x})
  <1>1. PICK sum \in [SUBSET S -> Nat] : SumsUp(sum, fun, S)
    BY SumRecursion
  <1> DEFINE Bad == {T \in SUBSET S : \E z \in T : sum[T] # fun[z] + sum[T \ {z}]}
  <1>2. Bad = {}
    <2>1. SUFFICES ASSUME Bad # {} PROVE FALSE
      OBVIOUS
    <2>2. Bad \subseteq SUBSET S
      OBVIOUS
    <2>3. PICK T \in Bad : \A U \in Bad : ~(<<U, T>> \in StrictSubsetOrdering(S))
      <3> HIDE DEF Bad
      <3> QED
        BY <2>1, <2>2, SubsetsWellFounded, WFMin
    <2>4. \A U \in SUBSET S : U \subseteq T /\ U # T =>
              \A y \in U : sum[U] = fun[y] + sum[U \ {y}]
      BY <2>2, <2>3 DEF StrictSubsetOrdering
    <2>5. PICK z \in T : sum[T] # fun[z] + sum[T \ {z}]
      BY <2>3
    <2>6. PICK y \in T : sum[T] = fun[y] + sum[T \ {y}]
      BY <1>1, <2>3 DEF SumsUp
    <2> HIDE DEF Bad
    <2>7. y # z /\ z \in T \ {y} /\ y \in T \ {z}
      BY <2>5, <2>6
    <2>8. sum[T \ {y}] = fun[z] + sum[(T \ {y}) \ {z}]
      BY <2>2, <2>4, <2>7
    <2>9. sum[T \ {z}] = fun[y] + sum[(T \ {z}) \ {y}]
      BY <2>2, <2>4, <2>7
    <2>10. (T \ {y}) \ {z} = (T \ {z}) \ {y}
      OBVIOUS
    <2>11. (T \ {y}) \ {z} \in SUBSET S /\ fun[y] \in Nat /\ fun[z] \in Nat
      BY <2>2
    <2>12. sum[(T \ {y}) \ {z}] \in Nat
      BY <2>11
    <2> DEFINE rest == sum[(T \ {y}) \ {z}]
    <2>13. sum[T] = fun[y] + (fun[z] + rest) /\ fun[z] + sum[T \ {z}] = fun[z] + (fun[y] + rest)
      BY <2>6, <2>8, <2>9, <2>10
    <2> HIDE DEF rest
    <2>14. rest \in Nat
      BY <2>12 DEF rest
    <2> QED
      BY <2>5, <2>11, <2>13, <2>14
  <1>3. sum[S] = fun[x] + sum[S \ {x}]
    BY <1>2
  <1> QED
    BY <1>1, <1>3 DEF SumsUp

\* An element added to a set adds its value to the sum.
LEMMA SumAdd ==
    ASSUME NEW S, IsFiniteSet(S), NEW fun, NEW x, x \notin S,
           \A y \in S \cup {x} : fun[y] \in Nat
    PROVE  SumFunctionOnSet(fun, S \cup {x}) = fun[x] + SumFunctionOnSet(fun, S)
  <1>1. IsFiniteSet(S \cup {x})
    BY FS_AddElement
  <1>2. (S \cup {x}) \ {x} = S
    OBVIOUS
  <1> QED
    BY <1>1, <1>2, SumTakeOut

\* Values that agree have the same sum.
LEMMA SumAgree ==
    ASSUME NEW S, IsFiniteSet(S), NEW fun, NEW gun,
           \A x \in S : fun[x] \in Nat /\ gun[x] = fun[x]
    PROVE  SumFunctionOnSet(gun, S) = SumFunctionOnSet(fun, S)
  <1> DEFINE Good == {T \in SUBSET S : SumFunctionOnSet(gun, T) = SumFunctionOnSet(fun, T)}
  <1>1. {} \in Good
    BY SumType, FS_EmptySet
  <1>2. ASSUME NEW T \in SUBSET S, NEW x \in S, x \notin T, T \in Good PROVE T \cup {x} \in Good
    <2>1. IsFiniteSet(T)
      BY FS_Subset
    <2>2. /\ SumFunctionOnSet(fun, T \cup {x}) = fun[x] + SumFunctionOnSet(fun, T)
          /\ SumFunctionOnSet(gun, T \cup {x}) = gun[x] + SumFunctionOnSet(gun, T)
      BY <1>2, <2>1, SumAdd
    <2> QED
      BY <1>2, <2>2
  <1>3. SUBSET S \subseteq Good
    <2> HIDE DEF Good
    <2> QED
      BY <1>1, <1>2, FiniteSetInduction
  <1> QED
    BY <1>3

\* Zeros add up to zero.
LEMMA SumOfZeros ==
    ASSUME NEW S, IsFiniteSet(S), NEW fun, \A x \in S : fun[x] = 0
    PROVE  SumFunctionOnSet(fun, S) = 0
  <1> DEFINE Good == {T \in SUBSET S : SumFunctionOnSet(fun, T) = 0}
  <1>1. {} \in Good
    BY SumType, FS_EmptySet
  <1>2. ASSUME NEW T \in SUBSET S, NEW x \in S, x \notin T, T \in Good PROVE T \cup {x} \in Good
    <2>1. IsFiniteSet(T)
      BY FS_Subset
    <2>2. SumFunctionOnSet(fun, T \cup {x}) = fun[x] + SumFunctionOnSet(fun, T)
      BY <1>2, <2>1, SumAdd
    <2> QED
      BY <1>2, <2>2
  <1>3. SUBSET S \subseteq Good
    <2> HIDE DEF Good
    <2> QED
      BY <1>1, <1>2, FiniteSetInduction
  <1> QED
    BY <1>3

\* A value that changes changes the sum by as much.
LEMMA SumUpdate ==
    ASSUME NEW S, IsFiniteSet(S), NEW fun, NEW gun, NEW x \in S,
           \A y \in S : fun[y] \in Nat /\ gun[y] \in Nat,
           \A y \in S \ {x} : gun[y] = fun[y]
    PROVE  SumFunctionOnSet(gun, S) + fun[x] = SumFunctionOnSet(fun, S) + gun[x]
  <1>1. IsFiniteSet(S \ {x})
    BY FS_Subset
  <1>2. SumFunctionOnSet(gun, S \ {x}) = SumFunctionOnSet(fun, S \ {x})
    BY <1>1, SumAgree
  <1>3. SumFunctionOnSet(fun, S \ {x}) \in Nat
    BY <1>1, SumType
  <1>4. /\ SumFunctionOnSet(fun, S) = fun[x] + SumFunctionOnSet(fun, S \ {x})
        /\ SumFunctionOnSet(gun, S) = gun[x] + SumFunctionOnSet(gun, S \ {x})
    BY SumTakeOut
  <1>5. fun[x] \in Nat /\ gun[x] \in Nat
    OBVIOUS
  <1> QED
    BY <1>2, <1>3, <1>4, <1>5

\* A sum is at most a bound of its values times their number.
LEMMA SumBound ==
    ASSUME NEW S, IsFiniteSet(S), NEW fun, NEW most \in Nat,
           \A x \in S : fun[x] \in Nat /\ fun[x] <= most
    PROVE  SumFunctionOnSet(fun, S) <= most * Cardinality(S)
  <1> DEFINE Good == {T \in SUBSET S : SumFunctionOnSet(fun, T) <= most * Cardinality(T)}
  <1>1. {} \in Good
    BY SumType, FS_EmptySet
  <1>2. ASSUME NEW T \in SUBSET S, NEW x \in S, x \notin T, T \in Good PROVE T \cup {x} \in Good
    <2>1. IsFiniteSet(T)
      BY FS_Subset
    <2>2. SumFunctionOnSet(fun, T \cup {x}) = fun[x] + SumFunctionOnSet(fun, T)
      BY <1>2, <2>1, SumAdd
    <2>3. Cardinality(T \cup {x}) = Cardinality(T) + 1 /\ Cardinality(T) \in Nat
      BY <1>2, <2>1, FS_AddElement, FS_CardinalityType
    <2>4. SumFunctionOnSet(fun, T) \in Nat /\ fun[x] \in Nat /\ fun[x] <= most
      BY <2>1, SumType
    <2>5. most * (Cardinality(T) + 1) = most * Cardinality(T) + most
      BY <2>3
    <2>6. most * Cardinality(T) \in Nat
      BY <2>3
    <2> QED
      BY <1>2, <2>2, <2>3, <2>4, <2>5, <2>6
  <1>3. SUBSET S \subseteq Good
    <2> HIDE DEF Good
    <2> QED
      BY <1>1, <1>2, FiniteSetInduction
  <1> QED
    BY <1>3

-----------------------------------------------------------------------------
(* Sequences from left to right *)

FoldsLeft(fold, n, base, step) ==
    fold = [S \in SUBSET (1 .. n) |-> IF S = {} THEN base
                                      ELSE step[<<Max(S), fold[S \ {Max(S)}]>>]]

\* The Max of a set of positions is its largest.
LEMMA MaxIsLargest ==
    ASSUME NEW n \in Nat, NEW S \in SUBSET (1 .. n), S # {}
    PROVE  Max(S) \in S /\ \A x \in S : Max(S) >= x
  <1> DEFINE Late == {k \in Nat : \E x \in S : k = n - x}
  <1>1. Late \subseteq Nat /\ Late # {}
    <2>1. PICK x \in S : TRUE
      OBVIOUS
    <2>2. n - x \in Late
      BY <2>1
    <2> QED
      BY <2>2
  <1>2. PICK k \in Late : \A j \in Late : ~(<<j, k>> \in LessThan)
    <2> HIDE DEF Late
    <2> QED
      BY <1>1, NatWellFounded, WFMin
  <1>3. PICK x \in S : k = n - x
    BY <1>2
  <1>4. \A y \in S : x >= y
    <2> SUFFICES ASSUME NEW y \in S PROVE x >= y
      OBVIOUS
    <2>1. n - y \in Late /\ n - y \in Nat /\ y \in Nat /\ x \in Nat
      OBVIOUS
    <2>2. ~(n - y < n - x)
      BY <1>2, <1>3, <2>1 DEF LessThan
    <2> QED
      BY <2>1, <2>2
  <1> QED
    BY <1>4 DEF Max

\* The Max of 1 .. n is n, and the positions before it are 1 .. n - 1.
LEMMA MaxUpTo ==
    ASSUME NEW n \in Nat \ {0}
    PROVE  Max(1 .. n) = n /\ (1 .. n) \ {n} = 1 .. n - 1
  <1>1. 1 .. n \in SUBSET (1 .. n) /\ 1 .. n # {} /\ n \in 1 .. n
    OBVIOUS
  <1>2. Max(1 .. n) \in 1 .. n /\ Max(1 .. n) >= n
    BY <1>1, MaxIsLargest
  <1> QED
    BY <1>2

\* A fold from the left is the value after every element, one step from the one before.
LEMMA FoldExists ==
    ASSUME NEW n \in Nat, NEW V, NEW base \in V, NEW step,
           \A i \in 1 .. n, v \in V : step[<<i, v>>] \in V
    PROVE  \E fold \in [SUBSET (1 .. n) -> V] : FoldsLeft(fold, n, base, step)
  <1> DEFINE D == SUBSET (1 .. n)
             Rest == D \ {{}}
             prev == [S \in Rest |-> S \ {Max(S)}]
             next == [p \in Rest \X V |-> step[<<Max(p[1]), p[2]>>]]
             R == StrictSubsetOrdering(1 .. n)
  <1>1. ASSUME NEW S \in Rest PROVE Max(S) \in 1 .. n /\ S \ {Max(S)} \in D /\ <<S \ {Max(S)}, S>> \in R
    <2>1. Max(S) \in S
      BY MaxIsLargest
    <2>2. S \ {Max(S)} # S
      BY <2>1
    <2> QED
      BY <2>1, <2>2 DEF StrictSubsetOrdering
  <1>2. Descends(D, R, Rest, prev)
    <2>1. IsWellFoundedOn(R, D)
      BY UpTo, SubsetsWellFounded
    <2> HIDE DEF R
    <2> QED
      BY <1>1, <2>1 DEF Descends
  <1>3. ASSUME NEW S \in Rest, NEW v \in V PROVE next[<<S, v>>] \in V
    BY <1>1
  <1>4. PICK fold \in [D -> V] : Recurs(fold, D, Rest, prev, base, next)
    <2> HIDE DEF D, R, Rest, prev, next
    <2> QED
      BY <1>2, <1>3, RecursionExists
  <1>5. ASSUME NEW S \in D
        PROVE  fold[S] = IF S = {} THEN base ELSE step[<<Max(S), fold[S \ {Max(S)}]>>]
    <2>1. CASE S = {}
      BY <1>4, <2>1 DEF Recurs
    <2>2. CASE S # {}
      <3>1. S \in Rest /\ fold[S \ {Max(S)}] \in V /\ prev[S] = S \ {Max(S)}
        BY <1>1, <2>2
      <3>2. fold[S] = next[<<S, fold[prev[S]]>>]
        BY <1>4, <3>1 DEF Recurs
      <3> QED
        BY <2>2, <3>1, <3>2
    <2> QED
      BY <2>1, <2>2
  <1>6. FoldsLeft(fold, n, base, step)
    <2> DEFINE again == [S \in D |-> IF S = {} THEN base ELSE step[<<Max(S), fold[S \ {Max(S)}]>>]]
    <2>1. \A S \in D : fold[S] = again[S]
      BY <1>5
    <2>2. fold = again
      BY <2>1
    <2> QED
      BY <2>2 DEF FoldsLeft
  <1> QED
    BY <1>6

\* What the fold has taken in after the first k elements.
LEMMA FirstOnes ==
    ASSUME NEW n \in Nat, NEW k \in 1 .. n
    PROVE  /\ 1 .. k \in SUBSET (1 .. n) /\ 1 .. k # {}
           /\ Max(1 .. k) = k /\ (1 .. k) \ {k} = 1 .. k - 1
  <1>1. k \in Nat \ {0} /\ 1 .. k \in SUBSET (1 .. n) /\ k \in 1 .. k
    OBVIOUS
  <1> QED
    BY <1>1, MaxUpTo

-----------------------------------------------------------------------------
(* Numbers in a base *)

PowersOf(w, b) == w \in [Nat -> Nat] /\ w[0] = 1 /\ \A k \in Nat : w[k + 1] = b * w[k]

\* A recursive function that multiplies by the base yields the powers of the base.
LEMMA PowersAre ==
    ASSUME NEW b \in Nat, NEW w, w = CHOOSE f : f = [k \in Nat |-> IF k = 0 THEN 1 ELSE b * f[k - 1]]
    PROVE  PowersOf(w, b)
  <1> DEFINE step == [p \in Nat \X Nat |-> b * p[2]]
             Equation(f) == f = [k \in Nat |-> IF k = 0 THEN 1 ELSE b * f[k - 1]]
  <1>1. PICK u \in [Nat -> Nat] : Counts(u, Nat, 0, 1, step)
    <2>1. \A k \in Nat \ {0}, v \in Nat : step[<<k, v>>] \in Nat
      OBVIOUS
    <2>2. 0 \in Nat /\ Nat \subseteq Nat /\ \A n \in Nat : n >= 0 /\ (n # 0 => n - 1 \in Nat)
      OBVIOUS
    <2> HIDE DEF step
    <2> QED
      BY ONLY <2>1, <2>2, NatRecursion
  <1>2. Equation(u)
    <2>1. ASSUME NEW k \in Nat PROVE u[k] = IF k = 0 THEN 1 ELSE b * u[k - 1]
      <3>1. CASE k = 0
        BY <1>1, <3>1 DEF Counts
      <3>2. CASE k # 0
        <4>1. k - 1 \in Nat /\ u[k - 1] \in Nat
          BY <3>2
        <4>2. u[k] = step[<<k, u[k - 1]>>]
          BY <1>1, <3>2 DEF Counts
        <4>3. step[<<k, u[k - 1]>>] = b * u[k - 1]
          BY <4>1
        <4> QED
          BY <3>2, <4>2, <4>3
      <3> QED
        BY <3>1, <3>2
    <2> QED
      BY <1>1, <2>1
  <1>3. Equation(w)
    BY <1>2
  <1>4. w[0] = 1 /\ \A k \in Nat : w[k + 1] = b * w[k]
    <2>1. w = [k \in Nat |-> IF k = 0 THEN 1 ELSE b * w[k - 1]]
      BY ONLY <1>3
    <2>2. \A k \in Nat : k + 1 \in Nat /\ k + 1 # 0 /\ (k + 1) - 1 = k
      OBVIOUS
    <2> QED
      BY ONLY <2>1, <2>2
  <1>5. w \in [Nat -> Nat]
    <2> DEFINE Good == {k \in Nat : w[k] \in Nat}
    <2>1. 0 \in Good /\ \A k \in Nat : k \in Good => k + 1 \in Good
      BY <1>4
    <2>2. Nat \subseteq Good
      <3> HIDE DEF Good
      <3> QED
        BY <2>1, NatSetInduction
    <2> QED
      BY <1>3, <2>2
  <1> QED
    BY <1>4, <1>5 DEF PowersOf

\* The powers of a base are positive, outgrow their exponents and grow with them.
LEMMA PowersGrow ==
    ASSUME NEW b \in Nat, b >= 2, NEW w, PowersOf(w, b)
    PROVE  /\ \A k \in Nat : w[k] \in Nat /\ w[k] > 0 /\ w[k] > k
           /\ \A j, k \in Nat : j <= k => w[j] <= w[k]
  <1>1. \A k \in Nat : w[k] \in Nat /\ w[k + 1] \in Nat /\ w[k + 1] >= 2 * w[k]
    <2> SUFFICES ASSUME NEW k \in Nat PROVE w[k] \in Nat /\ w[k + 1] \in Nat /\ w[k + 1] >= 2 * w[k]
      OBVIOUS
    <2>1. w[k] \in Nat /\ w[k + 1] \in Nat /\ w[k + 1] = b * w[k]
      BY DEF PowersOf
    <2>2. \A m \in Nat : b * m >= 2 * m
      OBVIOUS
    <2> QED
      BY <2>1, <2>2
  <1> DEFINE Good == {k \in Nat : w[k] > k}
  <1>2. 0 \in Good /\ \A k \in Nat : k \in Good => k + 1 \in Good
    BY <1>1 DEF PowersOf
  <1>3. Nat \subseteq Good
    <2> HIDE DEF Good
    <2> QED
      BY <1>2, NatSetInduction
  <1>4. ASSUME NEW j \in Nat PROVE \A k \in Nat : j <= k => w[j] <= w[k]
    <2> DEFINE Above == {k \in Nat : j <= k => w[j] <= w[k]}
    <2>1. 0 \in Above
      BY <1>1
    <2>2. ASSUME NEW k \in Nat, k \in Above PROVE k + 1 \in Above
      BY <1>1, <2>2
    <2>3. Nat \subseteq Above
      <3> HIDE DEF Above
      <3> QED
        BY <2>1, <2>2, NatSetInduction
    <2> QED
      BY <2>3
  <1> QED
    BY <1>1, <1>3, <1>4

\* Every number has a least power above it.
LEMMA LeastPower ==
    ASSUME NEW b \in Nat, b >= 2, NEW w, PowersOf(w, b), NEW n \in Nat
    PROVE  \E k \in 0 .. n : n < w[k] /\ (k = 0 \/ n >= w[k - 1])
  <1> DEFINE Above == {k \in Nat : n < w[k]}
  <1>1. n \in Above
    BY PowersGrow
  <1>2. PICK k \in Above : \A j \in Above : ~(<<j, k>> \in LessThan)
    <2>1. IsWellFoundedOn(LessThan, Nat)
      BY NatWellFounded
    <2> QED
      BY <1>1, <2>1, WFMin
  <1>3. \A j \in Above : ~(j < k)
    BY <1>2 DEF LessThan
  <1>4. k \in 0 .. n
    BY <1>1, <1>3
  <1>5. k # 0 => n >= w[k - 1]
    <2>1. k # 0 => k - 1 \in Nat /\ w[k - 1] \in Nat
      BY PowersGrow
    <2>2. k # 0 => ~(k - 1 \in Above)
      BY <1>3, <2>1
    <2> QED
      BY <2>1, <2>2
  <1> QED
    BY <1>4, <1>5

\* A quotient is the one number that leaves less than the divisor.
LEMMA QuotientIs ==
    ASSUME NEW d \in Nat \ {0}, NEW q \in Nat, NEW t \in Nat, t < d
    PROVE  (d * q + t) \div d = q /\ (d * q + t) % d = t
  <1> DEFINE n == d * q + t
             p == n \div d
  <1>1. n \in Nat
    OBVIOUS
  <1>2. p \in Nat /\ d * p <= n /\ n < d * (p + 1) /\ n % d = n - d * p
    BY <1>1
  <1>3. p = q
    <2>1. ~(p < q)
      <3>1. p < q => d * (p + 1) <= d * q
        <4> HIDE DEF p
        <4>1. \A x, y \in Nat : x <= y => d * x <= d * y
          OBVIOUS
        <4> QED
          BY <1>2, <4>1
      <3> QED
        BY <1>2, <3>1
    <2>2. ~(q < p)
      <3>1. q < p => d * (q + 1) <= d * p
        <4> HIDE DEF p
        <4>1. \A x, y \in Nat : x <= y => d * x <= d * y
          OBVIOUS
        <4> QED
          BY <1>2, <4>1
      <3>2. d * (q + 1) = d * q + d /\ d * q \in Nat
        OBVIOUS
      <3> HIDE DEF p
      <3> QED
        BY <1>2, <3>1, <3>2
    <2> HIDE DEF p
    <2> QED
      BY <1>2, <2>1, <2>2
  <1> QED
    BY <1>2, <1>3

\* Quotient and remainder, as the provers know them.
LEMMA QuotientOf ==
    ASSUME NEW n \in Nat, NEW d \in Nat \ {0}
    PROVE  n \div d \in Nat /\ n % d \in 0 .. d - 1 /\ n = d * (n \div d) + (n % d)
  OBVIOUS

\* Dividing twice.
LEMMA QuotientTwice ==
    ASSUME NEW n \in Nat, NEW w \in Nat \ {0}, NEW b \in Nat \ {0}
    PROVE  n \div (b * w) = (n \div w) \div b
  <1> DEFINE q == n \div w
             t == n % w
             p == q \div b
             s == q % b
  <1>1. q \in Nat /\ t \in Nat /\ t < w /\ n = w * q + t
    BY QuotientOf
  <1>2. p \in Nat /\ s \in Nat /\ s <= b - 1 /\ q = b * p + s
    BY <1>1, QuotientOf
  <1> HIDE DEF q, t, p, s
  <1>3. n = (b * w) * p + (w * s + t)
    <2>1. w * (b * p + s) = (b * w) * p + w * s
      BY <1>2
    <2> QED
      BY <1>1, <1>2, <2>1
  <1>4. w * s + t \in Nat /\ w * s + t < b * w /\ b * w \in Nat \ {0}
    <2>1. w * s <= w * (b - 1)
      <3>1. \A x, y \in Nat : x <= y => w * x <= w * y
        OBVIOUS
      <3> QED
        BY <1>2, <3>1
    <2>2. w * (b - 1) = b * w - w /\ b * w \in Nat \ {0} /\ w * s \in Nat
      BY <1>2
    <2> QED
      BY <1>1, <2>1, <2>2
  <1>5. n \div (b * w) = p
    <2> DEFINE d == b * w
               r == w * s + t
    <2>1. d \in Nat \ {0} /\ r \in Nat /\ r < d /\ n = d * p + r
      BY <1>3, <1>4
    <2> HIDE DEF d, r
    <2>2. n \div d = p
      BY <1>2, <2>1, QuotientIs
    <2> QED
      BY <2>2 DEF d
  <1> QED
    BY <1>5 DEF p, q


\* What is left of a number when its last k digits are cut off.
LEMMA CutOff ==
    ASSUME NEW b \in Nat, b >= 2, NEW w, PowersOf(w, b), NEW n \in Nat, NEW k \in Nat
    PROVE  /\ n \div w[k] \in Nat /\ n \div w[k + 1] \in Nat
           /\ n \div w[k + 1] = (n \div w[k]) \div b
           /\ n \div w[k] = (n \div w[k + 1]) * b + ((n \div w[k]) % b)
  <1>1. w[k] \in Nat \ {0} /\ w[k + 1] = b * w[k] /\ b \in Nat \ {0}
    <2>1. w[k] \in Nat /\ w[k] > 0
      BY PowersGrow
    <2> QED
      BY <2>1 DEF PowersOf
  <1>2. n \div w[k + 1] = (n \div w[k]) \div b
    BY <1>1, QuotientTwice
  <1> DEFINE q == n \div w[k]
  <1>3. q \in Nat
    BY <1>1, QuotientOf
  <1> HIDE DEF q
  <1>4. q = b * (q \div b) + (q % b) /\ q \div b \in Nat
    BY <1>1, <1>3, QuotientOf
  <1>5. b * (q \div b) = (q \div b) * b
    BY <1>1, <1>4
  <1> QED
    BY <1>2, <1>3, <1>4, <1>5 DEF q

\* The number that digits in a base stand for, most significant digit first.
Numeral(b, digits) == FoldLeft(LAMBDA n, digit : n * b + digit, 0, digits)

\* It is computed digit by digit.
Reads(v, b, digits) ==
    /\ v \in [0 .. Len(digits) -> Nat] /\ v[0] = 0
    /\ \A k \in 1 .. Len(digits) : v[k] = v[k - 1] * b + digits[k]

\* A number is read from its first digit to the last.
LEMMA NumeralByDigit ==
    ASSUME NEW b \in Nat, NEW digits \in Seq(Nat)
    PROVE  \E v : Reads(v, b, digits) /\ Numeral(b, digits) = v[Len(digits)]
  <1> DEFINE n == Len(digits)
             step == [p \in (1 .. n) \X Nat |-> p[2] * b + digits[p[1]]]
             Equation(fold) == fold = [S \in SUBSET (1 .. n) |->
                 IF S = {} THEN 0 ELSE fold[S \ {Max(S)}] * b + digits[Max(S)]]
  <1>1. n \in Nat /\ DOMAIN digits = 1 .. n /\ \A i \in 1 .. n : digits[i] \in Nat
    OBVIOUS
  <1>2. ASSUME NEW i \in 1 .. n, NEW v \in Nat
        PROVE  step[<<i, v>>] = v * b + digits[i] /\ step[<<i, v>>] \in Nat
    BY <1>1
  <1>3. PICK fold \in [SUBSET (1 .. n) -> Nat] : FoldsLeft(fold, n, 0, step)
    <2> HIDE DEF step, n
    <2> QED
      BY <1>1, <1>2, FoldExists
  <1>4. Equation(fold)
    <2> DEFINE again == [S \in SUBSET (1 .. n) |->
                 IF S = {} THEN 0 ELSE fold[S \ {Max(S)}] * b + digits[Max(S)]]
    <2>1. ASSUME NEW S \in SUBSET (1 .. n) PROVE fold[S] = again[S]
      <3>1. CASE S = {}
        BY <1>3, <3>1 DEF FoldsLeft
      <3>2. CASE S # {}
        <4>1. Max(S) \in 1 .. n /\ S \ {Max(S)} \in SUBSET (1 .. n)
          BY <1>1, <3>2, MaxIsLargest
        <4>2. fold[S] = step[<<Max(S), fold[S \ {Max(S)}]>>]
          BY <1>3, <3>2 DEF FoldsLeft
        <4>3. fold[S \ {Max(S)}] \in Nat
          BY <4>1
        <4> HIDE DEF step
        <4> QED
          BY <1>2, <3>2, <4>1, <4>2, <4>3
      <3> QED
        BY <3>1, <3>2
    <2>2. fold = again
      BY <1>3, <2>1
    <2> QED
      BY <2>2
  <1> DEFINE g == CHOOSE f : Equation(f)
  <1>5. Equation(g)
    BY <1>4
  <1>6. Numeral(b, digits) = g[1 .. n]
    BY <1>1 DEF Numeral, FoldLeft, MapThenFoldSet
  <1>7. g[1 .. 0] = 0 /\ \A k \in 1 .. n : g[1 .. k] = g[1 .. k - 1] * b + digits[k]
    <2>1. 1 .. 0 = {} /\ {} \in SUBSET (1 .. n)
      OBVIOUS
    <2>2. g[{}] = 0
      BY <1>5, <2>1
    <2>3. ASSUME NEW k \in 1 .. n
          PROVE  g[1 .. k] = g[1 .. k - 1] * b + digits[k]
      <3>1. 1 .. k \in SUBSET (1 .. n) /\ 1 .. k # {} /\ Max(1 .. k) = k /\ (1 .. k) \ {k} = 1 .. k - 1
        BY <1>1, FirstOnes
      <3>2. g[1 .. k] = g[(1 .. k) \ {Max(1 .. k)}] * b + digits[Max(1 .. k)]
        BY <1>5, <3>1
      <3> QED
        BY <3>1, <3>2
    <2> QED
      BY <2>1, <2>2, <2>3
  <1> DEFINE v == [k \in 0 .. n |-> g[1 .. k]]
             Good == {k \in Nat : k <= n => g[1 .. k] \in Nat}
  <1> HIDE DEF g
  <1>8. 0 \in Good /\ \A k \in Nat : k \in Good => k + 1 \in Good
    <2>1. 0 \in Good
      BY <1>7
    <2>2. ASSUME NEW k \in Nat, k \in Good, k + 1 <= n PROVE g[1 .. k + 1] \in Nat
      <3>1. g[1 .. k + 1] = g[1 .. k] * b + digits[k + 1]
        <4>1. k + 1 \in 1 .. n /\ (k + 1) - 1 = k
          BY ONLY <1>1, <2>2, k \in Nat
        <4> QED
          BY <1>7, <4>1
      <3>2. g[1 .. k] \in Nat /\ digits[k + 1] \in Nat
        BY <1>1, <2>2
      <3>3. \A x, y \in Nat : x * b + y \in Nat
        OBVIOUS
      <3> QED
        BY <3>1, <3>2, <3>3
    <2> QED
      BY <2>1, <2>2
  <1>9. Nat \subseteq Good
    <2> HIDE DEF Good
    <2> QED
      BY <1>8, NatSetInduction
  <1>10. Reads(v, b, digits)
    <2>1. \A k \in 0 .. n : v[k] = g[1 .. k] /\ v[k] \in Nat
      BY <1>1, <1>9
    <2>2. \A k \in 1 .. n : k - 1 \in 0 .. n /\ k \in 0 .. n
      BY <1>1
    <2>3. v \in [0 .. n -> Nat]
      BY <2>1
    <2>4. v[0] = 0 /\ \A k \in 1 .. n : v[k] = v[k - 1] * b + digits[k]
      <3> HIDE DEF v, n
      <3>1. 0 \in 0 .. n
        BY <1>1
      <3>2. v[0] = 0
        BY <1>7, <2>1, <3>1
      <3>3. ASSUME NEW k \in 1 .. n PROVE v[k] = v[k - 1] * b + digits[k]
        <4>1. v[k] = g[1 .. k] /\ v[k - 1] = g[1 .. k - 1]
          BY <2>1, <2>2
        <4> QED
          BY <1>7, <4>1
      <3> QED
        BY <3>2, <3>3
    <2> QED
      BY <2>3, <2>4 DEF Reads
  <1> QED
    <2>1. v[n] = g[1 .. n]
      BY <1>1
    <2> QED
      BY <1>6, <1>10, <2>1

\* d holds the last Len(d) digits of n.
DigitsOf(d, n, b, w) == \A i \in 1 .. Len(d) : d[i] = (n \div w[Len(d) - i]) % b

\* Enough digits of a number, read back, are the number, however many zeros are in front.
LEMMA NumeralOfDigits ==
    ASSUME NEW b \in Nat, b >= 2, NEW w, PowersOf(w, b), NEW n \in Nat,
           NEW d \in Seq(Nat), n < w[Len(d)], DigitsOf(d, n, b, w)
    PROVE  Numeral(b, d) = n
  <1> DEFINE D == Len(d)
  <1>1. D \in Nat /\ \A i \in 1 .. D : d[i] = (n \div w[D - i]) % b
    BY DEF DigitsOf
  <1>2. n < w[D] /\ w[D] \in Nat
    BY <1>1, PowersGrow
  <1>3. PICK v : Reads(v, b, d) /\ Numeral(b, d) = v[D]
    BY NumeralByDigit
  <1>4. v[0] = 0 /\ \A k \in 1 .. D : v[k] = v[k - 1] * b + d[k]
    BY <1>3 DEF Reads
  <1> HIDE DEF D
  <1> DEFINE Good == {k \in Nat : k <= D => v[k] = n \div w[D - k]}
  <1>5. 0 \in Good
    <2>1. \A m \in Nat : n < m => n \div m = 0
      OBVIOUS
    <2>2. D - 0 = D
      BY <1>1
    <2> QED
      BY <1>2, <1>4, <2>1, <2>2
  <1>6. ASSUME NEW k \in Nat, k \in Good, k + 1 <= D PROVE v[k + 1] = n \div w[D - (k + 1)]
    <2> DEFINE j == D - (k + 1)
    <2>1. j \in Nat /\ j + 1 = D - k /\ k + 1 \in 1 .. D /\ (k + 1) - 1 = k
      BY <1>1, <1>6
    <2>2. v[k + 1] = v[k] * b + d[k + 1]
      BY <1>4, <2>1
    <2>3. d[k + 1] = (n \div w[j]) % b
      BY <1>1, <2>1
    <2>4. v[k] = n \div w[j + 1]
      BY <1>1, <1>6, <2>1
    <2> HIDE DEF j
    <2>5. n \div w[j] = (n \div w[j + 1]) * b + ((n \div w[j]) % b)
      BY <2>1, CutOff
    <2>6. v[k + 1] = n \div w[j]
      BY <2>2, <2>3, <2>4, <2>5
    <2> QED
      BY <2>6 DEF j
  <1>7. Nat \subseteq Good
    <2>1. \A k \in Nat : k \in Good => k + 1 \in Good
      BY <1>6
    <2> HIDE DEF Good
    <2> QED
      BY <1>5, <2>1, NatSetInduction
  <1>8. v[D] = n
    <2>1. v[D] = n \div w[0]
      BY <1>1, <1>7
    <2>2. n \div 1 = n
      OBVIOUS
    <2> QED
      BY <2>1, <2>2 DEF PowersOf
  <1> QED
    BY <1>3, <1>8

\* What digits stand for is below the power of their number, and they are its digits.
LEMMA DigitsOfNumeral ==
    ASSUME NEW b \in Nat, b >= 2, NEW w, PowersOf(w, b), NEW d \in Seq(0 .. b - 1)
    PROVE  Numeral(b, d) \in Nat /\ Numeral(b, d) < w[Len(d)] /\ DigitsOf(d, Numeral(b, d), b, w)
  <1> DEFINE D == Len(d)
  <1>1. D \in Nat /\ d \in Seq(Nat) /\ \A i \in 1 .. D : d[i] \in Nat /\ d[i] < b
    OBVIOUS
  <1>2. PICK v : Reads(v, b, d) /\ Numeral(b, d) = v[D]
    BY <1>1, NumeralByDigit
  <1>3. v[0] = 0 /\ \A k \in 0 .. D : v[k] \in Nat
    BY <1>2 DEF Reads
  <1>4. \A k \in 1 .. D : v[k] = v[k - 1] * b + d[k]
    BY <1>2 DEF Reads
  <1> HIDE DEF D
  <1> DEFINE Below == {k \in Nat : k <= D => v[k] < w[k]}
  <1>5. Nat \subseteq Below
    <2>1. 0 \in Below
      <3>1. w[0] = 1
        BY DEF PowersOf
      <3> QED
        BY <1>3, <3>1
    <2>2. ASSUME NEW k \in Nat, k \in Below, k + 1 <= D PROVE v[k + 1] < w[k + 1]
      <3>1. k + 1 \in 1 .. D /\ (k + 1) - 1 = k /\ k \in 0 .. D
        BY <1>1, <2>2
      <3>2. v[k + 1] = v[k] * b + d[k + 1] /\ d[k + 1] \in Nat /\ d[k + 1] < b /\ v[k] \in Nat
        BY <1>1, <1>3, <1>4, <3>1
      <3>3. v[k] < w[k] /\ w[k] \in Nat /\ w[k + 1] = b * w[k]
        <4>1. w[k] \in Nat /\ w[k + 1] = b * w[k]
          BY DEF PowersOf
        <4> QED
          BY <1>1, <2>2, <4>1
      <3>4. \A x, y, z \in Nat : x < y /\ z < b => x * b + z < b * y
        <4> SUFFICES ASSUME NEW x \in Nat, NEW y \in Nat, NEW z \in Nat, x < y, z < b
                     PROVE  x * b + z < b * y
          OBVIOUS
        <4>1. (x + 1) * b <= y * b
          <5>1. x + 1 <= y
            OBVIOUS
          <5>2. \A p, q \in Nat : p <= q => p * b <= q * b
            OBVIOUS
          <5> QED
            BY <5>1, <5>2
        <4>2. (x + 1) * b = x * b + b /\ y * b = b * y /\ x * b \in Nat /\ b * y \in Nat
          OBVIOUS
        <4> QED
          BY <4>1, <4>2
      <3> QED
        BY <3>2, <3>3, <3>4
    <2>3. \A k \in Nat : k \in Below => k + 1 \in Below
      BY <2>2
    <2> HIDE DEF Below
    <2> QED
      BY <2>1, <2>3, NatSetInduction
  <1> DEFINE n == v[D]
             Good == {k \in Nat : k <= D => n \div w[k] = v[D - k]}
  <1>6. n \in Nat /\ n < w[D]
    BY <1>1, <1>3, <1>5
  <1> HIDE DEF n
  <1>7. Nat \subseteq Good
    <2>1. 0 \in Good
      <3>1. n \div 1 = n /\ D - 0 = D
        BY <1>1, <1>6
      <3> QED
        BY <3>1 DEF n, PowersOf
    <2>2. ASSUME NEW k \in Nat, k \in Good, k + 1 <= D PROVE n \div w[k + 1] = v[D - (k + 1)]
      <3> DEFINE j == D - (k + 1)
      <3>1. j \in Nat /\ j + 1 = D - k /\ j + 1 \in 1 .. D /\ j \in 0 .. D /\ (j + 1) - 1 = j
        BY <1>1, <2>2
      <3>2. n \div w[k + 1] = v[j + 1] \div b
        <4>1. n \div w[k + 1] = (n \div w[k]) \div b
          BY <1>6, CutOff
        <4>2. n \div w[k] = v[j + 1]
          BY <1>1, <2>2, <3>1
        <4> QED
          BY <4>1, <4>2
      <3>3. v[j + 1] = v[j] * b + d[j + 1] /\ v[j] \in Nat /\ d[j + 1] \in Nat /\ d[j + 1] < b
        BY <1>1, <1>3, <1>4, <3>1
      <3> HIDE DEF j
      <3>4. v[j + 1] \div b = v[j]
        <4>1. b * v[j] + d[j + 1] = v[j + 1] /\ b \in Nat \ {0}
          BY <3>3
        <4>2. (b * v[j] + d[j + 1]) \div b = v[j]
          BY ONLY <3>3, <4>1, QuotientIs
        <4> QED
          BY ONLY <4>1, <4>2, Zenon
      <3> QED
        BY <3>2, <3>4 DEF j
    <2>3. \A k \in Nat : k \in Good => k + 1 \in Good
      BY <2>2
    <2> HIDE DEF Good
    <2> QED
      BY <2>1, <2>3, NatSetInduction
  <1>8. ASSUME NEW i \in 1 .. D PROVE d[i] = (n \div w[D - i]) % b
    <2>1. D - i \in Nat /\ D - i <= D /\ D - (D - i) = i /\ i - 1 \in 0 .. D
      BY <1>1
    <2>2. n \div w[D - i] = v[i]
      BY <1>7, <2>1
    <2>3. v[i] = b * v[i - 1] + d[i] /\ v[i - 1] \in Nat /\ d[i] \in Nat /\ d[i] < b /\ b \in Nat \ {0}
      <3>1. v[i] = v[i - 1] * b + d[i] /\ v[i - 1] \in Nat
        BY <1>3, <1>4, <2>1
      <3>2. d[i] \in Nat /\ d[i] < b
        BY <1>1
      <3>3. v[i - 1] * b = b * v[i - 1]
        BY <3>1
      <3> QED
        BY <3>1, <3>2, <3>3
    <2>4. v[i] % b = d[i]
      <3>1. (b * v[i - 1] + d[i]) % b = d[i]
        BY <2>3, QuotientIs
      <3> QED
        BY <2>3, <3>1
    <2> QED
      BY <2>2, <2>4
  <1> QED
    BY <1>2, <1>6, <1>8 DEF n, D, DigitsOf

-----------------------------------------------------------------------------
(* Sequences of sequences *)

\* What a sequence over a set holds is in the set.
LEMMA Elements == \A S : \A s \in Seq(S) : \A i \in 1 .. Len(s) : s[i] \in S
  OBVIOUS

\* A sequence of sequences laid end to end, piece by piece.
Joins(g, seqs) ==
    g[1] = seqs[1] /\ \A k \in 2 .. Len(seqs) : g[k] = g[k - 1] \o seqs[k]

\* FlattenSeq lays its sequences end to end, one at a time.
LEMMA FlattenByPiece ==
    ASSUME NEW T, NEW seqs \in Seq(Seq(T)), Len(seqs) # 0
    PROVE  \E g : Joins(g, seqs) /\ FlattenSeq(seqs) = g[Len(seqs)]
  <1> DEFINE n == Len(seqs)
             D == 1 .. n
             step == [p \in D \X Seq(T) |-> p[2] \o seqs[p[1]]]
             Equation(f) == f = [i \in D |-> IF i = 1 THEN seqs[i] ELSE f[i - 1] \o seqs[i]]
  <1>1. n \in Nat \ {0}
    OBVIOUS
  <1>2. \A i \in D : seqs[i] \in Seq(T)
    BY Elements
  <1>3. ASSUME NEW i \in D, NEW v \in Seq(T) PROVE step[<<i, v>>] = v \o seqs[i] /\ step[<<i, v>>] \in Seq(T)
    <2>1. v \o seqs[i] \in Seq(T)
      OBVIOUS
    <2> QED
      BY <2>1
  <1>4. PICK f \in [D -> Seq(T)] : Counts(f, D, 1, seqs[1], step)
    <2>1. 1 \in D /\ D \subseteq Nat /\ \A i \in D : i >= 1 /\ (i # 1 => i - 1 \in D)
      BY <1>1
    <2>2. seqs[1] \in Seq(T)
      BY <1>2, <2>1
    <2> HIDE DEF D, step
    <2> QED
      BY <1>3, <2>1, <2>2, NatRecursion
  <1>5. Equation(f)
    <2> DEFINE again == [i \in D |-> IF i = 1 THEN seqs[i] ELSE f[i - 1] \o seqs[i]]
    <2>1. ASSUME NEW i \in D PROVE f[i] = again[i]
      <3>1. CASE i = 1
        BY <1>4, <3>1 DEF Counts
      <3>2. CASE i # 1
        <4>1. i - 1 \in D
          BY <1>1, <3>2
        <4>2. f[i - 1] \in Seq(T)
          BY <1>4, <4>1
        <4>3. f[i] = step[<<i, f[i - 1]>>]
          BY <1>4, <3>2 DEF Counts
        <4> HIDE DEF step
        <4> QED
          BY <1>3, <3>2, <4>2, <4>3
      <3> QED
        BY <3>1, <3>2
    <2>2. f = again
      BY <1>4, <2>1
    <2> QED
      BY <2>2
  <1> DEFINE g == CHOOSE h : Equation(h)
  <1>6. Equation(g)
    BY <1>5
  <1>7. FlattenSeq(seqs) = g[n]
    BY Zenon DEF FlattenSeq
  <1>8. g[1] = seqs[1] /\ \A k \in 2 .. n : g[k] = g[k - 1] \o seqs[k]
    <2>1. 1 \in D /\ \A k \in 2 .. n : k \in D /\ k # 1
      BY <1>1
    <2>2. g = [i \in D |-> IF i = 1 THEN seqs[i] ELSE g[i - 1] \o seqs[i]]
      BY <1>6
    <2> HIDE DEF g, D
    <2>3. g[1] = seqs[1]
      BY ONLY <2>1, <2>2
    <2>4. ASSUME NEW k \in 2 .. n PROVE g[k] = g[k - 1] \o seqs[k]
      <3>1. k \in D /\ k # 1
        BY ONLY <2>1, k \in 2 .. n
      <3> QED
        BY ONLY <2>2, <3>1
    <2> QED
      BY <2>3, <2>4
  <1> HIDE DEF g
  <1> QED
    BY <1>7, <1>8 DEF Joins

\* Sequences over a set, laid end to end, are a sequence over it.
LEMMA FlattenType ==
    ASSUME NEW T, NEW seqs \in Seq(Seq(T))
    PROVE  FlattenSeq(seqs) \in Seq(T)
  <1>1. CASE Len(seqs) = 0
    <2>1. FlattenSeq(seqs) = seqs /\ seqs = <<>>
      BY <1>1 DEF FlattenSeq
    <2> QED
      BY <2>1
  <1>2. CASE Len(seqs) # 0
    <2> DEFINE n == Len(seqs)
    <2>1. n \in Nat \ {0} /\ \A i \in 1 .. n : seqs[i] \in Seq(T)
      BY <1>2, Elements
    <2>2. PICK g : Joins(g, seqs) /\ FlattenSeq(seqs) = g[n]
      BY <1>2, FlattenByPiece
    <2> HIDE DEF n
    <2> DEFINE Good == {k \in Nat : k + 1 <= n => g[k + 1] \in Seq(T)}
    <2>3. 0 \in Good
      BY <2>1, <2>2 DEF Joins
    <2>4. ASSUME NEW k \in Nat, k \in Good, k + 2 <= n PROVE g[k + 2] \in Seq(T)
      <3>1. k + 2 \in 2 .. n /\ k + 2 \in 1 .. n /\ (k + 2) - 1 = k + 1 /\ k + 1 <= n
        BY <2>1, <2>4
      <3>2. g[k + 2] = g[k + 1] \o seqs[k + 2]
        BY <2>2, <3>1 DEF Joins, n
      <3>3. g[k + 1] \in Seq(T) /\ seqs[k + 2] \in Seq(T)
        BY <2>1, <2>4, <3>1
      <3> QED
        BY <3>2, <3>3
    <2>5. Nat \subseteq Good
      <3>1. \A k \in Nat : k \in Good => k + 1 \in Good
        BY <2>1, <2>4
      <3> HIDE DEF Good
      <3> QED
        BY <2>3, <3>1, NatSetInduction
    <2>6. n - 1 \in Nat /\ (n - 1) + 1 = n /\ n <= n
      BY <2>1
    <2>7. n - 1 \in Good
      BY <2>5, <2>6
    <2> QED
      BY <2>2, <2>6, <2>7
  <1> QED
    BY <1>1, <1>2

\* One more sequence is laid behind the others.
LEMMA FlattenAppend ==
    ASSUME NEW T, NEW seqs \in Seq(Seq(T)), NEW x \in Seq(T)
    PROVE  FlattenSeq(Append(seqs, x)) = FlattenSeq(seqs) \o x
  <1> DEFINE n == Len(seqs)
             more == Append(seqs, x)
  <1>1. n \in Nat /\ more \in Seq(Seq(T)) /\ Len(more) = n + 1 /\ more[n + 1] = x
        /\ \A i \in 1 .. n : more[i] = seqs[i]
    OBVIOUS
  <1>2. PICK g : Joins(g, more) /\ FlattenSeq(more) = g[n + 1]
    <2>1. Len(more) # 0
      BY <1>1
    <2> HIDE DEF more, n
    <2> QED
      BY <1>1, <2>1, FlattenByPiece
  <1> HIDE DEF more
  <1>3. CASE n = 0
    <2>1. FlattenSeq(seqs) = seqs /\ seqs = <<>>
      BY <1>3 DEF FlattenSeq
    <2>2. FlattenSeq(more) = x
      BY <1>1, <1>2, <1>3 DEF Joins
    <2>3. <<>> \o x = x
      OBVIOUS
    <2> QED
      BY <2>1, <2>2, <2>3 DEF more
  <1>4. CASE n # 0
    <2>1. PICK h : Joins(h, seqs) /\ FlattenSeq(seqs) = h[n]
      BY <1>4, FlattenByPiece
    <2> HIDE DEF n
    <2> DEFINE Good == {k \in Nat : k + 1 <= n => g[k + 1] = h[k + 1]}
    <2>2. 0 \in Good
      BY <1>1, <1>2, <1>4, <2>1 DEF Joins
    <2>3. ASSUME NEW k \in Nat, k \in Good, k + 2 <= n PROVE g[k + 2] = h[k + 2]
      <3>1. k + 2 \in 2 .. n /\ k + 2 \in 1 .. n /\ k + 2 \in 2 .. n + 1 /\ (k + 2) - 1 = k + 1 /\ k + 1 <= n
        BY <1>1, <2>3
      <3>2. g[k + 2] = g[k + 1] \o more[k + 2]
        BY <1>1, <1>2, <3>1 DEF Joins
      <3>3. h[k + 2] = h[k + 1] \o seqs[k + 2]
        BY <2>1, <3>1 DEF Joins, n
      <3>4. g[k + 1] = h[k + 1]
        BY <2>3, <3>1
      <3> QED
        BY <1>1, <3>1, <3>2, <3>3, <3>4
    <2>4. Nat \subseteq Good
      <3>1. \A k \in Nat : k \in Good => k + 1 \in Good
        BY <1>1, <2>3
      <3> HIDE DEF Good
      <3> QED
        BY <2>2, <3>1, NatSetInduction
    <2>5. n - 1 \in Nat /\ (n - 1) + 1 = n /\ n <= n /\ n + 1 \in 2 .. n + 1 /\ (n + 1) - 1 = n
      BY <1>1, <1>4
    <2>6. n - 1 \in Good
      BY <2>4, <2>5
    <2>7. g[n] = h[n]
      BY <2>5, <2>6
    <2>8. g[n + 1] = g[n] \o more[n + 1]
      BY <1>1, <1>2, <2>5 DEF Joins
    <2> QED
      BY <1>1, <1>2, <2>1, <2>7, <2>8 DEF more
  <1> QED
    BY <1>3, <1>4

\* An item put before a sequence that another one is appended to.
BeforeAndBehind(x, p, s) == <<x>> \o Append(p, s) = Append(<<x>> \o p, s)
LEMMA ItemsBeforeAndBehind ==
    ASSUME NEW S, NEW p \in Seq(S), NEW x \in S, NEW s \in S
    PROVE  BeforeAndBehind(x, p, s) /\ <<x>> \o p \in Seq(S)
  BY DEF BeforeAndBehind

InARow(a, b, c) == (a \o b) \o c = a \o (b \o c)
LEMMA ThreeInARow ==
    ASSUME NEW S, NEW a \in Seq(S), NEW b \in Seq(S), NEW c \in Seq(S)
    PROVE  InARow(a, b, c)
  BY DEF InARow

\* One more sequence is laid before the others.
LEMMA FlattenBefore ==
    ASSUME NEW T, NEW seqs \in Seq(Seq(T)), NEW x \in Seq(T)
    PROVE  FlattenSeq(<<x>> \o seqs) = x \o FlattenSeq(seqs)
  <1> DEFINE n == Len(seqs)
             Good == {k \in Nat : k <= n =>
                         FlattenSeq(<<x>> \o SubSeq(seqs, 1, k)) = x \o FlattenSeq(SubSeq(seqs, 1, k))}
  <1>1. n \in Nat /\ \A k \in 0 .. n : SubSeq(seqs, 1, k) \in Seq(Seq(T))
    OBVIOUS
  <1>2. \A t \in Seq(Seq(T)) : FlattenSeq(t) \in Seq(T)
    BY FlattenType
  <1>3. 0 \in Good
    <2>1. SubSeq(seqs, 1, 0) = <<>> /\ <<x>> \o <<>> = Append(<<>>, x) /\ <<>> \in Seq(Seq(T))
      OBVIOUS
    <2>2. FlattenSeq(<<>>) = <<>>
      BY DEF FlattenSeq
    <2>3. FlattenSeq(Append(<<>>, x)) = FlattenSeq(<<>>) \o x
      BY ONLY <2>1, x \in Seq(T), FlattenAppend
    <2>4. <<>> \o x = x /\ x \o <<>> = x
      OBVIOUS
    <2>5. FlattenSeq(<<x>> \o <<>>) = x \o FlattenSeq(<<>>)
      BY ONLY <2>1, <2>2, <2>3, <2>4, Zenon
    <2> QED
      BY <2>1, <2>5, Zenon
  <1>4. ASSUME NEW k \in Nat, k \in Good, k + 1 <= n PROVE k + 1 \in Good
    <2> DEFINE p == SubSeq(seqs, 1, k)
               q == SubSeq(seqs, 1, k + 1)
               s == seqs[k + 1]
    <2>1. p \in Seq(Seq(T)) /\ s \in Seq(T) /\ k <= n /\ k + 1 \in 1 .. n
      BY <1>1, <1>4, Elements
    <2>2. q = Append(p, s)
      BY <1>1, <1>4
    <2>3. FlattenSeq(<<x>> \o p) = x \o FlattenSeq(p)
      BY <1>4, <2>1
    <2> HIDE DEF p, q, s
    <2>4. <<x>> \o Append(p, s) = Append(<<x>> \o p, s) /\ <<x>> \o p \in Seq(Seq(T))
      <3>1. BeforeAndBehind(x, p, s) /\ <<x>> \o p \in Seq(Seq(T))
        BY ONLY <2>1, x \in Seq(T), ItemsBeforeAndBehind, Zenon
      <3> QED
        BY ONLY <3>1, Zenon DEF BeforeAndBehind
    <2>5. FlattenSeq(Append(<<x>> \o p, s)) = FlattenSeq(<<x>> \o p) \o s
      BY ONLY <2>1, <2>4, FlattenAppend
    <2>6. FlattenSeq(Append(p, s)) = FlattenSeq(p) \o s
      BY ONLY <2>1, FlattenAppend
    <2>7. (x \o FlattenSeq(p)) \o s = x \o (FlattenSeq(p) \o s)
      <3>1. FlattenSeq(p) \in Seq(T)
        BY ONLY <1>2, <2>1, Zenon
      <3>2. InARow(x, FlattenSeq(p), s)
        BY ONLY <2>1, <3>1, x \in Seq(T), ThreeInARow, Zenon
      <3> QED
        BY ONLY <3>2, Zenon DEF InARow
    <2>8. FlattenSeq(<<x>> \o q) = x \o FlattenSeq(q)
      BY ONLY <2>2, <2>3, <2>4, <2>5, <2>6, <2>7, Zenon
    <2>9. k + 1 \in Nat
      OBVIOUS
    <2> QED
      BY ONLY <2>8, <2>9 DEF q
  <1>5. Nat \subseteq Good
    <2>1. \A k \in Nat : k \in Good => k + 1 \in Good
      <3>1. \A k \in Nat : ~(k + 1 <= n) => k + 1 \in Good
        BY <1>1
      <3> HIDE DEF Good
      <3> QED
        BY <1>4, <3>1
    <2> HIDE DEF Good
    <2> QED
      BY <1>3, <2>1, NatSetInduction
  <1>6. SubSeq(seqs, 1, n) = seqs /\ n <= n
    BY <1>1
  <1> QED
    BY <1>1, <1>5, <1>6

=============================================================================
