------------------------------ MODULE SumProofs ------------------------------
(***************************************************************************)
(* Sums, folds and lists of finite sets, and recursion. The sums and folds *)
(* of the community modules go over a set in an order that is not          *)
(* specified; these lemmas say what a sum adds up to, whatever the order:  *)
(* nothing over the empty set, an element more or less over a set with one *)
(* element more or less. A fold over a sequence is a run over its places   *)
(* from the first to the last; a finite set can be listed in any order     *)
(* that compares all its elements; a function that is defined from its own *)
(* values at smaller numbers is there, and is only one.                    *)
(*                                                                         *)
(* Induction goes by a smallest counterexample, a set of natural numbers   *)
(* having a least element.                                                 *)
(***************************************************************************)
EXTENDS Integers, Functions, FiniteSetsExt, FiniteSetTheorems, WellFoundedInduction, TLAPS

\* A set of natural numbers that has 0 and all successors has all.
LEMMA NatSetInduction ==
  ASSUME NEW P, 0 \in P, \A n \in Nat : n \in P => n + 1 \in P
  PROVE  Nat \subseteq P
<1> SUFFICES ASSUME Nat \ P # {} PROVE FALSE
  OBVIOUS
<1> DEFINE T == Nat \ P
<1>1. T \subseteq Nat /\ T # {}
  OBVIOUS
<1>2. PICK n \in T : \A m \in T : <<m, n>> \notin OpToRel(<, Nat)
  BY <1>1, NatLessThanWellFounded, WFMin
<1>3. n \in Nat /\ n # 0
  OBVIOUS
<1>4. n - 1 \in Nat /\ n - 1 < n
  BY <1>3
<1>5. n - 1 \in T => <<n - 1, n>> \in OpToRel(<, Nat)
  BY <1>3, <1>4 DEF OpToRel
<1>6. n - 1 \in P
  BY <1>2, <1>4, <1>5
<1>7. (n - 1) + 1 = n
  BY <1>3
<1> QED
  BY <1>4, <1>6, <1>7

\* What holds of the empty set, and of a set if it holds of the set less any
\* element, holds of every subset of a finite set.
LEMMA SubsetInduction ==
  ASSUME NEW S, IsFiniteSet(S), NEW P, {} \in P,
         \A s \in SUBSET S : s # {} /\ (\A x \in s : s \ {x} \in P) => s \in P
  PROVE  SUBSET S \subseteq P
<1> DEFINE Q == {n \in Nat : \A s \in SUBSET S : Cardinality(s) = n => s \in P}
<1>1. \A s \in SUBSET S : IsFiniteSet(s) /\ Cardinality(s) \in Nat
  BY FS_Subset, FS_CardinalityType
<1>2. 0 \in Q
  BY <1>1, FS_EmptySet
<1>3. ASSUME NEW n \in Nat, n \in Q PROVE n + 1 \in Q
  <2> SUFFICES ASSUME NEW s \in SUBSET S, Cardinality(s) = n + 1 PROVE s \in P
    OBVIOUS
  <2>1. s # {}
    BY FS_EmptySet
  <2>2. ASSUME NEW x \in s PROVE s \ {x} \in P
    <3>1. Cardinality(s \ {x}) = n
      BY <1>1, FS_RemoveElement
    <3> QED
      BY <1>3, <3>1
  <2> QED
    BY <2>1, <2>2
<1> HIDE DEF Q
<1>4. Nat \subseteq Q
  BY <1>2, <1>3, NatSetInduction
<1> QED
  BY <1>1, <1>4 DEF Q

-----------------------------------------------------------------------------
\* The element the sum takes next, and the sum of s from that of less.
TakenFrom(s) == CHOOSE x \in s : TRUE
AddsUp(f, g, s) == IF s = {} THEN 0 ELSE f[TakenFrom(s)] + g[s \ {TakenFrom(s)}]

AreSums(f, S, g) == g = [s \in SUBSET S |-> AddsUp(f, g, s)]

LEMMA TakenIsElement == ASSUME NEW s, s # {} PROVE TakenFrom(s) \in s
BY DEF TakenFrom

\* Sums are defined.
LEMMA SumsExist ==
  ASSUME NEW S, IsFiniteSet(S), NEW f, \A x \in S : f[x] \in Int
  PROVE  \E g : AreSums(f, S, g)
<1> DEFINE Upto(n) == {s \in SUBSET S : Cardinality(s) <= n}
           Sums(n, g) == g = [s \in Upto(n) |-> AddsUp(f, g, s)]
           Q == {n \in Nat : \E g : Sums(n, g)}
<1>1. \A s \in SUBSET S : IsFiniteSet(s) /\ Cardinality(s) \in Nat
  BY FS_Subset, FS_CardinalityType
<1>2. \A s \in SUBSET S : Cardinality(s) = 0 <=> s = {}
  BY <1>1, FS_EmptySet
<1>3. \A s \in SUBSET S : s # {} =>
        s \ {TakenFrom(s)} \in SUBSET S /\ Cardinality(s \ {TakenFrom(s)}) = Cardinality(s) - 1
  BY <1>1, TakenIsElement, FS_RemoveElement
<1>4. 0 \in Q
  <2> DEFINE g == [s \in Upto(0) |-> 0]
  <2>1. \A s \in Upto(0) : s = {}
    BY <1>1, <1>2
  <2>2. Sums(0, g)
    BY <2>1 DEF AddsUp
  <2> QED
    BY <2>2
<1>5. ASSUME NEW n \in Nat, n \in Q PROVE n + 1 \in Q
  <2>1. PICK g : Sums(n, g)
    BY <1>5
  <2> DEFINE h == [s \in Upto(n + 1) |-> AddsUp(f, g, s)]
  <2>2. \A s \in Upto(n) : h[s] = g[s] /\ s \in Upto(n + 1)
    BY <1>1, <2>1
  <2>3. \A s \in Upto(n + 1) : s # {} => s \ {TakenFrom(s)} \in Upto(n)
    BY <1>1, <1>3
  <2>4. \A s \in Upto(n + 1) : AddsUp(f, g, s) = AddsUp(f, h, s)
    <3> HIDE DEF h
    <3> QED BY <2>2, <2>3 DEF AddsUp
  <2>5. Sums(n + 1, h)
    BY <2>4
  <2>6. \E k : Sums(n + 1, k)
    <3> HIDE DEF h, Sums
    <3> QED BY <2>5
  <2>7. n + 1 \in Nat
    OBVIOUS
  <2> HIDE DEF Sums
  <2> QED
    BY <2>6, <2>7
<1> HIDE DEF Q
<1>6. Cardinality(S) \in Q
  BY <1>1, <1>4, <1>5, NatSetInduction
<1>7. PICK g : Sums(Cardinality(S), g)
  BY <1>6 DEF Q
<1>8. Upto(Cardinality(S)) = SUBSET S
  BY FS_Subset, FS_CardinalityType
<1> QED
  BY <1>7, <1>8 DEF AreSums

\* The sums over the subsets of S.
SumsOf(f, S) == CHOOSE g : AreSums(f, S, g)

LEMMA SumIsOfSums ==
  ASSUME NEW f, NEW S
  PROVE  SumFunctionOnSet(f, S) = SumsOf(f, S)[S]
BY DEF SumFunctionOnSet, FoldFunctionOnSet, MapThenFoldSet, SumsOf, AreSums, AddsUp, TakenFrom

LEMMA SumsAdd ==
  ASSUME NEW S, IsFiniteSet(S), NEW f, \A x \in S : f[x] \in Int
  PROVE  \A s \in SUBSET S : SumsOf(f, S)[s] = AddsUp(f, SumsOf(f, S), s)
<1> DEFINE g == SumsOf(f, S)
<1>1. AreSums(f, S, g)
  BY SumsExist DEF SumsOf
<1> HIDE DEF g
<1>2. \A s \in SUBSET S : g[s] = AddsUp(f, g, s)
  BY <1>1 DEF AreSums
<1> QED
  BY <1>2 DEF g
LEMMA SumsAreInt ==
  ASSUME NEW S, IsFiniteSet(S), NEW f, \A x \in S : f[x] \in Int
  PROVE  \A s \in SUBSET S : SumsOf(f, S)[s] \in Int
<1> DEFINE g == SumsOf(f, S)
           P == {s \in SUBSET S : g[s] \in Int}
<1>1. \A s \in SUBSET S : g[s] = AddsUp(f, g, s)
  BY SumsAdd
<1> HIDE DEF g
<1>2. {} \in P
  <2>1. g[{}] = AddsUp(f, g, {}) /\ AddsUp(f, g, {}) = 0
    BY <1>1 DEF AddsUp
  <2> QED
    BY <2>1
<1>3. ASSUME NEW s \in SUBSET S, s # {}, \A x \in s : s \ {x} \in P PROVE s \in P
  <2> DEFINE c == TakenFrom(s)
  <2>1. c \in s /\ g[s] = f[c] + g[s \ {c}]
    BY <1>1, <1>3, TakenIsElement DEF AddsUp
  <2> HIDE DEF c
  <2>2. f[c] \in Int /\ g[s \ {c}] \in Int
    BY <1>3, <2>1
  <2> QED
    BY <2>1, <2>2
<1> HIDE DEF P
<1>4. SUBSET S \subseteq P
  BY <1>2, <1>3, SubsetInduction
<1> QED
  BY <1>4 DEF P, g

\* Any element may be taken next.
LEMMA SumsAddAny ==
  ASSUME NEW S, IsFiniteSet(S), NEW f, \A x \in S : f[x] \in Int
  PROVE  \A s \in SUBSET S : \A x \in s :
           SumsOf(f, S)[s] = f[x] + SumsOf(f, S)[s \ {x}]
<1> DEFINE g == SumsOf(f, S)
           P == {s \in SUBSET S : \A x \in s : g[s] = f[x] + g[s \ {x}]}
<1>1. \A s \in SUBSET S : g[s] = AddsUp(f, g, s) /\ g[s] \in Int
  BY SumsAdd, SumsAreInt
<1> HIDE DEF g
<1>2. {} \in P
  OBVIOUS
<1>3. ASSUME NEW s \in SUBSET S, s # {}, \A x \in s : s \ {x} \in P PROVE s \in P
  <2> SUFFICES ASSUME NEW x \in s PROVE g[s] = f[x] + g[s \ {x}]
    OBVIOUS
  <2> DEFINE c == TakenFrom(s)
  <2>1. c \in s /\ g[s] = f[c] + g[s \ {c}]
    BY <1>1, <1>3, TakenIsElement DEF AddsUp
  <2> HIDE DEF c
  <2>2. CASE x = c
    BY <2>1, <2>2
  <2>3. CASE x # c
    <3>1. g[s \ {c}] = f[x] + g[(s \ {c}) \ {x}]
      BY <1>3, <2>1, <2>3
    <3>2. g[s \ {x}] = f[c] + g[(s \ {x}) \ {c}]
      BY <1>3, <2>1, <2>3
    <3>3. (s \ {c}) \ {x} = (s \ {x}) \ {c}
      OBVIOUS
    <3> DEFINE rest == (s \ {x}) \ {c}
    <3>4. f[x] \in Int /\ f[c] \in Int /\ g[rest] \in Int
      BY <1>1, <2>1
    <3>5. g[s] = f[c] + (f[x] + g[rest]) /\ g[s \ {x}] = f[c] + g[rest]
      BY <2>1, <3>1, <3>2, <3>3
    <3> HIDE DEF rest
    <3> QED
      BY <3>4, <3>5
  <2> QED
    BY <2>2, <2>3
<1> HIDE DEF P
<1>4. SUBSET S \subseteq P
  BY <1>2, <1>3, SubsetInduction
<1> QED
  BY <1>4 DEF P, g

\* Only the values on the set itself count.
LEMMA SumsAgree ==
  ASSUME NEW S, IsFiniteSet(S), NEW T \in SUBSET S, NEW f, NEW h,
         \A x \in S : f[x] \in Int, \A x \in T : h[x] = f[x]
  PROVE  SumsOf(f, S)[T] = SumsOf(h, T)[T]
<1> DEFINE g == SumsOf(f, S)
           k == SumsOf(h, T)
           P == {s \in SUBSET T : g[s] = k[s]}
<1>1. \A s \in SUBSET S : g[s] = AddsUp(f, g, s)
  BY SumsAdd
<1>2. IsFiniteSet(T) /\ \A x \in T : h[x] \in Int
  BY FS_Subset
<1>3. \A s \in SUBSET T : k[s] = AddsUp(h, k, s)
  BY <1>2, SumsAdd
<1> HIDE DEF g, k
<1>4. {} \in P
  BY <1>1, <1>3 DEF AddsUp
<1>5. ASSUME NEW s \in SUBSET T, s # {}, \A x \in s : s \ {x} \in P PROVE s \in P
  <2>1. TakenFrom(s) \in s /\ s \in SUBSET S
    BY <1>5, TakenIsElement
  <2>2. g[s] = f[TakenFrom(s)] + g[s \ {TakenFrom(s)}] /\ k[s] = h[TakenFrom(s)] + k[s \ {TakenFrom(s)}]
    BY <1>1, <1>3, <1>5, <2>1 DEF AddsUp
  <2> QED
    BY <1>5, <2>1, <2>2
<1> HIDE DEF P
<1>6. SUBSET T \subseteq P
  BY <1>2, <1>4, <1>5, SubsetInduction
<1> QED
  BY <1>6 DEF P, g, k

-----------------------------------------------------------------------------
(* What other proofs use *)

LEMMA SumOfNone == ASSUME NEW f PROVE SumFunctionOnSet(f, {}) = 0
<1>1. IsFiniteSet({}) /\ {} \in SUBSET {}
  BY FS_EmptySet
<1>2. SumsOf(f, {})[{}] = AddsUp(f, SumsOf(f, {}), {})
  BY <1>1, SumsAdd
<1> QED
  BY <1>2, SumIsOfSums DEF AddsUp

LEMMA SumIsInt ==
  ASSUME NEW S, IsFiniteSet(S), NEW f, \A x \in S : f[x] \in Int
  PROVE  SumFunctionOnSet(f, S) \in Int
BY SumIsOfSums, SumsAreInt

\* Functions with the same values on a set have the same sum over it.
LEMMA SumIsSame ==
  ASSUME NEW S, IsFiniteSet(S), NEW f, NEW h,
         \A x \in S : f[x] \in Int /\ h[x] = f[x]
  PROVE  SumFunctionOnSet(f, S) = SumFunctionOnSet(h, S)
BY SumIsOfSums, SumsAgree

\* The sum over a set is an element, and the sum over the rest.
LEMMA SumOfRest ==
  ASSUME NEW S, IsFiniteSet(S), NEW f, \A x \in S : f[x] \in Int, NEW y \in S
  PROVE  SumFunctionOnSet(f, S) = f[y] + SumFunctionOnSet(f, S \ {y})
<1>1. SumsOf(f, S)[S] = f[y] + SumsOf(f, S)[S \ {y}]
  BY SumsAddAny
<1>2. SumsOf(f, S)[S \ {y}] = SumsOf(f, S \ {y})[S \ {y}]
  BY SumsAgree
<1> QED
  BY <1>1, <1>2, SumIsOfSums

\* The sum over a set with one more element
LEMMA SumOfMore ==
  ASSUME NEW S, IsFiniteSet(S), NEW f, NEW y, y \notin S,
         f[y] \in Int, \A x \in S : f[x] \in Int
  PROVE  SumFunctionOnSet(f, S \cup {y}) = f[y] + SumFunctionOnSet(f, S)
<1> DEFINE T == S \cup {y}
<1>1. /\ IsFiniteSet(T) /\ y \in T /\ T \ {y} = S
      /\ \A x \in T : f[x] \in Int
  BY FS_AddElement
<1> HIDE DEF T
<1>2. SumFunctionOnSet(f, T) = f[y] + SumFunctionOnSet(f, T \ {y})
  BY <1>1, SumOfRest
<1> QED
  BY <1>1, <1>2 DEF T

\* One value changes, and the sum with it.
LEMMA SumMoves ==
  ASSUME NEW S, IsFiniteSet(S), NEW f, NEW h, NEW y \in S,
         \A x \in S : f[x] \in Int /\ h[x] \in Int,
         \A x \in S : x # y => h[x] = f[x]
  PROVE  SumFunctionOnSet(h, S) = SumFunctionOnSet(f, S) - f[y] + h[y]
<1> DEFINE T == S \ {y}
<1>1. /\ SumFunctionOnSet(h, S) = h[y] + SumFunctionOnSet(h, T)
      /\ SumFunctionOnSet(f, S) = f[y] + SumFunctionOnSet(f, T)
  BY SumOfRest
<1>2. IsFiniteSet(T) /\ \A x \in T : f[x] \in Int /\ h[x] = f[x]
  BY FS_RemoveElement
<1> HIDE DEF T
<1>3. SumFunctionOnSet(f, T) = SumFunctionOnSet(h, T) /\ SumFunctionOnSet(f, T) \in Int
  BY <1>2, SumIsSame, SumIsInt
<1> QED
  BY <1>1, <1>3

\* f and h are functions of the same integers on D, but for the value at n,
\* which is q more in h ...
MovesAt(D, S, f, h, n, q) ==
  /\ IsFiniteSet(D) /\ S \subseteq D /\ n \in D /\ q \in Int
  /\ \A i \in D : f[i] \in Int
  /\ \A i \in D : i # n => h[i] = f[i]
  /\ h[n] = f[n] + q

\* ... and so is the sum over a set S that holds n.
LEMMA SumMovesBy ==
  ASSUME NEW D, NEW S, NEW f, NEW h, NEW n, NEW q, MovesAt(D, S, f, h, n, q)
  PROVE  SumFunctionOnSet(h, S) = SumFunctionOnSet(f, S) + (IF n \in S THEN q ELSE 0)
<1>1. IsFiniteSet(S)
  BY FS_Subset DEF MovesAt
<1>2. \A i \in S : f[i] \in Int /\ h[i] \in Int
  BY DEF MovesAt
<1>3. SumFunctionOnSet(f, S) \in Int
  BY <1>1, <1>2, SumIsInt
<1>4. CASE n \in S
  <2>1. SumFunctionOnSet(h, S) = SumFunctionOnSet(f, S) - f[n] + h[n]
    <3>1. \A i \in S : i # n => h[i] = f[i]
      BY DEF MovesAt
    <3> QED
      BY <1>1, <1>2, <1>4, <3>1, SumMoves
  <2> QED
    BY <1>2, <1>3, <1>4, <2>1 DEF MovesAt
<1>5. CASE n \notin S
  <2>1. \A i \in S : f[i] \in Int /\ h[i] = f[i]
    BY <1>5 DEF MovesAt
  <2>2. SumFunctionOnSet(f, S) = SumFunctionOnSet(h, S)
    BY <1>1, <2>1, SumIsSame
  <2> QED
    BY <1>3, <1>5, <2>2
<1> QED
  BY <1>4, <1>5

\* Sums keep the order.
LEMMA SumKeepsOrder ==
  ASSUME NEW S, IsFiniteSet(S), NEW f, NEW h,
         \A x \in S : f[x] \in Int /\ h[x] \in Int /\ f[x] <= h[x]
  PROVE  SumFunctionOnSet(f, S) <= SumFunctionOnSet(h, S)
<1> DEFINE P == {s \in SUBSET S : SumFunctionOnSet(f, s) <= SumFunctionOnSet(h, s)}
<1>1. {} \in P
  BY SumOfNone
<1>2. ASSUME NEW s \in SUBSET S, s # {}, \A x \in s : s \ {x} \in P PROVE s \in P
  <2>1. PICK y \in s : TRUE
    BY <1>2
  <2>2. IsFiniteSet(s) /\ IsFiniteSet(s \ {y})
    BY FS_Subset
  <2>3. /\ SumFunctionOnSet(f, s) = f[y] + SumFunctionOnSet(f, s \ {y})
        /\ SumFunctionOnSet(h, s) = h[y] + SumFunctionOnSet(h, s \ {y})
    BY <2>2, SumOfRest
  <2>4. /\ SumFunctionOnSet(f, s \ {y}) \in Int
        /\ SumFunctionOnSet(h, s \ {y}) \in Int
    BY <2>2, SumIsInt
  <2>5. SumFunctionOnSet(f, s \ {y}) <= SumFunctionOnSet(h, s \ {y})
    BY <1>2
  <2> QED
    BY <2>3, <2>4, <2>5
<1> HIDE DEF P
<1>3. SUBSET S \subseteq P
  BY <1>1, <1>2, SubsetInduction
<1> QED
  BY <1>3 DEF P

LEMMA SumIsNat ==
  ASSUME NEW S, IsFiniteSet(S), NEW f, \A x \in S : f[x] \in Nat
  PROVE  SumFunctionOnSet(f, S) \in Nat
<1> DEFINE P == {s \in SUBSET S : SumFunctionOnSet(f, s) \in Nat}
<1>1. {} \in P
  BY SumOfNone
<1>2. ASSUME NEW s \in SUBSET S, s # {}, \A x \in s : s \ {x} \in P PROVE s \in P
  <2>1. PICK y \in s : TRUE
    BY <1>2
  <2>2. IsFiniteSet(s) /\ \A x \in s : f[x] \in Int
    BY FS_Subset
  <2>3. SumFunctionOnSet(f, s) = f[y] + SumFunctionOnSet(f, s \ {y})
    BY <2>2, SumOfRest
  <2> QED
    BY <1>2, <2>3
<1> HIDE DEF P
<1>3. SUBSET S \subseteq P
  BY <1>1, <1>2, SubsetInduction
<1> QED
  BY <1>3 DEF P

LEMMA SumIsZero ==
  ASSUME NEW S, IsFiniteSet(S), NEW f, \A x \in S : f[x] = 0
  PROVE  SumFunctionOnSet(f, S) = 0
<1> DEFINE P == {s \in SUBSET S : SumFunctionOnSet(f, s) = 0}
<1>1. {} \in P
  BY SumOfNone
<1>2. ASSUME NEW s \in SUBSET S, s # {}, \A x \in s : s \ {x} \in P PROVE s \in P
  <2>1. PICK y \in s : TRUE
    BY <1>2
  <2>2. IsFiniteSet(s) /\ \A x \in s : f[x] \in Int
    BY FS_Subset
  <2>3. SumFunctionOnSet(f, s) = f[y] + SumFunctionOnSet(f, s \ {y})
    BY <2>2, SumOfRest
  <2> QED
    BY <1>2, <2>3
<1> HIDE DEF P
<1>3. SUBSET S \subseteq P
  BY <1>1, <1>2, SubsetInduction
<1> QED
  BY <1>3 DEF P

\* The same of the sum of all values of a function
LEMMA SumOfFunction ==
  ASSUME NEW S, IsFiniteSet(S), NEW f \in [S -> Int]
  PROVE  /\ SumFunction(f) \in Int
         /\ SumFunction(f) = SumFunctionOnSet(f, S)
BY SumIsInt DEF SumFunction

LEMMA SumOfFunctionMoves ==
  ASSUME NEW S, IsFiniteSet(S), NEW f, NEW h, f \in [S -> Int], h \in [S -> Int],
         NEW y \in S, \A x \in S : x # y => h[x] = f[x]
  PROVE  SumFunction(h) = SumFunction(f) - f[y] + h[y]
BY SumOfFunction, SumMoves

\* f and h are functions on S that differ at y only ...
ChangesAt(S, f, h, y) ==
  /\ IsFiniteSet(S) /\ y \in S
  /\ f \in [S -> Int] /\ h \in [S -> Int]
  /\ \A x \in S : x # y => h[x] = f[x]

\* ... and so do their sums.
LEMMA SumChangesBy ==
  ASSUME NEW S, NEW f, NEW h, NEW y, ChangesAt(S, f, h, y)
  PROVE  SumFunction(f) \in Int /\ SumFunction(h) = SumFunction(f) - f[y] + h[y]
<1>1. IsFiniteSet(S) /\ f \in [S -> Int] /\ h \in [S -> Int] /\ y \in S
  BY DEF ChangesAt
<1>2. \A x \in S : x # y => h[x] = f[x]
  BY DEF ChangesAt
<1> QED
  BY <1>1, <1>2, SumOfFunctionMoves, SumOfFunction

LEMMA SumOfZeros ==
  ASSUME NEW S, IsFiniteSet(S), NEW f \in [S -> Int], \A x \in S : f[x] = 0
  PROVE  SumFunction(f) = 0
BY SumOfFunction, SumIsZero
-----------------------------------------------------------------------------
(* Folds, and sets in order *)

\* The fold of f over the subsets of S, where pick says what is taken next.
AddsTo(f, base, pick, g, s) == IF s = {} THEN base ELSE f[<<pick[s], g[s \ {pick[s]}]>>]

CanFold(S, V, f, base, pick) ==
  /\ base \in V
  /\ \A s \in SUBSET S : s # {} => pick[s] \in s
  /\ \A x \in S, v \in V : f[<<x, v>>] \in V

IsFold(g, S, V, f, base, pick) ==
  /\ g \in [SUBSET S -> V]
  /\ \A s \in SUBSET S : g[s] = AddsTo(f, base, pick, g, s)

\* A fold is defined, and of the type of its operator.
LEMMA FoldIsDefined ==
  ASSUME NEW S, IsFiniteSet(S), NEW V, NEW base, NEW pick, NEW f,
         CanFold(S, V, f, base, pick)
  PROVE  \E g : IsFold(g, S, V, f, base, pick)
<1> DEFINE Upto(n) == {s \in SUBSET S : Cardinality(s) <= n}
           Folds(n, g) == /\ g \in [Upto(n) -> V]
                          /\ \A s \in Upto(n) : g[s] = AddsTo(f, base, pick, g, s)
           Q == {n \in Nat : \E g : Folds(n, g)}
<1> USE DEF CanFold
<1>1. \A s \in SUBSET S : IsFiniteSet(s) /\ Cardinality(s) \in Nat
  BY FS_Subset, FS_CardinalityType
<1>2. \A s \in SUBSET S : Cardinality(s) = 0 <=> s = {}
  BY <1>1, FS_EmptySet
<1>3. \A s \in SUBSET S : s # {} =>
        /\ s \ {pick[s]} \in SUBSET S
        /\ Cardinality(s \ {pick[s]}) = Cardinality(s) - 1
  BY <1>1, FS_RemoveElement
<1>4. 0 \in Q
  <2> DEFINE g == [s \in Upto(0) |-> base]
  <2>1. \A s \in Upto(0) : s = {}
    BY <1>1, <1>2
  <2>2. Folds(0, g)
    BY <2>1 DEF AddsTo
  <2> QED
    BY <2>2
<1>5. ASSUME NEW n \in Nat, n \in Q PROVE n + 1 \in Q
  <2>1. PICK g : Folds(n, g)
    BY <1>5
  <2> DEFINE h == [s \in Upto(n + 1) |-> AddsTo(f, base, pick, g, s)]
  <2>2. \A s \in Upto(n + 1) : s # {} => s \ {pick[s]} \in Upto(n) /\ pick[s] \in S
    BY <1>1, <1>3
  <2>3. \A s \in Upto(n) : h[s] = g[s] /\ s \in Upto(n + 1) /\ g[s] \in V
    BY <1>1, <2>1
  <2>4. \A s \in Upto(n + 1) : AddsTo(f, base, pick, g, s) = AddsTo(f, base, pick, h, s)
    <3> HIDE DEF h
    <3> QED BY <2>2, <2>3 DEF AddsTo
  <2>5. \A s \in Upto(n + 1) : AddsTo(f, base, pick, g, s) \in V
    BY <2>2, <2>3 DEF AddsTo
  <2>6. Folds(n + 1, h)
    BY <2>4, <2>5
  <2>7. \E k : Folds(n + 1, k)
    <3> HIDE DEF h, Folds
    <3> QED BY <2>6
  <2> HIDE DEF Folds
  <2> QED
    BY <2>7
<1> HIDE DEF Q
<1>6. Cardinality(S) \in Q
  BY <1>1, <1>4, <1>5, NatSetInduction
<1>7. PICK g : Folds(Cardinality(S), g)
  BY <1>6 DEF Q
<1>8. Upto(Cardinality(S)) = SUBSET S
  BY FS_Subset, FS_CardinalityType
<1> QED
  BY <1>7, <1>8 DEF IsFold

\* A relation that puts all elements of S in an order, some of them equal.
Orders(R, S) ==
  /\ \A x, y \in S : <<x, y>> \in R \/ <<y, x>> \in R
  /\ \A x, y, z \in S : <<x, y>> \in R /\ <<y, z>> \in R => <<x, z>> \in R

LEMMA LastExists ==
  ASSUME NEW S, IsFiniteSet(S), S # {}, NEW R, Orders(R, S)
  PROVE  \E x \in S : \A y \in S : <<y, x>> \in R
<1> DEFINE P == {s \in SUBSET S : s # {} => \E x \in s : \A y \in s : <<y, x>> \in R}
<1>1. {} \in P
  OBVIOUS
<1>2. ASSUME NEW s \in SUBSET S, s # {}, \A x \in s : s \ {x} \in P PROVE s \in P
  <2>1. PICK z \in s : TRUE
    BY <1>2
  <2>2. CASE s = {z}
    BY <2>2 DEF Orders
  <2>3. CASE s \ {z} # {}
    <3>1. PICK x \in s \ {z} : \A y \in s \ {z} : <<y, x>> \in R
      BY <1>2, <2>3
    <3>2. <<z, z>> \in R /\ (<<z, x>> \in R \/ <<x, z>> \in R)
      BY <3>1 DEF Orders
    <3>3. CASE <<z, x>> \in R
      BY <3>1, <3>3
    <3>4. CASE <<x, z>> \in R
      <4>1. \A y \in s : <<y, z>> \in R
        BY <3>1, <3>2, <3>4 DEF Orders
      <4> QED
        BY <4>1
    <3> QED
      BY <3>2, <3>3, <3>4
  <2> QED
    BY <2>1, <2>2, <2>3
<1> HIDE DEF P
<1>3. SUBSET S \subseteq P
  BY <1>1, <1>2, SubsetInduction
<1> QED
  BY <1>3 DEF P

\* q lists the elements of S once each, in the order of R.
Lists(q, S, R) ==
  /\ q \in [1..Cardinality(S) -> S]
  /\ \A i, j \in 1..Cardinality(S) : i # j => q[i] # q[j]
  /\ \A i, j \in 1..Cardinality(S) : i < j => <<q[i], q[j]>> \in R

LEMMA ListExists ==
  ASSUME NEW S, IsFiniteSet(S), NEW R, Orders(R, S)
  PROVE  \E q : Lists(q, S, R)
<1> DEFINE P == {s \in SUBSET S : \E q : Lists(q, s, R)}
<1>1. {} \in P
  <2>1. Cardinality({}) = 0
    BY FS_EmptySet
  <2>2. Lists([i \in 1..0 |-> 0], {}, R)
    BY <2>1 DEF Lists
  <2> QED
    BY <2>2
<1>2. ASSUME NEW s \in SUBSET S, s # {}, \A x \in s : s \ {x} \in P PROVE s \in P
  <2>1. IsFiniteSet(s) /\ Cardinality(s) \in Nat /\ Orders(R, s)
    BY FS_Subset, FS_CardinalityType DEF Orders
  <2>2. PICK x \in s : \A y \in s : <<y, x>> \in R
    BY <1>2, <2>1, LastExists
  <2> DEFINE t == s \ {x}
             n == Cardinality(s)
  <2>3. IsFiniteSet(t) /\ Cardinality(t) = n - 1 /\ n \in Nat \ {0}
    BY <1>2, <2>1, FS_RemoveElement, FS_EmptySet
  <2>4. PICK q : Lists(q, t, R)
    BY <1>2
  <2> DEFINE h == [i \in 1..n |-> IF i = n THEN x ELSE q[i]]
  <2> HIDE DEF n
  <2>a. q \in [1..(n - 1) -> t] /\ \A i, j \in 1..(n - 1) : i # j => q[i] # q[j]
    BY <2>3, <2>4 DEF Lists
  <2>b. \A i, j \in 1..(n - 1) : i < j => <<q[i], q[j]>> \in R
    BY <2>3, <2>4 DEF Lists
  <2>5. \A i \in 1..(n - 1) : q[i] \in t /\ h[i] = q[i] /\ q[i] # x
    BY <2>3, <2>a
  <2>6. h[n] = x /\ h \in [1..n -> s]
    BY <2>3, <2>5
  <2>c. \A i \in 1..n : i = n \/ i \in 1..(n - 1)
    BY <2>3
  <2> HIDE DEF h
  <2>7. \A i, j \in 1..n : i # j => h[i] # h[j]
    BY <2>a, <2>5, <2>6, <2>c
  <2>8. \A i, j \in 1..n : i < j => <<h[i], h[j]>> \in R
    <3> SUFFICES ASSUME NEW i \in 1..n, NEW j \in 1..n, i < j PROVE <<h[i], h[j]>> \in R
      OBVIOUS
    <3>1. i \in 1..(n - 1) /\ h[i] = q[i] /\ h[i] \in s
      BY <2>3, <2>5
    <3>2. CASE j = n
      BY <2>2, <2>6, <3>1, <3>2
    <3>3. CASE j # n
      <4>1. j \in 1..(n - 1) /\ h[j] = q[j]
        BY <2>3, <2>5, <3>3
      <4> QED
        BY <2>b, <3>1, <4>1
    <3> QED
      BY <3>2, <3>3
  <2>9. Lists(h, s, R)
    <3> HIDE DEF h
    <3> QED BY <2>6, <2>7, <2>8 DEF Lists, n
  <2>10. \E k : Lists(k, s, R)
    <3> HIDE DEF h
    <3> QED BY <2>9
  <2> QED
    BY <2>10
<1> HIDE DEF P
<1>3. SUBSET S \subseteq P
  BY <1>1, <1>2, SubsetInduction
<1> QED
  BY <1>3 DEF P

\* An injection from the numbers to the cardinality of a set reaches all of it.
LEMMA ListHasAll ==
  ASSUME NEW S, IsFiniteSet(S), NEW q \in [1..Cardinality(S) -> S],
         \A i, j \in 1..Cardinality(S) : i # j => q[i] # q[j]
  PROVE  \A x \in S : \E i \in 1..Cardinality(S) : q[i] = x
<1>1. Cardinality(S) \in Nat
  BY FS_CardinalityType
<1>2. q \in Injection(1..Cardinality(S), S)
  BY DEF Injection, IsInjective
<1>3. Cardinality(1..Cardinality(S)) = Cardinality(S)
  BY <1>1, FS_Interval
<1>4. q \in Surjection(1..Cardinality(S), S)
  BY <1>2, <1>3, FS_Injection
<1> QED
  BY <1>4 DEF Surjection

-----------------------------------------------------------------------------
(* Folds over a sequence, from its first element to its last: FoldLeft of   *)
(* the community modules is the fold over its domain that takes the largest *)
(* index last.                                                              *)

LEMMA MaxOfInterval ==
  ASSUME NEW n \in Nat, n # 0
  PROVE  Max(1..n) = n
<1>1. \E x \in 1..n : \A y \in 1..n : x >= y
  OBVIOUS
<1> QED
  BY <1>1 DEF Max

LEMMA MaxIsElement ==
  ASSUME NEW s, IsFiniteSet(s), s \subseteq Nat, s # {}
  PROVE  Max(s) \in s
<1> DEFINE R == {p \in Nat \X Nat : p[1] <= p[2]}
<1>1. \A x, y \in s : <<x, y>> \in R <=> x <= y
  OBVIOUS
<1> HIDE DEF R
<1>2. Orders(R, s)
  BY <1>1 DEF Orders
<1>3. PICK x \in s : \A y \in s : <<y, x>> \in R
  BY <1>2, LastExists
<1>4. \E z \in s : \A y \in s : z >= y
  BY <1>1, <1>3
<1> QED
  BY <1>4 DEF Max

LEMMA PrefixIsLess ==
  ASSUME NEW n \in Nat, NEW k \in 1..n
  PROVE  /\ 1..k \in SUBSET (1..n) /\ 1..k # {} /\ Max(1..k) = k
         /\ (1..k) \ {k} = 1..(k - 1)
<1>1. k \in Nat /\ k # 0 /\ k <= n
  OBVIOUS
<1>2. Max(1..k) = k
  BY <1>1, MaxOfInterval
<1>3. 1..k \in SUBSET (1..n) /\ k \in 1..k /\ (1..k) \ {k} = 1..(k - 1)
  BY <1>1
<1> QED
  BY <1>2, <1>3

CanRun(n, V, f, base) ==
  n \in Nat /\ base \in V /\ \A k \in 1..n, v \in V : f[<<k, v>>] \in V

\* g is the fold of f over all sets of numbers up to n.
RunsOver(g, n, V, f, base) ==
  /\ g \in [SUBSET (1..n) -> V] /\ g[{}] = base
  /\ \A s \in SUBSET (1..n) :
       s # {} => /\ Max(s) \in 1..n /\ g[s \ {Max(s)}] \in V
                 /\ g[s] = f[<<Max(s), g[s \ {Max(s)}]>>]

LEMMA RunExists ==
  ASSUME NEW n, NEW V, NEW f, NEW base, CanRun(n, V, f, base)
  PROVE  \E g : RunsOver(g, n, V, f, base)
<1>1. PICK S : S = 1..n
  OBVIOUS
<1>2. PICK pick : pick = [s \in SUBSET S |-> Max(s)]
  OBVIOUS
<1>3. IsFiniteSet(S)
  BY <1>1, FS_Interval DEF CanRun
<1>4. \A s \in SUBSET S : IsFiniteSet(s) /\ s \subseteq Nat
  <2>1. \A s \in SUBSET S : s \subseteq Nat
    BY <1>1 DEF CanRun
  <2>2. \A s \in SUBSET S : IsFiniteSet(s)
    BY <1>3, FS_Subset
  <2> QED
    BY <2>1, <2>2
<1>5. \A s \in SUBSET S : s # {} => pick[s] = Max(s) /\ pick[s] \in s
  BY <1>2, <1>4, MaxIsElement
<1>6. CanFold(S, V, f, base, pick)
  BY <1>1, <1>5 DEF CanFold, CanRun
<1>7. PICK g : IsFold(g, S, V, f, base, pick)
  BY <1>3, <1>6, FoldIsDefined
<1>8. g \in [SUBSET S -> V] /\ \A s \in SUBSET S : g[s] = AddsTo(f, base, pick, g, s)
  BY <1>7 DEF IsFold
<1>9. g[{}] = base
  BY <1>8 DEF AddsTo
<1>10. \A s \in SUBSET S :
         s # {} => /\ Max(s) \in S /\ g[s \ {Max(s)}] \in V
                   /\ g[s] = f[<<Max(s), g[s \ {Max(s)}]>>]
  BY <1>5, <1>8 DEF AddsTo
<1>11. RunsOver(g, n, V, f, base)
  BY <1>1, <1>8, <1>9, <1>10 DEF RunsOver
<1> QED
  BY <1>11

\* p, a fold of the same where that is of its type, is so all the way.
StepsLike(p, n, V, f, base) ==
  /\ p[1..0] = base
  /\ \A k \in 1..n : p[1..(k - 1)] \in V => p[1..k] = f[<<k, p[1..(k - 1)]>>]
RunsUp(p, n, V, f, base) ==
  /\ p[1..0] = base
  /\ \A k \in 0..n : p[1..k] \in V
  /\ \A k \in 1..n : p[1..k] = f[<<k, p[1..(k - 1)]>>]

LEMMA RunFollows ==
  ASSUME NEW n, NEW V, NEW f, NEW base, CanRun(n, V, f, base),
         NEW p, StepsLike(p, n, V, f, base)
  PROVE  RunsUp(p, n, V, f, base)
<1> DEFINE P == {k \in Nat : k <= n => p[1..k] \in V}
<1>1. 0 \in P
  BY DEF CanRun, StepsLike
<1>2. ASSUME NEW k \in Nat, k \in P PROVE k + 1 \in P
  <2> SUFFICES ASSUME k + 1 <= n PROVE p[1..(k + 1)] \in V
    OBVIOUS
  <2>1. n \in Nat
    BY DEF CanRun
  <2>2. p[1..k] \in V /\ k + 1 \in 1..n /\ (k + 1) - 1 = k
    BY <1>2, <2>1
  <2>3. p[1..(k + 1)] = f[<<k + 1, p[1..k]>>]
    BY <2>2 DEF StepsLike
  <2> QED
    BY <2>2, <2>3 DEF CanRun
<1> HIDE DEF P
<1>3. Nat \subseteq P
  BY <1>1, <1>2, NatSetInduction
<1>4. \A k \in 0..n : p[1..k] \in V
  BY <1>3 DEF P, CanRun
<1>5. \A k \in 1..n : p[1..k] = f[<<k, p[1..(k - 1)]>>]
  <2> SUFFICES ASSUME NEW k \in 1..n PROVE p[1..k] = f[<<k, p[1..(k - 1)]>>]
    OBVIOUS
  <2>1. k - 1 \in 0..n
    BY DEF CanRun
  <2> QED
    BY <1>4, <2>1 DEF StepsLike
<1> QED
  BY <1>4, <1>5 DEF RunsUp, StepsLike

\* A function of the numbers to n can be defined by its value at 0 and each
\* next one.
LEMMA NatRecursion ==
  ASSUME NEW n, NEW V, NEW f, NEW base, CanRun(n, V, f, base)
  PROVE  \E r \in [0..n -> V] :
           /\ r[0] = base
           /\ \A k \in 1..n : r[k - 1] \in V /\ r[k] = f[<<k, r[k - 1]>>]
<1>1. PICK g : RunsOver(g, n, V, f, base)
  BY RunExists
<1>2. /\ g \in [SUBSET (1..n) -> V] /\ g[{}] = base
      /\ \A s \in SUBSET (1..n) : s # {} => g[s] = f[<<Max(s), g[s \ {Max(s)}]>>]
  BY <1>1 DEF RunsOver
<1>3. PICK r : r = [k \in 0..n |-> g[1..k]]
  OBVIOUS
<1>4. n \in Nat
  BY DEF CanRun
<1>5. \A k \in 0..n : 1..k \in SUBSET (1..n)
  BY <1>4
<1>6. r \in [0..n -> V]
  BY <1>2, <1>3, <1>5
<1>7. r[0] = base
  <2>1. 1..0 = {} /\ 0 \in 0..n
    BY <1>4
  <2> QED
    BY <1>2, <1>3, <2>1
<1>8. ASSUME NEW k \in 1..n PROVE r[k - 1] \in V /\ r[k] = f[<<k, r[k - 1]>>]
  <2>1. k \in 0..n /\ k - 1 \in 0..n
    BY <1>4
  <2>2. /\ 1..k \in SUBSET (1..n) /\ 1..k # {} /\ Max(1..k) = k
        /\ (1..k) \ {k} = 1..(k - 1)
    BY <1>4, PrefixIsLess
  <2>3. PICK t : t = 1..k
    OBVIOUS
  <2>4. g[t] = f[<<Max(t), g[t \ {Max(t)}]>>]
    BY <1>2, <2>2, <2>3
  <2>5. r[k] = g[t] /\ r[k - 1] = g[t \ {k}]
    BY <1>3, <2>1, <2>2, <2>3
  <2> QED
    BY <1>6, <2>1, <2>2, <2>3, <2>4, <2>5
<1> QED
  BY <1>6, <1>7, <1>8
=============================================================================
