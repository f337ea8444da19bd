--------------------------- MODULE InductionLemmas ---------------------------
(***************************************************************************)
(* Induction over the naturals with a set in the place of a predicate, and *)
(* the existence of the functions that recursion defines.  The provers     *)
(* cannot instantiate an operator, so the induction rules of the library   *)
(* are out of their reach; a set they instantiate without trouble.  What   *)
(* the loops of the code compute (a scan of what was read, a shift of the  *)
(* registers) is proved from these.                                        *)
(***************************************************************************)
EXTENDS Integers, FiniteSetsExt, WellFoundedInduction, TLAPS

(* A set of naturals that is not empty has a least element.                *)
LEMMA LeastNatural ==
  ASSUME NEW T \in SUBSET Nat, T # {}
  PROVE  \E n \in T : \A m \in T : n <= m
  <1>1. PICK n \in T : \A m \in T : ~(<<m, n>> \in OpToRel(<, Nat))
    BY NatLessThanWellFounded, WFMin
  <1>2. \A m \in T : ~(m < n)
    BY <1>1 DEF OpToRel
  <1> QED
    BY <1>2

(* Induction: a set that holds 0 and the successor of each of its naturals *)
(* holds them all.                                                         *)
LEMMA NatSetInduction ==
  ASSUME NEW T, 0 \in T, \A n \in Nat : n \in T => n + 1 \in T
  PROVE  Nat \subseteq T
  <1> SUFFICES ASSUME Nat \ T # {} PROVE FALSE
    OBVIOUS
  <1>1. PICK n \in Nat \ T : \A m \in Nat \ T : n <= m
    BY LeastNatural
  <1>2. n - 1 \in Nat /\ n - 1 \in T
    BY <1>1
  <1> QED
    BY <1>1, <1>2

(* f is computed from c by a step that is given the last value and an      *)
(* index, up to the index n.                                               *)
FoldsTo(f, c, step, n) ==
  /\ f[0] = c
  /\ \A i \in 1 .. n : f[i] = step[<<f[i - 1], i>>]

(* Recursion defines a function: a loop of k turns, each a function of the *)
(* state it finds and of its index, goes through k + 1 states.             *)
LEMMA PrimitiveRecursion ==
  ASSUME NEW S, NEW c \in S, NEW step \in [S \X Nat -> S], NEW k \in Nat
  PROVE  \E f \in [0 .. k -> S] : FoldsTo(f, c, step, k)
  <1> DEFINE T == {n \in Nat : \E f \in [0 .. n -> S] : FoldsTo(f, c, step, n)}
  <1>1. 0 \in T
    <2> DEFINE f == [i \in 0 .. 0 |-> c]
    <2>1. f \in [0 .. 0 -> S] /\ FoldsTo(f, c, step, 0)
      BY DEF FoldsTo
    <2> QED
      BY <2>1
  <1>2. ASSUME NEW n \in Nat, n \in T PROVE n + 1 \in T
    <2>1. PICK f \in [0 .. n -> S] : FoldsTo(f, c, step, n)
      BY <1>2
    <2> DEFINE g == [i \in 0 .. n + 1 |->
                       IF i = n + 1 THEN step[<<f[n], n + 1>>] ELSE f[i]]
    <2>2. f[n] \in S
      BY <2>1
    <2>3. step[<<f[n], n + 1>>] \in S
      BY <2>2
    <2>4. g \in [0 .. n + 1 -> S]
      BY <2>1, <2>3
    <2>5. ASSUME NEW i \in 1 .. n + 1 PROVE g[i] = step[<<g[i - 1], i>>]
      <3>1. CASE i = n + 1
        <4>1. g[i - 1] = f[n] /\ g[i] = step[<<f[n], n + 1>>]
          BY <3>1
        <4> QED
          BY <4>1, <3>1
      <3>2. CASE i # n + 1
        <4>1. i \in 1 .. n
          BY <3>2
        <4>2. g[i - 1] = f[i - 1] /\ g[i] = f[i]
          BY <4>1
        <4> QED
          BY <4>1, <4>2, <2>1 DEF FoldsTo
      <3> QED
        BY <3>1, <3>2
    <2>6. g[0] = c
      BY <2>1 DEF FoldsTo
    <2> HIDE DEF g
    <2>7. FoldsTo(g, c, step, n + 1)
      BY <2>5, <2>6 DEF FoldsTo
    <2> QED
      BY <2>4, <2>7
  <1>3. Nat \subseteq T
    <2> HIDE DEF T
    <2> QED
      BY <1>1, <1>2, NatSetInduction
  <1> QED
    BY <1>3

\* A set of naturals that is not empty has a least element, which Min chooses.
LEMMA MinInSet ==
  ASSUME NEW T, T \subseteq Nat, T # {}
  PROVE  Min(T) \in T /\ \A y \in T : Min(T) <= y
  <1>1. PICK x \in T : \A y \in T : ~(<<y, x>> \in OpToRel(<, Nat))
    BY WFMin, NatLessThanWellFounded
  <1>2. ASSUME NEW y \in T PROVE x <= y
    <2>1. x \in Nat /\ y \in Nat
      OBVIOUS
    <2>2. ~(<<y, x>> \in OpToRel(<, Nat))
      BY <1>1
    <2>3. ~(y < x)
      BY <2>1, <2>2 DEF OpToRel
    <2> QED
      BY <2>1, <2>3
  <1> QED
    BY <1>2 DEF Min

\* The same of a set of integers that is bounded below.
LEMMA MinInRange ==
  ASSUME NEW a \in Int, NEW T \in SUBSET Int, T # {}, \A t \in T : a <= t
  PROVE  Min(T) \in T /\ \A y \in T : Min(T) <= y
  <1> DEFINE D == {t - a : t \in T}
  <1>1. D \in SUBSET Nat /\ D # {}
    <2>1. \A t \in T : t - a \in Nat
      OBVIOUS
    <2>2. D \subseteq Nat
      BY <2>1
    <2>3. PICK t \in T : TRUE
      OBVIOUS
    <2>4. t - a \in D
      BY <2>3
    <2> QED
      BY <2>2, <2>4
  <1> HIDE DEF D
  <1>2. PICK d \in D : \A e \in D : d <= e
    BY <1>1, LeastNatural
  <1>3. PICK x \in T : d = x - a
    BY <1>2 DEF D
  <1>4. ASSUME NEW y \in T PROVE x <= y
    <2>1. y - a \in D
      BY DEF D
    <2> QED
      BY <1>2, <1>3, <2>1
  <1> QED
    BY <1>4 DEF Min

\* A set of integers that is bounded above has a greatest element.
LEMMA MaxInRange ==
  ASSUME NEW b \in Int, NEW T \in SUBSET Int, T # {}, \A t \in T : t <= b
  PROVE  Max(T) \in T /\ \A y \in T : y <= Max(T)
  <1> DEFINE D == {b - t : t \in T}
  <1>1. D \in SUBSET Nat /\ D # {}
    <2>1. \A t \in T : b - t \in Nat
      OBVIOUS
    <2>2. D \subseteq Nat
      BY <2>1
    <2>3. PICK t \in T : TRUE
      OBVIOUS
    <2>4. b - t \in D
      BY <2>3
    <2> QED
      BY <2>2, <2>4
  <1> HIDE DEF D
  <1>2. PICK d \in D : \A e \in D : d <= e
    BY <1>1, LeastNatural
  <1>3. PICK x \in T : d = b - x
    BY <1>2 DEF D
  <1>4. ASSUME NEW y \in T PROVE y <= x
    <2>1. b - y \in D
      BY DEF D
    <2> QED
      BY <1>2, <1>3, <2>1
  <1> QED
    BY <1>4 DEF Max

(* What T makes of a function of 1 .. N at i depends on the values after i *)
(* only.                                                                   *)
LooksAhead(T, N, S) ==
  /\ T \in [[1 .. N -> S] -> [1 .. N -> S]]
  /\ \A f, g \in [1 .. N -> S] : \A i \in 1 .. N :
       (\A j \in i + 1 .. N : f[j] = g[j]) => T[f][i] = T[g][i]

(* Recursion from the end: there is a function that such a T leaves alone. *)
LEMMA BackwardRecursion ==
  ASSUME NEW N \in Nat, NEW S, S # {}, NEW T, LooksAhead(T, N, S)
  PROVE  \E f \in [1 .. N -> S] : T[f] = f
  <1> USE DEF LooksAhead
  <1>0. PICK s \in S : TRUE
    OBVIOUS
  <1> DEFINE F == [1 .. N -> S]
             A == {n \in Nat : \E f \in F : \A i \in 1 .. N : N - n < i => T[f][i] = f[i]}
  <1>1. 0 \in A
    <2>1. [i \in 1 .. N |-> s] \in F
      OBVIOUS
    <2>2. \A i \in 1 .. N : ~(N - 0 < i)
      OBVIOUS
    <2> QED
      BY <2>1, <2>2
  <1>2. ASSUME NEW n \in Nat, n \in A PROVE n + 1 \in A
    <2>1. PICK f \in F : \A i \in 1 .. N : N - n < i => T[f][i] = f[i]
      BY <1>2
    <2>2. T[f] \in F
      OBVIOUS
    <2>3. ASSUME NEW i \in 1 .. N, N - (n + 1) < i PROVE T[T[f]][i] = T[f][i]
      <3>1. \A j \in i + 1 .. N : T[f][j] = f[j]
        BY <2>1, <2>3
      <3> QED
        BY <2>2, <3>1
    <2> QED
      BY <2>2, <2>3
  <1>3. N \in A
    <2> HIDE DEF A
    <2> QED
      BY <1>1, <1>2, NatSetInduction
  <1>4. PICK f \in F : \A i \in 1 .. N : N - N < i => T[f][i] = f[i]
    BY <1>3
  <1>5. T[f] \in F /\ \A i \in 1 .. N : T[f][i] = f[i]
    BY <1>4
  <1> QED
    BY <1>5
=============================================================================
