--------------------------- MODULE SharedLemmas ---------------------------
(***************************************************************************)
(* Facts that the proofs of several components rest on: a set of natural   *)
(* numbers that is not empty has a least element, a set that holds 0 and   *)
(* with each number the next one holds them all, a function can be stepped *)
(* any number of times, and sequences can be concatenated one by one.      *)
(*                                                                         *)
(* The second is induction stated of a set instead of a predicate: a       *)
(* fact P(n) about every natural number n is proved of {n \in Nat : P(n)}. *)
(***************************************************************************)
EXTENDS Naturals, Sequences, FiniteSetTheorems, TLAPS

(* Every set of natural numbers that is not empty has a least element: the   *)
(* prefixes of S are finite, and the smallest of them ends at it.            *)
LEMMA LeastNatural ==
    ASSUME NEW S \in SUBSET Nat, S # {}
    PROVE  \E m \in S : \A n \in S : m <= n
<1> DEFINE upTo(m) == {k \in S : k <= m}
           prefixes == {T \in FiniteSubsetsOf(S) : \E m \in S : T = upTo(m)}
           Smaller == StrictSubsetOrdering(S)
<1>1. ASSUME NEW m \in S PROVE upTo(m) \in prefixes
  <2>1. upTo(m) \in SUBSET Nat /\ \A k \in upTo(m) : k <= m
    OBVIOUS
  <2>2. m \in Nat
    OBVIOUS
  <2>3. IsFiniteSet(upTo(m))
    <3> HIDE DEF upTo
    <3> QED BY <2>1, <2>2, FS_BoundedSetOfNaturals
  <2>4. upTo(m) \in SUBSET S
    OBVIOUS
  <2> QED BY <2>3, <2>4 DEF FiniteSubsetsOf
<1>2. IsWellFoundedOn(Smaller, FiniteSubsetsOf(S))
  BY FS_StrictSubsetOrderingWellFounded
<1>3. prefixes \subseteq FiniteSubsetsOf(S) /\ prefixes # {}
  BY <1>1
<1>4. \E x \in prefixes : \A y \in prefixes : ~(<<y, x>> \in Smaller)
  <2> HIDE DEF Smaller, prefixes
  <2> QED BY <1>2, <1>3, WFMin
<1>5. PICK m \in S : \A y \in prefixes : ~(<<y, upTo(m)>> \in Smaller)
  BY <1>4
<1>6. ASSUME NEW n \in S PROVE m <= n
  <2> SUFFICES ASSUME n < m PROVE FALSE
    OBVIOUS
  <2>1. m \in Int /\ n \in Int /\ \A k \in S : k \in Int
    OBVIOUS
  <2>2. /\ \A k \in S : k <= n => k <= m
        /\ m <= m /\ ~(m <= n)
    BY <2>1
  <2>3. upTo(n) \subseteq upTo(m) /\ m \in upTo(m) /\ m \notin upTo(n)
    BY <2>2
  <2>4. <<upTo(n), upTo(m)>> \in Smaller
    <3>1. upTo(n) # upTo(m)
      BY <2>3
    <3>2. upTo(n) \in SUBSET S /\ upTo(m) \in SUBSET S
      OBVIOUS
    <3> HIDE DEF upTo
    <3> QED BY <2>3, <3>1, <3>2 DEF StrictSubsetOrdering
  <2>5. upTo(n) \in prefixes
    BY <1>1
  <2> QED BY <1>5, <2>4, <2>5
<1> QED BY <1>6

LEMMA SetInduction ==
    ASSUME NEW S \in SUBSET Nat, 0 \in S, \A n \in S : n + 1 \in S
    PROVE  S = Nat
<1> SUFFICES ASSUME S # Nat PROVE FALSE
  OBVIOUS
<1>1. PICK m \in Nat \ S : \A n \in Nat \ S : m <= n
  <2>1. Nat \ S \in SUBSET Nat /\ Nat \ S # {}
    OBVIOUS
  <2> QED BY <2>1, LeastNatural
<1>2. m # 0 /\ m - 1 \in Nat /\ m - 1 < m
  BY <1>1
<1>3. m - 1 \in S
  BY <1>1, <1>2
<1>4. (m - 1) + 1 = m
  BY <1>1
<1> QED BY <1>1, <1>3, <1>4

(* What is stepped N times from base goes through a function on 0..N.       *)
LEMMA Iteration ==
    ASSUME NEW V, NEW base \in V, NEW N \in Nat, NEW step \in [1..N -> [V -> V]]
    PROVE  \E f \in [0..N -> V] : f[0] = base /\ \A n \in 1..N : f[n] = step[n][f[n - 1]]
<1> DEFINE Steps(n, f) == /\ f \in [0..n -> V] /\ f[0] = base
                          /\ \A k \in 1..n : f[k] = step[k][f[k - 1]]
           S == {n \in Nat : n <= N => \E f \in [0..n -> V] : Steps(n, f)}
<1>1. 0 \in S
  <2>1. Steps(0, [k \in 0..0 |-> base])
    OBVIOUS
  <2> QED BY <2>1
<1>2. ASSUME NEW n \in S PROVE n + 1 \in S
  <2> SUFFICES ASSUME n + 1 <= N PROVE \E f \in [0..(n + 1) -> V] : Steps(n + 1, f)
    OBVIOUS
  <2>1. n \in Nat /\ n <= N /\ n + 1 \in 1..N
    OBVIOUS
  <2>2. PICK f \in [0..n -> V] : Steps(n, f)
    BY <2>1
  <2> DEFINE g == [k \in 0..(n + 1) |-> IF k = n + 1 THEN step[n + 1][f[n]] ELSE f[k]]
  <2>3. step[n + 1] \in [V -> V] /\ n \in 0..n /\ f[n] \in V
    BY <2>1, <2>2
  <2>4. g \in [0..(n + 1) -> V]
    <3>1. \A k \in 0..(n + 1) : k # n + 1 => k \in 0..n
      BY <2>1
    <3> QED BY <2>2, <2>3, <3>1
  <2>5. g[0] = base
    BY <2>1, <2>2
  <2>6. ASSUME NEW k \in 1..(n + 1) PROVE g[k] = step[k][g[k - 1]]
    <3>1. k - 1 \in 0..(n + 1) /\ k - 1 # n + 1 /\ k \in 0..(n + 1)
      BY <2>1
    <3>2. CASE k = n + 1
      BY <2>1, <3>1, <3>2
    <3>3. CASE k # n + 1
      <4>1. k \in 1..n
        BY <2>1, <3>3
      <4> QED BY <2>2, <3>1, <3>3, <4>1
    <3> QED BY <3>2, <3>3
  <2> QED BY <2>4, <2>5, <2>6
<1>3. S = Nat
  <2>1. S \in SUBSET Nat
    OBVIOUS
  <2> HIDE DEF S
  <2> QED BY <1>1, <1>2, <2>1, SetInduction
<1>4. N \in S
  BY <1>3
<1> QED BY <1>4

-----------------------------------------------------------------------------
(* f[n] is the first n pieces, one behind the other. *)
Concatenates(f, pieces, S) ==
    /\ f \in [0..Len(pieces) -> Seq(S)]
    /\ f[0] = <<>>
    /\ \A n \in 1..Len(pieces) : f[n] = f[n - 1] \o pieces[n]

LEMMA ConcatenationExists ==
    ASSUME NEW S, NEW pieces \in Seq(Seq(S))
    PROVE  \E f : Concatenates(f, pieces, S)
<1> DEFINE N == Len(pieces)
           step == [n \in 1..N |-> [s \in Seq(S) |-> s \o pieces[n]]]
<1>0. N \in Nat
  OBVIOUS
<1>1. \A n \in 1..N : pieces[n] \in Seq(S)
  OBVIOUS
<1>2. step \in [1..N -> [Seq(S) -> Seq(S)]]
  BY <1>1
<1>3. \A n \in 1..N : \A s \in Seq(S) : step[n][s] = s \o pieces[n]
  OBVIOUS
<1> DEFINE V == Seq(S)
           nothing == <<>>
<1>4. nothing \in V /\ step \in [1..N -> [V -> V]]
  BY <1>2
<1> HIDE DEF step, N, V, nothing
<1>5. \E f \in [0..N -> V] : f[0] = nothing /\ \A n \in 1..N : f[n] = step[n][f[n - 1]]
  BY <1>0, <1>4, Iteration
<1>6. PICK f \in [0..N -> V] : f[0] = nothing /\ \A n \in 1..N : f[n] = step[n][f[n - 1]]
  BY <1>5
<1>7. ASSUME NEW n \in 1..N PROVE f[n] = f[n - 1] \o pieces[n]
  <2>1. n - 1 \in 0..N
    BY <1>0
  <2>2. f[n - 1] \in V
    BY <1>6, <2>1
  <2> QED BY <1>3, <1>6, <2>2 DEF V
<1> QED BY <1>6, <1>7 DEF Concatenates, N, V, nothing
=============================================================================
