------------------------------ MODULE Induction ------------------------------
(***************************************************************************)
(* Induction for the provers, stated over sets instead of predicates: the  *)
(* least and the greatest natural number of a set, induction along a       *)
(* prefix of the numbers and along sequences, and the values of a function *)
(* defined by recursion on the numbers 0 .. N.                             *)
(***************************************************************************)
EXTENDS Integers, Sequences, SequenceTheorems, WellFoundedInduction, TLAPS

(* A set of naturals that is not empty has a least element. *)
LEMMA LeastNatural ==
    ASSUME NEW S \in SUBSET Nat, S # {}
    PROVE  \E n \in S : \A m \in S : n <= m
  <1>1. PICK n \in S : \A m \in S : ~(<<m, n>> \in OpToRel(<, Nat))
    BY NatLessThanWellFounded, WFMin
  <1>2. \A m \in S : ~(m < n)
    BY <1>1 DEF OpToRel
  <1> QED
    BY <1>2

(* A bounded set of naturals that is not empty has a greatest element. *)
LEMMA GreatestNatural ==
    ASSUME NEW S \in SUBSET Nat, S # {}, NEW b \in Nat, \A n \in S : n <= b
    PROVE  \E n \in S : \A m \in S : m <= n
  <1> DEFINE D == {b - n : n \in S}
  <1>1. D \in SUBSET Nat /\ D # {}
    <2>1. \A n \in S : b - n \in Nat
      OBVIOUS
    <2>2. \E n : n \in S
      OBVIOUS
    <2> QED
      BY <2>1, <2>2
  <1>2. PICK d \in D : \A c \in D : d <= c
    <2> HIDE DEF D
    <2> QED
      BY <1>1, LeastNatural
  <1>3. PICK n \in S : d = b - n
    BY <1>2
  <1>4. ASSUME NEW m \in S PROVE m <= n
    <2>1. b - m \in D
      OBVIOUS
    <2>2. b - n <= b - m
      BY <1>2, <1>3, <2>1
    <2> QED
      BY <2>2
  <1> QED
    BY <1>4

(* What holds of 0 and passes from each number to the next holds of all    *)
(* numbers up to N.                                                        *)
LEMMA CountingUp ==
    ASSUME NEW N \in Nat, NEW T, 0 \in T, \A n \in 1 .. N : n - 1 \in T => n \in T
    PROVE  \A n \in 0 .. N : n \in T
  <1> DEFINE S == {n \in 0 .. N : n \notin T}
  <1> SUFFICES ASSUME S # {} PROVE FALSE
    OBVIOUS
  <1>1. PICK n \in S : \A m \in S : n <= m
    <2>1. S \in SUBSET Nat
      OBVIOUS
    <2> HIDE DEF S
    <2> QED
      BY <2>1, LeastNatural
  <1>2. n \in 1 .. N /\ n - 1 \notin S
    BY <1>1
  <1> QED
    BY <1>1, <1>2

(* What holds of the empty sequence and survives Append holds of every     *)
(* sequence.                                                               *)
LEMMA AllSequences ==
    ASSUME NEW X, NEW T, <<>> \in T,
           \A s \in Seq(X), x \in X : s \in T => Append(s, x) \in T
    PROVE  \A s \in Seq(X) : s \in T
  <1> DEFINE S == {Len(s) : s \in {r \in Seq(X) : r \notin T}}
  <1> SUFFICES ASSUME NEW q \in Seq(X), q \notin T PROVE FALSE
    OBVIOUS
  <1>1. S \in SUBSET Nat /\ S # {}
    BY LenProperties
  <1>2. PICK n \in S : \A m \in S : n <= m
    <2> HIDE DEF S
    <2> QED
      BY <1>1, LeastNatural
  <1>3. PICK s \in Seq(X) : s \notin T /\ n = Len(s)
    OBVIOUS
  <1>4. s # <<>>
    BY <1>3
  <1>5. PICK r \in Seq(X), x \in X : s = Append(r, x)
    BY <1>4, SequenceEmptyOrAppend
  <1>6. Len(r) \in Nat /\ n = Len(r) + 1
    BY <1>3, <1>5, AppendProperties, LenProperties
  <1>7. r \notin T
    BY <1>3, <1>5
  <1>8. Len(r) \in S
    BY <1>7
  <1> QED
    BY <1>2, <1>6, <1>8

(* g is computed by the recursion that starts with base and applies F to   *)
(* the number and the value before.                                        *)
Computes(g, N, base, F) ==
    /\ g[0] = base
    /\ \A n \in 1 .. N : g[n] = F[<<n, g[n - 1]>>]

(* Such a recursion, over a step F that is defined on A and stays in A,    *)
(* has a function that computes it.                                        *)
LEMMA RecursionExists ==
    ASSUME NEW N \in Nat, NEW A, NEW base \in A, NEW F \in [(1 .. N) \X A -> A]
    PROVE  \E g \in [0 .. N -> A] : Computes(g, N, base, F)
  <1> DEFINE T == {n \in 0 .. N : \E g \in [0 .. n -> A] : Computes(g, n, base, F)}
  <1>1. 0 \in T
    <2>1. [i \in 0 .. 0 |-> base] \in [0 .. 0 -> A]
      OBVIOUS
    <2>2. Computes([i \in 0 .. 0 |-> base], 0, base, F)
      BY DEF Computes
    <2> QED
      BY <2>1, <2>2
  <1>2. ASSUME NEW n \in 1 .. N, n - 1 \in T PROVE n \in T
    <2>1. PICK g \in [0 .. n - 1 -> A] : Computes(g, n - 1, base, F)
      BY <1>2
    <2> DEFINE h == [i \in 0 .. n |-> IF i = n THEN F[<<n, g[n - 1]>>] ELSE g[i]]
    <2>2. g[n - 1] \in A /\ F[<<n, g[n - 1]>>] \in A
      OBVIOUS
    <2>3. h \in [0 .. n -> A]
      BY <2>2
    <2>4. Computes(h, n, base, F)
      <3>1. h[0] = base
        BY <2>1 DEF Computes
      <3>2. ASSUME NEW i \in 1 .. n PROVE h[i] = F[<<i, h[i - 1]>>]
        <4>1. CASE i = n
          <5>1. h[n] = F[<<n, g[n - 1]>>] /\ h[n - 1] = g[n - 1]
            OBVIOUS
          <5> HIDE DEF h
          <5> QED
            BY <4>1, <5>1
        <4>2. CASE i # n
          <5>1. i \in 1 .. n - 1
            BY <4>2
          <5>2. h[i] = g[i] /\ h[i - 1] = g[i - 1]
            BY <5>1
          <5>3. g[i] = F[<<i, g[i - 1]>>]
            BY <2>1, <5>1 DEF Computes
          <5> QED
            BY <5>2, <5>3
        <4> QED
          BY <4>1, <4>2
      <3> HIDE DEF h
      <3> QED
        BY <3>1, <3>2 DEF Computes
    <2> HIDE DEF h
    <2> QED
      BY <2>3, <2>4
  <1>3. N \in T
    <2> HIDE DEF T
    <2> QED
      BY <1>1, <1>2, CountingUp
  <1> QED
    BY <1>3
=============================================================================
