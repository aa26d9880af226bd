--------------------------- MODULE InductionLemmas ---------------------------
(***************************************************************************)
(* Induction over the naturals with a set in place of a predicate, and the  *)
(* existence of a function defined by recursion up to a bound: what the     *)
(* proofs about the folds of the models rest on.                            *)
(***************************************************************************)
EXTENDS Integers, WellFoundedInduction, TLAPS

(* A set of naturals that is not empty has a least element. *)
LEMMA LeastNatural ==
    ASSUME NEW T \in SUBSET Nat, NEW e \in T
    PROVE  \E x \in T : \A y \in T : x <= y
<1>1. PICK R : R = {p \in Nat \X Nat : p[1] < p[2]}
    OBVIOUS
<1>2. IsWellFoundedOn(R, Nat)
    BY <1>1, NatLessThanWellFounded DEF OpToRel
<1>3. \E x \in T : \A y \in T : ~(<<y, x>> \in R)
    BY <1>2, WFMin
<1>4. ASSUME NEW x \in Nat, NEW y \in Nat, ~(<<y, x>> \in R) PROVE x <= y
    <2>1. <<y, x>> \in R <=> y < x
        BY <1>1
    <2> QED
        BY <1>4, <2>1
<1> QED
    BY <1>3, <1>4

(* What holds of 0 and passes from each natural up to N to the next holds up  *)
(* to N.                                                                      *)
LEMMA InductionUpTo ==
    ASSUME NEW N \in Nat, NEW S, 0 \in S, \A n \in 0..N : n \in S /\ n < N => n + 1 \in S
    PROVE  0..N \subseteq S
<1> SUFFICES ASSUME NEW m \in (0..N) \ S PROVE FALSE
    OBVIOUS
<1>1. PICK x \in (0..N) \ S : \A y \in (0..N) \ S : x <= y
    <2>1. (0..N) \ S \in SUBSET Nat
        OBVIOUS
    <2> QED
        BY <2>1, LeastNatural
<1>2. x \in Nat /\ x # 0 /\ x - 1 \in 0..N /\ x - 1 < N
    BY <1>1
<1>3. x - 1 \in S
    BY <1>1, <1>2
<1>4. (x - 1) + 1 \in S
    BY <1>2, <1>3
<1> QED
    BY <1>1, <1>2, <1>4

(* g follows the recursion that starts at base and takes N steps. *)
Recursion(g, X, base, N, st) ==
    /\ g \in [0..N -> X]
    /\ g[0] = base
    /\ \A n \in 1..N : g[n] = st[n][g[n - 1]]

(* A recursion of N steps, each of which stays in X, has a solution. *)
LEMMA RecursionSolvable ==
    ASSUME NEW X, NEW base \in X, NEW N \in Nat, NEW st \in [1..N -> [X -> X]]
    PROVE  \E g : Recursion(g, X, base, N, st)
<1> DEFINE Solves(k, g) == g[0] = base /\ \A n \in 1..k : g[n] = st[n][g[n - 1]]
           S == {k \in 0..N : \E g \in [0..k -> X] : Solves(k, g)}
<1>1. 0 \in S
    <2>1. PICK g : g = [i \in 0..0 |-> base]
        OBVIOUS
    <2>2. g \in [0..0 -> X] /\ g[0] = base
        BY <2>1
    <2>3. 1..0 = {} /\ 0 \in 0..N
        OBVIOUS
    <2> QED
        BY <2>2, <2>3
<1>2. ASSUME NEW k \in 0..N, k \in S, k < N PROVE k + 1 \in S
    <2>1. PICK g \in [0..k -> X] : Solves(k, g)
        BY <1>2
    <2>2. PICK v : v = st[k + 1][g[k]]
        OBVIOUS
    <2>3. k + 1 \in 1..N /\ g[k] \in X
        BY <1>2
    <2>4. v \in X
        BY <2>2, <2>3
    <2>5. PICK h : h = [i \in 0..(k + 1) |-> IF i = k + 1 THEN v ELSE g[i]]
        OBVIOUS
    <2>6. h \in [0..(k + 1) -> X]
        BY <1>2, <2>4, <2>5
    <2>7. h[0] = base
        BY <1>2, <2>1, <2>5
    <2>8. ASSUME NEW n \in 1..(k + 1) PROVE h[n] = st[n][h[n - 1]]
        <3>1. n - 1 \in 0..k /\ h[n - 1] = g[n - 1]
            BY <1>2, <2>5
        <3>2. CASE n = k + 1
            <4>1. n - 1 = k /\ h[n - 1] = g[k]
                BY <1>2, <3>1, <3>2
            <4>2. h[n] = v
                BY <2>5, <3>2
            <4> QED
                BY <2>2, <3>2, <4>1, <4>2
        <3>3. CASE n # k + 1
            <4>1. n \in 1..k
                BY <1>2, <3>3
            <4> QED
                BY <1>2, <2>1, <2>5, <3>1, <3>3, <4>1
        <3> QED
            BY <3>2, <3>3
    <2>9. k + 1 \in 0..N
        BY <1>2
    <2> QED
        BY <2>6, <2>7, <2>8, <2>9
<1>3. 0..N \subseteq S
    <2> HIDE DEF S
    <2> QED
        BY <1>1, <1>2, InductionUpTo
<1> QED
    BY <1>3 DEF Recursion
=============================================================================
