---------------------------------- MODULE Counting ----------------------------------
(***************************************************************************)
(* Counting up, and recursion over numbers: what the proofs need of        *)
(* induction.  (The library's theorems about it take an operator as their  *)
(* parameter; these take a set or a function.)                             *)
(***************************************************************************)
EXTENDS Integers, WellFoundedInduction, TLAPS

(* A set of numbers has a least one.                                        *)
LEMMA LeastNumber ==
    ASSUME NEW S \in SUBSET Nat, S # {}
    PROVE  \E n \in S : \A m \in S : n <= m
<1> DEFINE R == OpToRel(<, Nat)
<1>1. IsWellFoundedOn(R, Nat)
  BY NatLessThanWellFounded
<1>2. \A x, y \in Nat : x < y => <<x, y>> \in R
  BY DEF OpToRel
<1> HIDE DEF R
<1>3. PICK x \in S : \A y \in S : ~(<<y, x>> \in R)
  BY <1>1, WFMin
<1>4. ASSUME NEW m \in S PROVE x <= m
  <2>1. ~(m < x)
    BY <1>2, <1>3
  <2> QED BY <2>1
<1> QED BY <1>4

(* What holds at 0 and is handed on holds up to any number.                 *)
LEMMA CountUp ==
    ASSUME NEW N \in Nat, NEW S, 0 \in S, \A n \in 0 .. N : n \in S /\ n < N => n + 1 \in S
    PROVE  \A n \in 0 .. N : n \in S
<1> SUFFICES ASSUME NEW k \in 0 .. N, k \notin S PROVE FALSE
  OBVIOUS
<1> DEFINE T == {n \in 0 .. N : n \notin S}
<1>1. T \in SUBSET Nat /\ T # {}
  OBVIOUS
<1>2. PICK m \in T : \A n \in T : m <= n
  BY <1>1, LeastNumber
<1>3. m \in 1 .. N /\ m - 1 \in 0 .. N /\ m - 1 < N /\ (m - 1) + 1 = m
  BY <1>2
<1>4. m - 1 \in S
  BY <1>2, <1>3
<1> QED BY <1>2, <1>3, <1>4

(* f comes from s in N steps of F.                                          *)
Recurs(T, s, N, F, f) == f \in [0 .. N -> T] /\ f[0] = s /\ \A i \in 1 .. N : f[i] = F[f[i - 1]][i]

(* A recursion over numbers, with its step as a function, is a function.    *)
LEMMA Recursion ==
    ASSUME NEW T, NEW s \in T, NEW N \in Nat, NEW F \in [T -> [1 .. N -> T]]
    PROVE  \E f : Recurs(T, s, N, F, f)
<1> DEFINE Upto(n, f) == f \in [0 .. n -> T] /\ f[0] = s /\ \A i \in 1 .. n : f[i] = F[f[i - 1]][i]
           S == {n \in 0 .. N : \E f : Upto(n, f)}
<1>1. 0 \in S
  <2> DEFINE f == [i \in 0 .. 0 |-> s]
  <2>1. Upto(0, f)
    OBVIOUS
  <2> HIDE DEF f, Upto
  <2> QED BY <2>1
<1>2. ASSUME NEW n \in 0 .. N, n \in S, n < N PROVE n + 1 \in S
  <2>1. PICK f : Upto(n, f)
    BY <1>2
  <2> DEFINE x == F[f[n]][n + 1]
             g == [i \in 0 .. n + 1 |-> IF i <= n THEN f[i] ELSE x]
  <2>2. f \in [0 .. n -> T] /\ f[0] = s /\ \A i \in 1 .. n : f[i] = F[f[i - 1]][i]
    BY <2>1
  <2>3. n \in 0 .. n /\ n + 1 \in 1 .. N /\ f[n] \in T
    BY <2>2, <1>2
  <2>4. x \in T
    BY <2>3
  <2> HIDE DEF x
  <2>5. /\ g \in [0 .. n + 1 -> T]
        /\ \A i \in 0 .. n : g[i] = f[i]
        /\ g[n + 1] = x
    BY <2>2, <2>4
  <2>6. g[0] = s
    BY <2>2, <2>5
  <2>7. ASSUME NEW i \in 1 .. n + 1 PROVE g[i] = F[g[i - 1]][i]
    <3>1. i - 1 \in 0 .. n /\ g[i - 1] = f[i - 1]
      BY <2>5
    <3>2. CASE i \in 1 .. n
      BY <3>1, <3>2, <2>2, <2>5
    <3>3. CASE i = n + 1
      BY <3>1, <3>3, <2>5 DEF x
    <3> QED BY <3>2, <3>3
  <2> HIDE DEF g
  <2>8. Upto(n + 1, g)
    BY <2>5, <2>6, <2>7
  <2> HIDE DEF Upto
  <2> QED BY <2>8, <1>2
<1>3. N \in S
  <2> HIDE DEF S
  <2>1. \A n \in 0 .. N : n \in S
    BY <1>1, <1>2, CountUp
  <2> QED BY <2>1
<1> QED BY <1>3 DEF Recurs
=====================================================================================
