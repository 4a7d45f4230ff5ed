-------------------------- MODULE RollbackManager_proofs --------------------------
(***************************************************************************)
(* What the search of the rollback manager leaves, for every list of       *)
(* snapshots.  The search is a recursive function; what is needed of it is *)
(* proved by the least place where it would fail.                          *)
(***************************************************************************)
EXTENDS RollbackManager, WellFoundedInduction, FiniteSetTheorems, TLAPS

(* Every set of numbers that is not empty has a least element. *)
LEMMA LeastNumber ==
    ASSUME NEW S \in SUBSET Nat, S # {}
    PROVE  \E m \in S : \A k \in S : m <= k
<1> DEFINE T == {1 .. n : n \in S}
<1>1. T \in SUBSET FiniteSubsetsOf(Nat) /\ T # {}
  <2>1. ASSUME NEW i \in S PROVE 1 .. i \in FiniteSubsetsOf(Nat)
    <3>1. i \in Int /\ 1 \in Int /\ 1 .. i \in SUBSET Nat
      OBVIOUS
    <3>2. IsFiniteSet(1 .. i)
      BY <3>1, FS_Interval
    <3> QED
      BY <3>1, <3>2 DEF FiniteSubsetsOf
  <2> QED
    BY <2>1
<1>2. PICK x \in T : \A y \in T : ~ (<<y, x>> \in StrictSubsetOrdering(Nat))
  BY <1>1, FS_StrictSubsetOrderingWellFounded, WFMin
<1>3. PICK i \in S : x = 1 .. i
  OBVIOUS
<1>4. ASSUME NEW j \in S, j < i PROVE FALSE
  <2>1. 1 .. j \in T /\ 1 .. j \subseteq Nat /\ x \subseteq Nat
    BY <1>3
  <2>2. 1 .. j \subseteq x /\ i \in x /\ i \notin 1 .. j
    BY <1>3, <1>4
  <2>3. <<1 .. j, x>> \in StrictSubsetOrdering(Nat)
    BY <2>1, <2>2 DEF StrictSubsetOrdering
  <2> QED
    BY <1>2, <2>1, <2>3
<1> QED
  BY <1>4

(* The newest snapshot of b among the first k, if there is one. *)
Newest(s, b, k) ==
    CHOOSE i \in 1 .. k : s[i].block = b /\ \A j \in i + 1 .. k : s[j].block # b

(* One step of the search, f being what the search from earlier places     *)
(* leaves.                                                                 *)
Search(s, b, f, k) ==
    IF k = 0 \/ s[k].block = b THEN k
    ELSE IF \E i \in 1 .. k : s[i].block = b THEN f[Newest(s, b, k) - 1] ELSE k - 1

LEMMA NewestIsAPlace ==
    ASSUME NEW s, NEW b, NEW k \in Nat, \E i \in 1 .. k : s[i].block = b
    PROVE  Newest(s, b, k) \in 1 .. k
<1> DEFINE S == {n \in 0 .. k : \E i \in 1 .. k : n = k - i /\ s[i].block = b}
<1>1. S \in SUBSET Nat /\ S # {}
  <2>1. PICK i \in 1 .. k : s[i].block = b
    OBVIOUS
  <2>2. k - i \in 0 .. k
    OBVIOUS
  <2>3. k - i \in S
    BY <2>1, <2>2
  <2>4. S \in SUBSET Nat
    OBVIOUS
  <2> HIDE DEF S
  <2> QED
    BY <2>3, <2>4
<1>2. PICK m \in S : \A n \in S : m <= n
  BY <1>1, LeastNumber
<1>3. PICK i \in 1 .. k : m = k - i /\ s[i].block = b
  OBVIOUS
<1>4. ASSUME NEW j \in i + 1 .. k, s[j].block = b PROVE FALSE
  <2>1. j \in 1 .. k /\ k - j \in 0 .. k /\ k - j < m
    BY <1>3
  <2>2. k - j \in S
    BY <1>4, <2>1
  <2> QED
    BY <1>2, <2>1, <2>2
<1> QED
  BY <1>3, <1>4 DEF Newest

(* The recursive definition of the search defines a function. *)
LEMMA SearchIsDefined ==
    ASSUME NEW s, NEW b, NEW n \in Nat
    PROVE  \E f : /\ f = [k \in 0 .. n |-> Search(s, b, f, k)]
                  /\ \A k \in 0 .. n : f[k] \in 0 .. k
<1> DEFINE Good(m, f) == /\ f = [k \in 0 .. m |-> Search(s, b, f, k)]
                         /\ \A k \in 0 .. m : f[k] \in 0 .. k
           S == {m \in Nat : ~ \E f : Good(m, f)}
<1> SUFFICES ASSUME S # {} PROVE FALSE
  OBVIOUS
<1>1. PICK m \in S : \A k \in S : m <= k
  BY LeastNumber
<1>2. CASE m = 0
  <2> DEFINE f == [k \in 0 .. 0 |-> 0]
  <2>1. f = [k \in 0 .. 0 |-> Search(s, b, f, k)]
    BY DEF Search
  <2>2. Good(0, f)
    BY <2>1
  <2> QED
    BY <1>2, <2>2
<1>3. CASE m # 0
  <2>1. m - 1 \in Nat /\ m - 1 \notin S /\ m \in Nat
    BY <1>1, <1>3
  <2>2. PICK g : Good(m - 1, g)
    BY <2>1
  <2> DEFINE h == [k \in 0 .. m |-> Search(s, b, g, k)]
  <2>3. \A k \in 0 .. m : \A i \in 1 .. k : i - 1 \in 0 .. m - 1
    BY <2>1
  <2>4. \A k \in 0 .. m - 1 : h[k] = g[k] /\ k \in 0 .. m
    <3>1. \A k \in 0 .. m - 1 : k \in 0 .. m
      BY <2>1
    <3>2. \A k \in 0 .. m - 1 : g[k] = Search(s, b, g, k)
      BY <2>2
    <3> QED
      BY <3>1, <3>2
  <2>5. ASSUME NEW k \in 0 .. m PROVE Search(s, b, h, k) = Search(s, b, g, k)
    <3>1. CASE \E i \in 1 .. k : s[i].block = b
      <4>1. Newest(s, b, k) \in 1 .. k
        BY <2>1, <3>1, NewestIsAPlace
      <4>2. Newest(s, b, k) - 1 \in 0 .. m - 1
        BY <2>3, <4>1
      <4>3. h[Newest(s, b, k) - 1] = g[Newest(s, b, k) - 1]
        BY <2>4, <4>2
      <4> HIDE DEF h
      <4> QED
        BY <4>3 DEF Search
    <3>2. CASE ~ \E i \in 1 .. k : s[i].block = b
      <4> HIDE DEF h
      <4> QED
        BY <3>2 DEF Search
    <3> QED
      BY <3>1, <3>2
  <2>6. h = [k \in 0 .. m |-> Search(s, b, h, k)]
    BY <2>5
  <2>7. ASSUME NEW k \in 0 .. m PROVE h[k] \in 0 .. k
    <3>1. h[k] = Search(s, b, g, k)
      OBVIOUS
    <3>2. CASE \E i \in 1 .. k : s[i].block = b
      <4>1. Newest(s, b, k) \in 1 .. k
        BY <2>1, <3>2, NewestIsAPlace
      <4>2. Newest(s, b, k) - 1 \in 0 .. m - 1 /\ Newest(s, b, k) - 1 <= k
        BY <2>3, <4>1
      <4>3. g[Newest(s, b, k) - 1] \in 0 .. k
        BY <2>2, <4>2
      <4> HIDE DEF h
      <4> QED
        BY <3>1, <3>2, <4>3 DEF Search
    <3>3. CASE ~ \E i \in 1 .. k : s[i].block = b
      <4> HIDE DEF h
      <4> QED
        BY <3>1, <3>3 DEF Search
    <3> QED
      BY <3>2, <3>3
  <2>8. Good(m, h)
    BY <2>6, <2>7
  <2> QED
    BY <2>8
<1> QED
  BY <1>2, <1>3

(***************************************************************************)
(* The search leaves some of the snapshots; when none is of the block that *)
(* failed, it drops one.                                                   *)
(***************************************************************************)
LEMMA KeptIsAPlace ==
    ASSUME NEW S, NEW s \in Seq(S), NEW b
    PROVE  /\ Kept(s, b) \in 0 .. Len(s)
           /\ (\A i \in 1 .. Len(s) : s[i].block # b)
                => Kept(s, b) = IF Len(s) = 0 THEN 0 ELSE Len(s) - 1
<1> DEFINE g == CHOOSE f : f = [k \in 0 .. Len(s) |-> Search(s, b, f, k)]
<1>1. Len(s) \in Nat
  OBVIOUS
<1>2. g = [k \in 0 .. Len(s) |-> Search(s, b, g, k)]
  BY <1>1, SearchIsDefined
<1>3. Kept(s, b) = g[Len(s)]
  BY DEF Kept, Search, Newest
<1> HIDE DEF g
<1>4. \A k \in 0 .. Len(s) : g[k] = Search(s, b, g, k)
  BY <1>2
<1>5. \A k \in 0 .. Len(s) : g[k] \in 0 .. k
  <2> DEFINE T == {k \in 0 .. Len(s) : g[k] \notin 0 .. k}
  <2> SUFFICES ASSUME T # {} PROVE FALSE
    OBVIOUS
  <2>1. PICK k \in T : \A j \in T : k <= j
    <3>1. T \in SUBSET Nat
      BY <1>1
    <3> QED
      BY <3>1, LeastNumber
  <2>2. k \in Nat /\ k \in 0 .. Len(s) /\ g[k] = Search(s, b, g, k)
    BY <1>1, <1>4
  <2>3. CASE \E i \in 1 .. k : s[i].block = b
    <3>1. Newest(s, b, k) \in 1 .. k
      BY <2>2, <2>3, NewestIsAPlace
    <3> DEFINE j == Newest(s, b, k) - 1
    <3>2. j \in 0 .. Len(s) /\ j < k
      BY <1>1, <2>2, <3>1
    <3> HIDE DEF j
    <3>3. g[j] \in 0 .. k
      BY <1>1, <2>1, <2>2, <3>2
    <3>4. g[k] = k \/ g[k] = g[j] \/ g[k] = k - 1
      BY <2>2 DEF Search, j
    <3>5. k # 0
      BY <3>1, <2>2
    <3> QED
      BY <2>1, <2>2, <3>3, <3>4, <3>5
  <2>4. CASE ~ \E i \in 1 .. k : s[i].block = b
    <3>1. g[k] = k \/ (k # 0 /\ g[k] = k - 1)
      BY <2>2, <2>4 DEF Search
    <3> QED
      BY <2>1, <2>2, <3>1
  <2> QED
    BY <2>3, <2>4
<1>6. ASSUME \A i \in 1 .. Len(s) : s[i].block # b
      PROVE  Kept(s, b) = IF Len(s) = 0 THEN 0 ELSE Len(s) - 1
  <2>1. Len(s) \in 0 .. Len(s) /\ (Len(s) # 0 => Len(s) \in 1 .. Len(s))
    BY <1>1
  <2>2. g[Len(s)] = Search(s, b, g, Len(s))
    BY <1>4, <2>1
  <2> QED
    BY <1>3, <1>6, <2>1, <2>2 DEF Search
<1> QED
  BY <1>1, <1>3, <1>5, <1>6
=============================================================================
