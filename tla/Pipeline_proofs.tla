--------------------------- MODULE Pipeline_proofs ---------------------------
(***************************************************************************)
(* Proofs about Pipeline for every block order, dependency graph, profile, *)
(* group and fault budget, sequential or parallel: on turns that do not    *)
(* overlap and are not late, the execution guard is silent although it     *)
(* counts every block twice, and so every always-on block is called, if no *)
(* group is lost before its blocks are called.                             *)
(***************************************************************************)
EXTENDS Pipeline, TLAPS

(* Turns one after another, in time, with limits no tighter than the       *)
(* defaults of execution_guard.py: two executions per block, and at least  *)
(* one iteration per block.                                                *)
OneTurnAtATime ==
    /\ ~Concurrent
    /\ ~MayTimeOut
    /\ MaxBlockExecutions >= 2
    /\ MaxIterations >= Len(Order)

LEMMA PosOfOrder ==
    \A i \in Indices : Order[i] \in Blocks /\ Pos(Order[i]) = i
  BY PipelineAssumption DEF Pos, Indices, Blocks

LEMMA OrderOfPos == \A b \in Blocks : Pos(b) \in Indices /\ Order[Pos(b)] = b
  BY PipelineAssumption DEF Pos, Indices, Blocks

-----------------------------------------------------------------------------
(* The execution guard *)

Guards == [iterations : Nat, count : [Blocks -> Int], sequence : Seq(Blocks),
           lastBlock : Blocks \cup {NoBlock}, repeats : Nat, safe : BOOLEAN]

(* The executions on record follow the order up to place n, each block at  *)
(* most twice in a row.                                                    *)
FollowsOrder(s, n) ==
    /\ \A j \in 1 .. Len(s) : Pos(s[j]) <= n
    /\ \A j, k \in 1 .. Len(s) : j < k => Pos(s[j]) <= Pos(s[k])
    /\ \A j, k \in 1 .. Len(s) : j + 1 < k => Pos(s[j]) < Pos(s[k])

(* Before the iteration for place n. *)
Before(g, n) ==
    /\ g.safe
    /\ g.iterations = n - 1
    /\ \A i \in Indices : i >= n => g.count[Order[i]] = 0 /\ g.lastBlock # Order[i]
    /\ FollowsOrder(g.sequence, n - 1)

(* After should_abort for place n: the block is counted once. *)
Chosen(g, n) ==
    /\ g.safe
    /\ g.iterations = n
    /\ \A i \in Indices : i > n => g.count[Order[i]] = 0
    /\ g.count[Order[n]] = 1
    /\ g.lastBlock = Order[n]
    /\ g.repeats = 0
    /\ FollowsOrder(g.sequence, n)
    /\ \A j \in 1 .. Len(g.sequence) - 1 : Pos(g.sequence[j]) < n

(* After the pre-check: the block is counted twice. *)
Counted(g, n) ==
    /\ g.safe
    /\ g.iterations = n
    /\ \A i \in Indices : i > n => g.count[Order[i]] = 0
    /\ g.lastBlock = Order[n]
    /\ FollowsOrder(g.sequence, n)
    /\ \A j \in 1 .. Len(g.sequence) - 1 : Pos(g.sequence[j]) < n

(***************************************************************************)
(* Recording place n once more keeps the record in order and finds no      *)
(* repeated half: the halves are at least two long, so their first         *)
(* elements are too far apart to be the same block.                        *)
(***************************************************************************)
LEMMA NoTwinHalves ==
    ASSUME NEW g \in Guards, NEW n \in Indices, g.safe,
           FollowsOrder(g.sequence, n),
           \A j \in 1 .. Len(g.sequence) - 1 : Pos(g.sequence[j]) < n
    PROVE  LET c == CheckCircularSequence(g, Order[n])
               s == c.guard.sequence
           IN  /\ c.ok
               /\ c.guard \in Guards
               /\ c.guard.safe
               /\ c.guard.iterations = g.iterations
               /\ c.guard.count = g.count
               /\ c.guard.lastBlock = g.lastBlock
               /\ c.guard.repeats = g.repeats
               /\ FollowsOrder(s, n)
               /\ (\A j \in 1 .. Len(g.sequence) : Pos(g.sequence[j]) < n)
                    => (\A j \in 1 .. Len(s) - 1 : Pos(s[j]) < n)
<1> DEFINE N    == MaxRepeatedSequence
           all  == Append(g.sequence, Order[n])
           long == Len(all) > 2 * N
           kept == IF long THEN SubSeq(all, Len(all) - 2 * N + 1, Len(all)) ELSE all
           shift == IF long THEN Len(all) - 2 * N ELSE 0
           twin == Len(kept) = 2 * N /\ \A i \in 1 .. N : kept[i] = kept[i + N]
<1>1. N \in Nat /\ N >= 2
  BY GuardAssumption
<1>2. g.sequence \in Seq(Blocks) /\ Len(g.sequence) \in Nat /\ g.safe \in BOOLEAN
  BY DEF Guards
<1>3. Order[n] \in Blocks /\ Pos(Order[n]) = n /\ n \in Nat
  BY PosOfOrder DEF Indices
<1>4. /\ all \in Seq(Blocks) /\ Len(all) = Len(g.sequence) + 1
      /\ \A j \in 1 .. Len(g.sequence) : all[j] = g.sequence[j]
      /\ all[Len(all)] = Order[n]
  BY <1>2, <1>3
<1>5. \A b \in Blocks : Pos(b) \in Nat
  BY OrderOfPos DEF Indices
<1>6. \A j \in 1 .. Len(all) : all[j] \in Blocks /\ Pos(all[j]) \in Nat
  BY <1>4, <1>5
<1>7. FollowsOrder(all, n)
  <2> HIDE DEF all
  <2>1. \A j \in 1 .. Len(g.sequence) : Pos(all[j]) <= n
    BY <1>4 DEF FollowsOrder
  <2>2. \A j \in 1 .. Len(all) : Pos(all[j]) <= n
    BY <2>1, <1>2, <1>3, <1>4
  <2>3. ASSUME NEW j \in 1 .. Len(all), NEW k \in 1 .. Len(all), j < k
        PROVE  Pos(all[j]) <= Pos(all[k])
    <3>1. CASE k = Len(all)
      BY <3>1, <2>2, <1>3, <1>4
    <3>2. CASE k # Len(all)
      <4>1. j \in 1 .. Len(g.sequence) /\ k \in 1 .. Len(g.sequence)
        BY <3>2, <2>3, <1>2, <1>4
      <4> QED
        BY <4>1, <2>3, <1>4 DEF FollowsOrder
    <3> QED
      BY <3>1, <3>2
  <2>4. ASSUME NEW j \in 1 .. Len(all), NEW k \in 1 .. Len(all), j + 1 < k
        PROVE  Pos(all[j]) < Pos(all[k])
    <3>1. CASE k = Len(all)
      <4>1. j \in 1 .. Len(g.sequence) - 1
        BY <3>1, <2>4, <1>2, <1>4
      <4>2. j \in 1 .. Len(g.sequence)
        BY <4>1, <1>2
      <4> QED
        BY <3>1, <4>1, <4>2, <1>3, <1>4
    <3>2. CASE k # Len(all)
      <4>1. j \in 1 .. Len(g.sequence) /\ k \in 1 .. Len(g.sequence)
        BY <3>2, <2>4, <1>2, <1>4
      <4> QED
        BY <4>1, <2>4, <1>4 DEF FollowsOrder
    <3> QED
      BY <3>1, <3>2
  <2> QED
    BY <2>2, <2>3, <2>4 DEF FollowsOrder
<1>8. /\ kept \in Seq(Blocks) /\ shift \in Nat /\ Len(kept) = Len(all) - shift
      /\ \A j \in 1 .. Len(kept) : kept[j] = all[j + shift] /\ j + shift \in 1 .. Len(all)
  <2> HIDE DEF all
  <2>0. all \in Seq(Blocks) /\ Len(all) \in Nat
    BY <1>4
  <2>1. CASE long
    <3> DEFINE m == Len(all) - 2 * N + 1
    <3>1. m \in 1 .. Len(all)
      BY <2>0, <2>1, <1>1
    <3>2. kept = SubSeq(all, m, Len(all)) /\ shift = m - 1
      BY <2>0, <2>1, <1>1
    <3> HIDE DEF m, kept, shift
    <3>3. /\ SubSeq(all, m, Len(all)) \in Seq(Blocks)
          /\ Len(SubSeq(all, m, Len(all))) = Len(all) - m + 1
          /\ \A j \in 1 .. Len(all) - m + 1 :
                SubSeq(all, m, Len(all))[j] = all[m + j - 1]
      BY <2>0, <3>1
    <3>4. \A j \in 1 .. Len(all) - m + 1 :
             j + (m - 1) = m + j - 1 /\ j + (m - 1) \in 1 .. Len(all)
      BY <2>0, <3>1
    <3>5. Len(all) - m + 1 = Len(all) - (m - 1) /\ m - 1 \in Nat
      BY <2>0, <3>1
    <3> QED
      BY <3>2, <3>3, <3>4, <3>5
  <2>2. CASE ~long
    BY <2>0, <2>2
  <2> QED
    BY <2>1, <2>2
<1>9. FollowsOrder(kept, n)
  <2> HIDE DEF all, kept, shift
  <2> QED
    BY <1>4, <1>7, <1>8 DEF FollowsOrder
<1>10. ~twin
  <2> SUFFICES ASSUME twin PROVE FALSE
    OBVIOUS
  <2> HIDE DEF kept, N
  <2>1. 1 \in 1 .. N /\ 1 \in 1 .. Len(kept) /\ 1 + N \in 1 .. Len(kept) /\ 1 + 1 < 1 + N
    BY <1>1
  <2>2. kept[1] = kept[1 + N] /\ kept[1] \in Blocks
    BY <2>1, <1>8
  <2>3. Pos(kept[1]) < Pos(kept[1 + N])
    BY <2>1, <1>9 DEF FollowsOrder
  <2> QED
    BY <2>2, <2>3, <1>5
<1> DEFINE h == [[g EXCEPT !.sequence = kept] EXCEPT !.safe = @ /\ ~twin]
<1>11. CheckCircularSequence(g, Order[n]) = [guard |-> h, ok |-> ~twin]
  BY DEF CheckCircularSequence, Judged
<1>12. ASSUME \A j \in 1 .. Len(g.sequence) : Pos(g.sequence[j]) < n
       PROVE  \A j \in 1 .. Len(kept) - 1 : Pos(kept[j]) < n
  <2>1. \A j \in 1 .. Len(all) - 1 : Pos(all[j]) < n
    BY <1>2, <1>4, <1>12
  <2> HIDE DEF all, kept, shift
  <2>2. \A j \in 1 .. Len(kept) - 1 :
           j \in 1 .. Len(kept) /\ j + shift \in 1 .. Len(all) - 1
    BY <1>4, <1>8
  <2> QED
    BY <2>1, <2>2, <1>8
<1>13. /\ h \in Guards /\ h.safe /\ h.iterations = g.iterations /\ h.count = g.count
       /\ h.lastBlock = g.lastBlock /\ h.repeats = g.repeats /\ h.sequence = kept
  <2> HIDE DEF kept, twin
  <2>1. h = [g EXCEPT !.sequence = kept, !.safe = TRUE]
    BY <1>10 DEF Guards
  <2> HIDE DEF h
  <2> QED
    BY <2>1, <1>8 DEF Guards
<1> HIDE DEF kept, twin, all, shift, h
<1> DEFINE c == CheckCircularSequence(g, Order[n])
<1>14. c.guard = h
  BY <1>11
<1>15. c.ok
  <2>1. c.ok = (~twin)
    BY <1>11
  <2> QED
    BY <2>1, <1>10
<1> HIDE DEF c
<1>16. (\A j \in 1 .. Len(g.sequence) : Pos(g.sequence[j]) < n)
         => (\A j \in 1 .. Len(c.guard.sequence) - 1 : Pos(c.guard.sequence[j]) < n)
  BY <1>12, <1>13, <1>14
<1>17. /\ c.guard \in Guards
       /\ c.guard.safe
       /\ c.guard.iterations = g.iterations
       /\ c.guard.count = g.count
       /\ c.guard.lastBlock = g.lastBlock
       /\ c.guard.repeats = g.repeats
       /\ FollowsOrder(c.guard.sequence, n)
  BY <1>9, <1>13, <1>14
<1> QED
  BY <1>15, <1>16, <1>17 DEF c

(* FollowsOrder weakens: places up to n - 1 are places up to n. *)
LEMMA FollowsOrderWeakens ==
    ASSUME NEW s \in Seq(Blocks), NEW n \in Int, FollowsOrder(s, n - 1)
    PROVE  FollowsOrder(s, n) /\ \A j \in 1 .. Len(s) : Pos(s[j]) < n
<1>1. \A j \in 1 .. Len(s) : Pos(s[j]) \in Int
  BY OrderOfPos DEF Indices
<1> QED
  BY <1>1 DEF FollowsOrder

(***************************************************************************)
(* should_abort lets the first visit of place n pass.                      *)
(***************************************************************************)
LEMMA FirstCount ==
    ASSUME OneTurnAtATime,
           NEW g \in Guards, NEW n \in Indices, Before(g, n)
    PROVE  LET v == ShouldAbort(RecordIteration(g), Order[n], 0, Len(Order), FALSE)
           IN  /\ ~v.abort
               /\ v.guard \in Guards
               /\ Chosen(v.guard, n)
<1> DEFINE b  == Order[n]
           g0 == RecordIteration(g)
           c1 == CheckIterationLimit(g0)
           c2 == CheckBlockExecutionLimit(c1.guard, b)
           c3 == CheckTimeout(c2.guard, FALSE)
           c4 == CheckCircularSequence(c3.guard, b)
           c5 == CheckBlockIndexStall(c4.guard, 0, Len(Order))
           counted == [g0 EXCEPT !.count[b] = @ + 1]
           g2 == [counted EXCEPT !.repeats = 0, !.lastBlock = b]
<1>1. n \in Nat /\ n <= Len(Order) /\ Len(Order) \in Nat /\ b \in Blocks
  BY PipelineAssumption, PosOfOrder DEF Indices
<1>2. /\ MaxIterations \in Nat /\ MaxBlockExecutions \in Nat
      /\ n <= MaxIterations /\ 1 <= MaxBlockExecutions
  BY <1>1, GuardAssumption DEF OneTurnAtATime
<1>3. /\ g.iterations = n - 1 /\ g.count[b] = 0 /\ g.lastBlock # b /\ g.safe
      /\ g.count \in [Blocks -> Int]
  BY <1>1 DEF Before, Guards
<1>4. g0 = [g EXCEPT !.iterations = n] /\ g0 \in Guards
  <2>1. g.iterations + 1 = n
    BY <1>1, <1>3
  <2>2. g0 = [g EXCEPT !.iterations = n]
    BY <2>1 DEF RecordIteration
  <2>3. [g EXCEPT !.iterations = n] \in Guards
    BY <1>1 DEF Guards
  <2> QED
    BY <2>2, <2>3
<1>5. c1.guard = g0 /\ c1.ok
  BY <1>1, <1>2, <1>3, <1>4 DEF CheckIterationLimit, Judged, Guards
<1> HIDE DEF b, g0
<1>6. /\ counted \in Guards /\ counted.safe /\ counted.sequence = g.sequence
      /\ counted.iterations = n /\ counted.lastBlock # b /\ counted.count[b] = 1
      /\ \A a \in Blocks : a # b => counted.count[a] = g.count[a]
  <2>1. /\ g0.count = g.count /\ g0.safe /\ g0.sequence = g.sequence
        /\ g0.iterations = n /\ g0.lastBlock = g.lastBlock
    BY <1>3, <1>4 DEF Guards
  <2>2. counted = [g0 EXCEPT !.count = [g.count EXCEPT ![b] = g.count[b] + 1]]
    BY <2>1
  <2>3. [g.count EXCEPT ![b] = g.count[b] + 1] \in [Blocks -> Int]
    BY <1>1, <1>3
  <2> HIDE DEF counted
  <2>4. /\ counted \in Guards
        /\ counted.count = [g.count EXCEPT ![b] = g.count[b] + 1]
        /\ counted.safe = g0.safe /\ counted.sequence = g0.sequence
        /\ counted.iterations = g0.iterations /\ counted.lastBlock = g0.lastBlock
    BY <1>4, <2>2, <2>3 DEF Guards
  <2> QED
    BY <1>1, <1>3, <2>1, <2>4
<1> HIDE DEF counted
<1>7. g2 \in Guards /\ g2.safe /\ g2.sequence = g.sequence /\ g2.iterations = n
      /\ g2.repeats = 0 /\ g2.lastBlock = b /\ g2.count[b] = 1
      /\ \A i \in Indices : i > n => g2.count[Order[i]] = 0
  <2>1. \A i \in Indices : i > n => Order[i] # b /\ Order[i] \in Blocks /\ i >= n
    BY <1>1, PosOfOrder DEF Indices, b
  <2>2. \A i \in Indices : i > n => counted.count[Order[i]] = 0
    BY <1>6, <2>1 DEF Before
  <2>3. g2.count = counted.count
    BY <1>6 DEF Guards
  <2> QED
    BY <1>1, <1>6, <2>2, <2>3 DEF Guards
<1>8. c2.guard = g2 /\ c2.ok
  <2>1. CheckBlockExecutionLimit(g0, b) = Judged(g2, TRUE)
    <3>1. ~(counted.count[b] > MaxBlockExecutions) /\ b # g0.lastBlock
      BY <1>2, <1>3, <1>4, <1>6 DEF Guards
    <3> QED
      BY <3>1 DEF CheckBlockExecutionLimit, counted
  <2> HIDE DEF g2, c1
  <2>2. [g2 EXCEPT !.safe = @ /\ TRUE] = g2
    BY <1>7 DEF Guards
  <2> QED
    BY <1>5, <2>1, <2>2 DEF Judged
<1> HIDE DEF g2
<1>9. c3.guard = g2 /\ c3.ok
  <2>1. [g2 EXCEPT !.safe = @ /\ TRUE] = g2
    BY <1>7 DEF Guards
  <2> QED
    BY <1>8, <2>1 DEF CheckTimeout, Judged
<1>10. FollowsOrder(g2.sequence, n) /\ \A j \in 1 .. Len(g2.sequence) : Pos(g2.sequence[j]) < n
  <2>1. g2.sequence \in Seq(Blocks)
    BY <1>7 DEF Guards
  <2>2. FollowsOrder(g2.sequence, n - 1)
    BY <1>7 DEF Before
  <2> QED
    BY <1>1, <2>1, <2>2, FollowsOrderWeakens
<1>11. /\ c4.ok
       /\ c4.guard \in Guards
       /\ c4.guard.safe
       /\ c4.guard.iterations = g2.iterations
       /\ c4.guard.count = g2.count
       /\ c4.guard.lastBlock = g2.lastBlock
       /\ c4.guard.repeats = g2.repeats
       /\ FollowsOrder(c4.guard.sequence, n)
       /\ \A j \in 1 .. Len(c4.guard.sequence) - 1 : Pos(c4.guard.sequence[j]) < n
  <2>1. \A j \in 1 .. Len(g2.sequence) - 1 : Pos(g2.sequence[j]) < n
    BY <1>7, <1>10 DEF Guards
  <2> HIDE DEF c3
  <2> QED
    BY <1>7, <1>9, <1>10, <2>1, NoTwinHalves DEF b
<1> HIDE DEF c4
<1>12. c5.guard = c4.guard /\ c5.ok
  <2>1. [c4.guard EXCEPT !.safe = @ /\ TRUE] = c4.guard
    BY <1>11 DEF Guards
  <2>2. (0 <= Len(Order)) = TRUE
    BY <1>1
  <2> QED
    BY <2>1, <2>2 DEF CheckBlockIndexStall, Judged
<1>13. ShouldAbort(g0, b, 0, Len(Order), FALSE)
         = [guard |-> c5.guard, abort |-> ~(c1.ok /\ c2.ok /\ c3.ok /\ c4.ok /\ c5.ok)]
  BY DEF ShouldAbort, c4
<1> HIDE DEF c1, c2, c3, c5, g0
<1>14. Chosen(c4.guard, n)
  BY <1>7, <1>11 DEF Chosen, b
<1> DEFINE v == ShouldAbort(RecordIteration(g), Order[n], 0, Len(Order), FALSE)
<1>15. v = [guard |-> c5.guard, abort |-> ~(c1.ok /\ c2.ok /\ c3.ok /\ c4.ok /\ c5.ok)]
  BY <1>13 DEF g0, b
<1> HIDE DEF v
<1>16. v.guard = c4.guard
  BY <1>12, <1>15
<1>17. ~v.abort
  <2>1. v.abort = ~(c1.ok /\ c2.ok /\ c3.ok /\ c4.ok /\ c5.ok)
    BY <1>15
  <2> QED
    BY <2>1, <1>5, <1>8, <1>9, <1>11, <1>12
<1> QED
  BY <1>11, <1>14, <1>16, <1>17 DEF v

(***************************************************************************)
(* The pre-check, which counts place n again, lets it pass too.            *)
(***************************************************************************)
LEMMA SecondCount ==
    ASSUME OneTurnAtATime,
           NEW g \in Guards, NEW n \in Indices, Chosen(g, n)
    PROVE  LET c == CheckBlockExecutionLimit(g, Order[n])
           IN  c.ok /\ c.guard \in Guards /\ Counted(c.guard, n)
<1> DEFINE b == Order[n]
           counted == [g EXCEPT !.count[b] = @ + 1]
           again == [counted EXCEPT !.repeats = @ + 1]
<1>1. b \in Blocks /\ MaxBlockExecutions \in Nat /\ MaxBlockExecutions >= 2
  BY PosOfOrder, GuardAssumption DEF OneTurnAtATime
<1>2. /\ g.count \in [Blocks -> Int] /\ g.count[b] = 1 /\ g.lastBlock = b
      /\ g.repeats = 0 /\ g.safe /\ g.iterations = n
  BY DEF Guards, Chosen
<1>3. \A i \in Indices : i > n => Order[i] # b /\ Order[i] \in Blocks
  BY PosOfOrder DEF Indices
<1> HIDE DEF b
<1>4. /\ counted \in Guards /\ counted.count[b] = 2
      /\ \A a \in Blocks : a # b => counted.count[a] = g.count[a]
      /\ counted.safe /\ counted.sequence = g.sequence /\ counted.iterations = n
      /\ counted.lastBlock = b /\ counted.repeats = 0
  <2>1. counted = [g EXCEPT !.count = [g.count EXCEPT ![b] = g.count[b] + 1]]
    BY <1>2
  <2>2. [g.count EXCEPT ![b] = g.count[b] + 1] \in [Blocks -> Int]
    BY <1>1, <1>2
  <2> HIDE DEF counted
  <2>3. /\ counted \in Guards
        /\ counted.count = [g.count EXCEPT ![b] = g.count[b] + 1]
        /\ counted.safe = g.safe /\ counted.sequence = g.sequence
        /\ counted.iterations = g.iterations /\ counted.lastBlock = g.lastBlock
        /\ counted.repeats = g.repeats
    BY <2>1, <2>2 DEF Guards
  <2> QED
    BY <1>1, <1>2, <2>3
<1> HIDE DEF counted
<1>5. /\ again \in Guards /\ again.repeats = 1 /\ again.safe
      /\ again.count = counted.count /\ again.sequence = g.sequence
      /\ again.iterations = n /\ again.lastBlock = b
  <2>1. again = [counted EXCEPT !.repeats = 1]
    BY <1>4
  <2> HIDE DEF again
  <2> QED
    BY <1>4, <2>1 DEF Guards
<1>6. CheckBlockExecutionLimit(g, b) = Judged(again, again.repeats < 2)
  <2>1. ~(counted.count[b] > MaxBlockExecutions) /\ b = g.lastBlock
    BY <1>1, <1>2, <1>4
  <2> QED
    BY <2>1 DEF CheckBlockExecutionLimit, counted
<1> HIDE DEF again
<1>7. Judged(again, again.repeats < 2) = [guard |-> again, ok |-> TRUE]
  <2>1. (again.repeats < 2) = TRUE
    BY <1>5
  <2>2. [again EXCEPT !.safe = @ /\ TRUE] = again
    BY <1>5 DEF Guards
  <2> QED
    BY <2>1, <2>2 DEF Judged
<1>8. Counted(again, n)
  <2>1. \A i \in Indices : i > n => again.count[Order[i]] = 0
    BY <1>3, <1>4, <1>5 DEF Chosen
  <2> QED
    BY <1>5, <2>1 DEF Chosen, Counted, b
<1>9. CheckBlockExecutionLimit(g, b) = [guard |-> again, ok |-> TRUE]
  BY <1>6, <1>7
<1> QED
  BY <1>5, <1>8, <1>9 DEF b

(***************************************************************************)
(* The check after the call records place n again; the guard is then ready *)
(* for the next place, as it is without that check.                        *)
(***************************************************************************)
LEMMA CountedIsBefore ==
    ASSUME NEW g \in Guards, NEW n \in Indices, Counted(g, n)
    PROVE  Before(g, n + 1)
<1>1. \A i \in Indices : i >= n + 1 => i > n /\ Order[i] # Order[n]
  BY PosOfOrder DEF Indices
<1>2. n \in Nat /\ (n + 1) - 1 = n
  BY DEF Indices
<1> QED
  BY <1>1, <1>2 DEF Counted, Before

LEMMA ChosenIsBefore ==
    ASSUME NEW g \in Guards, NEW n \in Indices, Chosen(g, n)
    PROVE  Before(g, n + 1)
  BY CountedIsBefore DEF Chosen, Counted

LEMMA ThirdRecord ==
    ASSUME NEW g \in Guards, NEW n \in Indices, Counted(g, n)
    PROVE  LET c == CheckCircularSequence(g, Order[n])
           IN  c.guard \in Guards /\ Before(c.guard, n + 1)
<1> DEFINE c == CheckCircularSequence(g, Order[n])
<1>1. /\ c.guard \in Guards
      /\ c.guard.safe
      /\ c.guard.iterations = g.iterations
      /\ c.guard.count = g.count
      /\ c.guard.lastBlock = g.lastBlock
      /\ FollowsOrder(c.guard.sequence, n)
  BY NoTwinHalves DEF Counted
<1> HIDE DEF c
<1>2. \A i \in Indices : i >= n + 1 => i > n /\ Order[i] # Order[n]
  BY PosOfOrder DEF Indices
<1>3. n \in Nat /\ (n + 1) - 1 = n
  BY DEF Indices
<1>4. Before(c.guard, n + 1)
  BY <1>1, <1>2, <1>3 DEF Counted, Before
<1> QED
  BY <1>1, <1>4 DEF c

-----------------------------------------------------------------------------
(* The inductive invariant *)

Active == {"loop", "group", "select", "block", "retry"}

Control ==
    /\ run \in [Runs -> Locals]
    /\ results \in [Runs -> [Blocks -> Statuses]]
    /\ executions \in [Runs -> [Blocks -> Nat]]
    /\ guard \in Guards

OneActive ==
    \A r, q \in Runs : run[r].at \in Active /\ run[q].at \in Active => r = q

(* Where the index is. *)
Placed(r) ==
    /\ ~run[r].aborted
    /\ run[r].at # "save"
    /\ run[r].at = "group" => Parallel
    /\ run[r].at = "ready" => run[r].index = 1 /\ run[r].previous = 0
    /\ run[r].at \in Active \ {"loop"} => run[r].index <= Len(Order)
    /\ run[r].at = "done" => run[r].index = Len(Order) + 1

(* What the guard has seen of the run at work. *)
GuardFits(r) ==
    /\ run[r].at \in Active => guard.safe
    /\ GuardOn =>
         /\ run[r].at = "loop" =>
              run[r].previous = run[r].index - 1 /\ Before(guard, run[r].index)
         /\ run[r].at \in {"group", "select"} =>
              run[r].previous = run[r].index /\ Chosen(guard, run[r].index)
         /\ run[r].at = "block" =>
              run[r].previous = run[r].index /\ Counted(guard, run[r].index)
         /\ run[r].at = "retry" =>
              run[r].previous = run[r].index /\ Before(guard, run[r].index + 1)

(* A group may be taken for executed although none of it was called. *)
GroupsGetLost == Parallel /\ CopiesFail

(* The block was called, or skipped by its own should_skip. *)
Served(r, b) ==
    \/ executions[r][b] > 0
    \/ b \in SelfSkips /\ results[r][b] = "skipped"
    \/ GroupsGetLost

(* What the run has passed. *)
AlwaysOnPassed(r) ==
    /\ \A b \in run[r].executed \cap Registered : executions[r][b] > 0 \/ GroupsGetLost
    /\ \A b \in AlwaysOn \cap Registered : Pos(b) < run[r].index => Served(r, b)
    /\ run[r].at \in {"block", "retry"} =>
         executions[r][Order[run[r].index]] > 0

RunInv(r) == Placed(r) /\ GuardFits(r) /\ AlwaysOnPassed(r)

TurnInv == Control /\ OneActive /\ \A r \in Runs : RunInv(r)

(* A step of the only run at work needs to be judged on that run alone.    *)
LEMMA OnlyTheActiveRun ==
    ASSUME TurnInv, NEW r \in Runs,
           \A q \in Runs \ {r} : run[q].at \notin Active,
           Control',
           \A q \in Runs \ {r} : /\ run'[q] = run[q]
                                 /\ results'[q] = results[q]
                                 /\ executions'[q] = executions[q],
           RunInv(r)'
    PROVE  TurnInv'
<1>1. OneActive'
  BY DEF OneActive
<1>2. ASSUME NEW q \in Runs \ {r} PROVE RunInv(q)'
  <2>1. Placed(q)'
    BY <1>2 DEF TurnInv, RunInv, Placed
  <2>2. GuardFits(q)'
    BY <1>2 DEF GuardFits, Active
  <2>3. AlwaysOnPassed(q)'
    BY <1>2 DEF TurnInv, RunInv, AlwaysOnPassed, Served
  <2> QED
    BY <2>1, <2>2, <2>3 DEF RunInv
<1> QED
  BY <1>1, <1>2 DEF TurnInv

LEMMA FreshIsBefore == FreshGuard(Blocks) \in Guards /\ Before(FreshGuard(Blocks), 1)
<1>1. FreshGuard(Blocks) \in Guards
  BY DEF FreshGuard, Guards
<1>2. \A i \in Indices : Order[i] \in Blocks /\ Order[i] # NoBlock
  BY PosOfOrder, PipelineAssumption
<1> QED
  BY <1>1, <1>2 DEF FreshGuard, Before, FollowsOrder

LEMMA BeforeIsSafe ==
    ASSUME NEW g, NEW n, Before(g, n) \/ Chosen(g, n) \/ Counted(g, n)
    PROVE  g.safe
  BY DEF Before, Chosen, Counted

LEMMA InitInv == Init => TurnInv
<1> SUFFICES ASSUME Init PROVE TurnInv
  OBVIOUS
<1>1. Len(Order) \in Nat /\ Len(Order) > 0
  BY PipelineAssumption
<1>2. Control
  BY <1>1, FreshIsBefore DEF Init, Control, Locals, AtAwait, Statuses
<1>3. OneActive
  BY DEF Init, OneActive, Active
<1>4. ASSUME NEW r \in Runs PROVE RunInv(r)
  <2>1. run[r].at = "ready" /\ run[r].index = 1 /\ run[r].previous = 0
        /\ run[r].executed = {} /\ ~run[r].aborted
    BY DEF Init
  <2>2. Placed(r) /\ GuardFits(r)
    BY <2>1 DEF Placed, GuardFits, Active
  <2>3. AlwaysOnPassed(r)
    BY <2>1, OrderOfPos, PipelineAssumption DEF AlwaysOnPassed, Indices
  <2> QED
    BY <2>2, <2>3 DEF RunInv
<1> QED
  BY <1>2, <1>3, <1>4 DEF TurnInv

(***************************************************************************)
(* One lemma per action.                                                   *)
(***************************************************************************)
LEMMA StartKeeps ==
    ASSUME OneTurnAtATime, TurnInv, NEW r \in Runs, Start(r)
    PROVE  TurnInv'
<1>1. run \in [Runs -> Locals] /\ run[r] \in Locals /\ run[r].at = "ready"
  BY DEF TurnInv, Control, Start
<1>2. \A q \in Runs \ {r} : run[q].at \notin Active
  BY DEF Start, OneTurnAtATime, Active
<1>3. /\ run'[r] = [run[r] EXCEPT !.at = "loop"]
      /\ \A q \in Runs \ {r} : run'[q] = run[q]
      /\ run' \in [Runs -> Locals]
  BY <1>1 DEF Start, Locals
<1>4. guard' \in Guards /\ Before(guard', 1) /\ guard'.safe
  BY FreshIsBefore, BeforeIsSafe DEF Start
<1>5. Control' /\ UNCHANGED <<results, executions>>
  BY <1>3, <1>4 DEF TurnInv, Control, Start
<1>6. /\ run'[r].at = "loop" /\ run'[r].index = 1 /\ run'[r].previous = 0
      /\ run'[r].executed = run[r].executed /\ ~run'[r].aborted
  BY <1>1, <1>3 DEF TurnInv, RunInv, Placed, Locals
<1>7. Placed(r)' /\ GuardFits(r)'
  BY <1>4, <1>6 DEF Placed, GuardFits, Active
<1>8. AlwaysOnPassed(r)'
  BY <1>1, <1>5, <1>6 DEF TurnInv, RunInv, Placed, AlwaysOnPassed, Served
<1> QED
  BY <1>2, <1>3, <1>5, <1>7, <1>8, OnlyTheActiveRun DEF RunInv

(* At a step of a run at work no other run is at work. *)
LEMMA OthersRest ==
    ASSUME TurnInv, NEW r \in Runs, run[r].at \in Active
    PROVE  \A q \in Runs \ {r} : run[q].at \notin Active
  BY DEF TurnInv, OneActive

LEMMA GroupsAreBlocks == \A s \in SUBSET Blocks : NextGroup(s) \subseteq Blocks
<1>1. \A s \in SUBSET Blocks : IntentGroup(s) \subseteq Blocks
  BY PipelineAssumption DEF IntentGroup
<1>2. \A s \in SUBSET Blocks : StaticGroup(s) \subseteq Blocks
  BY DEF StaticGroup
<1> QED
  BY <1>1, <1>2 DEF NextGroup

LEMMA IterateKeeps ==
    ASSUME OneTurnAtATime, TurnInv, NEW r \in Runs, Iterate(r)
    PROVE  TurnInv'
<1>1. /\ run \in [Runs -> Locals] /\ run[r] \in Locals /\ run[r].at = "loop"
      /\ guard \in Guards /\ run[r].index \in Indices /\ ~run[r].aborted
  BY DEF TurnInv, Control, Iterate, RunInv, Placed, Locals, Indices
<1>2. Len(Order) \in Nat
  BY PipelineAssumption
<1> DEFINE n == run[r].index
           group == NextGroup(run[r].executed)
           verdict(stall) ==
             ShouldAbort(RecordIteration(guard), Order[n], stall, Len(Order), FALSE)
           at == IF group # {} THEN "group" ELSE "select"
<1>3. \A q \in Runs \ {r} : run[q].at \notin Active
  BY <1>1, OthersRest DEF Active
<1>4. group \subseteq Blocks /\ (at = "group" => Parallel)
  BY <1>1, GroupsAreBlocks DEF Locals, NextGroup
<1>5. CASE GuardOn
  <2>1. run[r].previous = n - 1 /\ Before(guard, n)
    BY <1>1, <1>5 DEF TurnInv, RunInv, GuardFits
  <2>2. n # run[r].previous
    BY <1>1, <2>1 DEF Indices
  <2>3. /\ ~verdict(0).abort /\ verdict(0).guard \in Guards
        /\ Chosen(verdict(0).guard, n)
    BY <1>1, <2>1, FirstCount
  <2> HIDE DEF group
  <2>4. /\ guard' = verdict(0).guard
        /\ run' = [run EXCEPT ![r].previous = n, ![r].stall = 0,
                               ![r].aborted = FALSE, ![r].group = group,
                               ![r].at = at]
    <3>1. PICK late \in BOOLEAN :
            /\ late => MayTimeOut
            /\ LET stalled == run[r].index = run[r].previous
                   stall   == IF stalled THEN run[r].stall + 1 ELSE 0
                   v == ShouldAbort(RecordIteration(guard), Current(r), stall,
                                    Len(Order), late)
               IN  /\ guard' = v.guard
                   /\ run' = [run EXCEPT
                        ![r].previous = run[r].index,
                        ![r].stall    = stall,
                        ![r].aborted  = GuardOn /\ v.abort,
                        ![r].group    = IF GuardOn /\ v.abort THEN {} ELSE group,
                        ![r].at       = IF GuardOn /\ v.abort THEN "save"
                                        ELSE IF group # {} THEN "group" ELSE "select"]
      BY <1>5 DEF Iterate, group
    <3>2. late = FALSE
      BY <3>1 DEF OneTurnAtATime
    <3>3. /\ guard' = verdict(0).guard
          /\ run' = [run EXCEPT
                ![r].previous = n, ![r].stall = 0,
                ![r].aborted  = GuardOn /\ verdict(0).abort,
                ![r].group    = IF GuardOn /\ verdict(0).abort THEN {} ELSE group,
                ![r].at       = IF GuardOn /\ verdict(0).abort THEN "save" ELSE at]
      BY <3>1, <3>2, <2>2 DEF Current
    <3> HIDE DEF verdict
    <3>4. (GuardOn /\ verdict(0).abort) = FALSE
      BY <2>3
    <3> QED
      BY <3>3, <3>4
  <2> HIDE DEF verdict
  <2>5. /\ run'[r] = [run[r] EXCEPT !.previous = n, !.stall = 0, !.aborted = FALSE,
                                    !.group = group, !.at = at]
        /\ \A q \in Runs \ {r} : run'[q] = run[q]
        /\ run' \in [Runs -> Locals]
    <3> DEFINE new == [run[r] EXCEPT !.previous = n, !.stall = 0, !.aborted = FALSE,
                                     !.group = group, !.at = at]
    <3>1. n \in 0 .. Len(Order) /\ at \in AtAwait \cup {"loop", "select", "save"}
      BY <1>1, <1>2 DEF Indices, AtAwait
    <3>2. new \in Locals
      BY <1>1, <1>4, <3>1 DEF Locals
    <3>3. run' = [run EXCEPT ![r] = new]
      BY <1>1, <2>4
    <3> QED
      BY <1>1, <3>2, <3>3
  <2>6. /\ run'[r].at \in {"group", "select"} /\ run'[r].index = n
        /\ run'[r].previous = n /\ run'[r].executed = run[r].executed
        /\ ~run'[r].aborted /\ run'[r].at = at
    BY <1>1, <2>5 DEF Locals
  <2>7. Control' /\ UNCHANGED <<results, executions>>
    BY <2>3, <2>4, <2>5 DEF TurnInv, Control, Iterate
  <2>8. Placed(r)' /\ GuardFits(r)'
    BY <1>1, <1>4, <2>3, <2>4, <2>6, BeforeIsSafe DEF Placed, GuardFits, Active, Indices
  <2>9. AlwaysOnPassed(r)'
    BY <2>6, <2>7 DEF TurnInv, RunInv, AlwaysOnPassed, Served
  <2> QED
    BY <1>3, <2>5, <2>7, <2>8, <2>9, OnlyTheActiveRun DEF RunInv
<1>6. CASE ~GuardOn
  <2> HIDE DEF group
  <2>1. /\ guard' = guard
        /\ run' = [run EXCEPT ![r].aborted = FALSE, ![r].group = group, ![r].at = at]
    <3>1. PICK late \in BOOLEAN :
            LET stalled == run[r].index = run[r].previous
                stall   == IF stalled THEN run[r].stall + 1 ELSE 0
                v == ShouldAbort(RecordIteration(guard), Current(r), stall,
                                 Len(Order), late)
            IN  /\ guard' = guard
                /\ run' = [run EXCEPT
                     ![r].previous = @,
                     ![r].stall    = @,
                     ![r].aborted  = GuardOn /\ v.abort,
                     ![r].group    = IF GuardOn /\ v.abort THEN {} ELSE group,
                     ![r].at       = IF GuardOn /\ v.abort THEN "save"
                                     ELSE IF group # {} THEN "group" ELSE "select"]
      BY <1>6 DEF Iterate, group
    <3>2. guard' = guard
      BY <3>1
    <3>3. PICK v : run' = [run EXCEPT
                     ![r].previous = @,
                     ![r].stall    = @,
                     ![r].aborted  = GuardOn /\ v.abort,
                     ![r].group    = IF GuardOn /\ v.abort THEN {} ELSE group,
                     ![r].at       = IF GuardOn /\ v.abort THEN "save" ELSE at]
      BY <3>1
    <3>4. (GuardOn /\ v.abort) = FALSE
      BY <1>6
    <3> QED
      BY <1>1, <3>2, <3>3, <3>4 DEF Locals
  <2>2. /\ run'[r] = [run[r] EXCEPT !.aborted = FALSE, !.group = group, !.at = at]
        /\ \A q \in Runs \ {r} : run'[q] = run[q]
        /\ run' \in [Runs -> Locals]
    BY <1>1, <1>4, <2>1 DEF Locals, AtAwait
  <2>3. /\ run'[r].at \in {"group", "select"} /\ run'[r].index = n
        /\ run'[r].executed = run[r].executed /\ ~run'[r].aborted
        /\ run'[r].at = at
    BY <1>1, <2>2 DEF Locals
  <2>4. Control' /\ UNCHANGED <<results, executions>>
    BY <2>1, <2>2 DEF TurnInv, Control, Iterate
  <2>5. Placed(r)' /\ GuardFits(r)'
    BY <1>1, <1>4, <1>6, <2>1, <2>3
       DEF TurnInv, RunInv, Placed, GuardFits, Active, Indices
  <2>6. AlwaysOnPassed(r)'
    BY <2>3, <2>4 DEF TurnInv, RunInv, AlwaysOnPassed, Served
  <2> QED
    BY <1>3, <2>2, <2>4, <2>5, <2>6, OnlyTheActiveRun DEF RunInv
<1> QED
  BY <1>5, <1>6

(* At a step of the run at work on the block at its index. *)
LEMMA AtBlock ==
    ASSUME TurnInv, NEW r \in Runs, run[r].at \in Active \ {"loop"}
    PROVE  /\ run[r] \in Locals /\ run[r].index \in Indices /\ ~run[r].aborted
           /\ Current(r) = Order[run[r].index] /\ Current(r) \in Blocks
           /\ Pos(Current(r)) = run[r].index
           /\ \A b \in Blocks : Pos(b) < run[r].index + 1 =>
                                   Pos(b) < run[r].index \/ b = Current(r)
           /\ \A q \in Runs \ {r} : run[q].at \notin Active
<1>1. run[r] \in Locals /\ run[r].index <= Len(Order) /\ ~run[r].aborted
  BY DEF TurnInv, Control, RunInv, Placed
<1>2. run[r].index \in Indices
  BY <1>1, PipelineAssumption DEF Locals, Indices
<1>3. Current(r) = Order[run[r].index] /\ Current(r) \in Blocks
      /\ Pos(Current(r)) = run[r].index
  BY <1>2, PosOfOrder DEF Current
<1>4. \A b \in Blocks : Pos(b) \in Indices /\ Order[Pos(b)] = b
  BY OrderOfPos
<1>5. \A b \in Blocks : Pos(b) < run[r].index + 1 =>
                            Pos(b) < run[r].index \/ b = Current(r)
  BY <1>2, <1>3, <1>4 DEF Indices
<1> QED
  BY <1>1, <1>2, <1>3, <1>5, OthersRest

LEMMA RunGroupKeeps ==
    ASSUME OneTurnAtATime, TurnInv, NEW r \in Runs, RunGroup(r)
    PROVE  TurnInv'
<1>1. /\ run \in [Runs -> Locals] /\ run[r].at = "group"
      /\ run[r].group \subseteq Blocks /\ run[r].executed \subseteq Blocks
      /\ results \in [Runs -> [Blocks -> Statuses]]
      /\ executions \in [Runs -> [Blocks -> Nat]]
  BY DEF TurnInv, Control, RunGroup, Locals
<1>2. /\ run[r] \in Locals /\ run[r].index \in Indices /\ ~run[r].aborted
      /\ \A q \in Runs \ {r} : run[q].at \notin Active
  BY <1>1, AtBlock DEF Active
<1> DEFINE called == run[r].group \cap Registered
<1>3. PICK failed, declined : GroupAnswers(r, called, failed, declined)
  BY DEF RunGroup
<1>4. PICK exits :
        /\ run' = [run EXCEPT ![r].at = "select", ![r].group = {},
                              ![r].executed = @ \cup run[r].group,
                              ![r].earlyExit = @ \/ exits # {}]
        /\ results' = [results EXCEPT ![r] = [b \in Blocks |->
             IF b \notin run[r].group THEN @[b]
             ELSE IF b \in called \ (failed \cup declined) THEN "ok"
             ELSE IF b \in declined THEN "skipped" ELSE "error"]]
        /\ executions' = [executions EXCEPT ![r] = [b \in Blocks |->
             IF b \in called THEN @[b] + 1 ELSE @[b]]]
  BY <1>3 DEF GroupAnswers, GroupStatus
<1>5. /\ run'[r].at = "select" /\ run'[r].index = run[r].index
      /\ run'[r].previous = run[r].previous /\ ~run'[r].aborted
      /\ run'[r].executed = run[r].executed \cup run[r].group
      /\ \A q \in Runs \ {r} : run'[q] = run[q]
      /\ run' \in [Runs -> Locals]
  <2> DEFINE exit == run[r].earlyExit \/ exits # {}
             new == [run[r] EXCEPT !.at = "select", !.group = {},
                                   !.executed = run[r].executed \cup run[r].group,
                                   !.earlyExit = exit]
  <2>1. exit \in BOOLEAN
    OBVIOUS
  <2>2. run' = [run EXCEPT ![r] = new]
    BY <1>1, <1>4
  <2> HIDE DEF exit
  <2>3. new \in Locals
    BY <1>1, <1>2, <2>1 DEF Locals
  <2>4. /\ new.at = "select" /\ new.index = run[r].index
        /\ new.previous = run[r].previous /\ new.aborted = run[r].aborted
        /\ new.executed = run[r].executed \cup run[r].group
    BY <1>2 DEF Locals
  <2> HIDE DEF new
  <2> QED
    BY <1>1, <1>2, <2>2, <2>3, <2>4
<1>6. /\ results' \in [Runs -> [Blocks -> Statuses]]
      /\ \A b \in Blocks \ run[r].group : results'[r][b] = results[r][b]
      /\ \A q \in Runs \ {r} : results'[q] = results[q]
  BY <1>1, <1>4 DEF Statuses
<1>7. /\ executions' \in [Runs -> [Blocks -> Nat]]
      /\ \A b \in Blocks \ called : executions'[r][b] = executions[r][b]
      /\ \A b \in Blocks \cap called : executions'[r][b] = executions[r][b] + 1
      /\ \A q \in Runs \ {r} : executions'[q] = executions[q]
  BY <1>1, <1>4
<1>8. Control' /\ guard' = guard
  BY <1>5, <1>6, <1>7 DEF TurnInv, Control, RunGroup
<1>9. Placed(r)' /\ GuardFits(r)'
  BY <1>1, <1>2, <1>5, <1>8 DEF TurnInv, RunInv, Placed, GuardFits, Active, Indices
<1>10. AlwaysOnPassed(r)'
  <2>1. \A b \in Blocks : executions[r][b] > 0 => executions'[r][b] > 0
    BY <1>1, <1>7
  <2>2. \A b \in called : executions'[r][b] > 0
    BY <1>1, <1>7
  <2>3. \A b \in Blocks \cap Registered : Served(r, b) => Served(r, b)'
    BY <1>6, <2>1, <2>2 DEF Served
  <2>4. \A b \in run'[r].executed \cap Registered :
          executions'[r][b] > 0 \/ GroupsGetLost
    BY <1>1, <1>5, <2>1, <2>2 DEF TurnInv, RunInv, AlwaysOnPassed
  <2> QED
    BY <1>1, <1>5, <2>3, <2>4, PipelineAssumption
       DEF TurnInv, RunInv, AlwaysOnPassed
<1> QED
  BY <1>2, <1>5, <1>6, <1>7, <1>8, <1>9, <1>10, OnlyTheActiveRun DEF RunInv

LEMMA LoseGroupKeeps ==
    ASSUME OneTurnAtATime, TurnInv, NEW r \in Runs, LoseGroup(r)
    PROVE  TurnInv'
<1>1. /\ run \in [Runs -> Locals] /\ run[r].at = "group"
      /\ run[r].group \subseteq Blocks /\ run[r].executed \subseteq Blocks
      /\ executions \in [Runs -> [Blocks -> Nat]]
      /\ results' = results /\ guard' = guard /\ Parallel
  BY DEF TurnInv, Control, RunInv, Placed, LoseGroup, Locals
<1>2. /\ run[r] \in Locals /\ run[r].index \in Indices /\ ~run[r].aborted
      /\ \A q \in Runs \ {r} : run[q].at \notin Active
  BY <1>1, AtBlock DEF Active
<1>3. PICK called \in {{}, run[r].group \cap Registered} :
        /\ called = {} => CopiesFail
        /\ executions' = [executions EXCEPT ![r] = [b \in Blocks |->
             IF b \in called THEN @[b] + 1 ELSE @[b]]]
  BY DEF LoseGroup
<1>4. /\ run'[r].at = "select" /\ run'[r].index = run[r].index
      /\ run'[r].previous = run[r].previous /\ ~run'[r].aborted
      /\ run'[r].executed = run[r].executed \cup run[r].group
      /\ \A q \in Runs \ {r} : run'[q] = run[q]
      /\ run' \in [Runs -> Locals]
  <2> DEFINE new == [run[r] EXCEPT !.at = "select", !.group = {},
                                   !.executed = run[r].executed \cup run[r].group]
  <2>1. run' = [run EXCEPT ![r] = new]
    BY <1>1 DEF LoseGroup
  <2>2. new \in Locals
    BY <1>1, <1>2 DEF Locals
  <2>3. /\ new.at = "select" /\ new.index = run[r].index
        /\ new.previous = run[r].previous /\ new.aborted = run[r].aborted
        /\ new.executed = run[r].executed \cup run[r].group
    BY <1>2 DEF Locals
  <2> HIDE DEF new
  <2> QED
    BY <1>1, <1>2, <2>1, <2>2, <2>3
<1>5. /\ executions' \in [Runs -> [Blocks -> Nat]]
      /\ \A b \in Blocks : executions[r][b] > 0 => executions'[r][b] > 0
      /\ \A b \in Blocks \cap called : executions'[r][b] > 0
      /\ \A q \in Runs \ {r} : executions'[q] = executions[q]
  <2>1. \A b \in Blocks : executions'[r][b] =
          IF b \in called THEN executions[r][b] + 1 ELSE executions[r][b]
    BY <1>1, <1>3
  <2>2. executions' \in [Runs -> [Blocks -> Nat]]
    BY <1>1, <1>3
  <2>3. \A q \in Runs \ {r} : executions'[q] = executions[q]
    BY <1>1, <1>3
  <2> QED
    BY <1>1, <2>1, <2>2, <2>3
<1>6. Control'
  BY <1>1, <1>4, <1>5 DEF TurnInv, Control
<1>7. Placed(r)' /\ GuardFits(r)'
  BY <1>1, <1>2, <1>4, <1>6 DEF TurnInv, RunInv, Placed, GuardFits, Active, Indices
<1>8. AlwaysOnPassed(r)'
  <2>1. \A b \in Blocks : Served(r, b) => Served(r, b)'
    BY <1>1, <1>5 DEF Served
  <2>2. \A b \in run[r].group \cap Registered : executions'[r][b] > 0 \/ GroupsGetLost
    BY <1>1, <1>3, <1>5 DEF GroupsGetLost
  <2>3. \A b \in run'[r].executed \cap Registered :
          executions'[r][b] > 0 \/ GroupsGetLost
    BY <1>1, <1>4, <1>5, <2>2 DEF TurnInv, RunInv, AlwaysOnPassed
  <2> QED
    BY <1>4, <2>1, <2>3, PipelineAssumption DEF TurnInv, RunInv, AlwaysOnPassed
<1> QED
  BY <1>1, <1>2, <1>4, <1>5, <1>6, <1>7, <1>8, OnlyTheActiveRun DEF RunInv

(***************************************************************************)
(* The step of run r from the block at its index to the next one: what it  *)
(* does to the run, to the guard, and to the block it leaves.              *)
(***************************************************************************)
MovesOn(r) ==
    /\ run' \in [Runs -> Locals]
    /\ run'[r].at = "loop"
    /\ run'[r].index = run[r].index + 1
    /\ run'[r].previous = run[r].previous
    /\ run'[r].executed = run[r].executed
    /\ ~run'[r].aborted
    /\ \A q \in Runs \ {r} : run'[q] = run[q]

Records(r) ==
    /\ results' \in [Runs -> [Blocks -> Statuses]]
    /\ executions' \in [Runs -> [Blocks -> Nat]]
    /\ \A q \in Runs \ {r} : results'[q] = results[q] /\ executions'[q] = executions[q]
    /\ \A b \in Blocks \ {Current(r)} : results'[r][b] = results[r][b]
    /\ \A b \in Blocks : executions[r][b] > 0 => executions'[r][b] > 0

GuardReady(r) ==
    /\ guard' \in Guards /\ guard'.safe
    /\ GuardOn => /\ run[r].previous = run[r].index
                  /\ Before(guard', run[r].index + 1)

LeavesServed(r) == \A b \in AlwaysOn \cap Registered : b = Current(r) => Served(r, b)'

LEMMA NextBlockKeeps ==
    ASSUME TurnInv, NEW r \in Runs, run[r].at \in Active \ {"loop"},
           MovesOn(r), Records(r), GuardReady(r), LeavesServed(r)
    PROVE  TurnInv'
<1>1. /\ run[r] \in Locals /\ run[r].index \in Indices
      /\ Current(r) \in Blocks /\ run \in [Runs -> Locals]
      /\ \A b \in Blocks : Pos(b) < run[r].index + 1 =>
                              Pos(b) < run[r].index \/ b = Current(r)
      /\ \A q \in Runs \ {r} : run[q].at \notin Active
  BY AtBlock DEF TurnInv, Control
<1>2. Control'
  BY DEF Control, MovesOn, Records, GuardReady
<1>3. Placed(r)'
  BY DEF Placed, MovesOn, Active
<1>4. GuardFits(r)'
  <2>1. ASSUME GuardOn
        PROVE  run'[r].previous = run'[r].index - 1 /\ Before(guard', run'[r].index)
    BY <1>1, <2>1 DEF Indices, MovesOn, GuardReady
  <2> QED
    BY <2>1 DEF GuardFits, MovesOn, GuardReady
<1>5. AlwaysOnPassed(r)'
  <2>1. \A b \in Blocks \ {Current(r)} : Served(r, b) => Served(r, b)'
    BY DEF Served, Records
  <2>2. ASSUME NEW b \in AlwaysOn \cap Registered, Pos(b) < run[r].index + 1
        PROVE  Served(r, b)'
    <3>1. b \in Blocks
      BY PipelineAssumption
    <3>2. CASE b = Current(r)
      BY <3>2 DEF LeavesServed
    <3>3. CASE b # Current(r)
      BY <1>1, <2>1, <2>2, <3>1, <3>3 DEF TurnInv, RunInv, AlwaysOnPassed
    <3> QED
      BY <3>2, <3>3
  <2>3. \A b \in run'[r].executed \cap Registered :
          executions'[r][b] > 0 \/ GroupsGetLost
    BY <1>1 DEF TurnInv, RunInv, AlwaysOnPassed, Locals, MovesOn, Records
  <2> QED
    BY <2>2, <2>3 DEF AlwaysOnPassed, MovesOn
<1> QED
  BY <1>1, <1>2, <1>3, <1>4, <1>5, OnlyTheActiveRun DEF RunInv, MovesOn, Records

(* What the run does when the locals become NextBlock of some record.      *)
LEMMA NextBlockMoves ==
    ASSUME TurnInv, NEW r \in Runs, run[r].at \in Active \ {"loop"},
           NEW s \in SUBSET Blocks, NEW e \in BOOLEAN,
           run' = [run EXCEPT ![r] = [run[r] EXCEPT !.at = "loop", !.skipped = s,
                                        !.index = run[r].index + 1, !.earlyExit = e]]
    PROVE  MovesOn(r)
<1> DEFINE new == [run[r] EXCEPT !.at = "loop", !.skipped = s,
                                 !.index = run[r].index + 1, !.earlyExit = e]
<1>1. /\ run[r] \in Locals /\ run[r].index \in Indices /\ ~run[r].aborted
      /\ run \in [Runs -> Locals]
  BY AtBlock DEF TurnInv, Control
<1>2. run[r].index + 1 \in 1 .. Len(Order) + 1
  BY <1>1, PipelineAssumption DEF Indices
<1>3. /\ new \in Locals /\ new.at = "loop" /\ new.index = run[r].index + 1
      /\ new.previous = run[r].previous /\ new.executed = run[r].executed
      /\ new.aborted = run[r].aborted
  BY <1>1, <1>2 DEF Locals
<1>4. run' = [run EXCEPT ![r] = new]
  OBVIOUS
<1> HIDE DEF new
<1> QED
  BY <1>1, <1>3, <1>4 DEF MovesOn

LEMMA PassOverKeeps ==
    ASSUME OneTurnAtATime, TurnInv, NEW r \in Runs, PassOver(r)
    PROVE  TurnInv'
<1> DEFINE b == Current(r)
           check == CheckBlockExecutionLimit(guard, b)
           advanced == [run EXCEPT ![r] = NextBlock(@)]
           ran == /\ b \in run[r].executed
                  /\ run' = advanced
                  /\ UNCHANGED <<results, guard>>
           unknown == /\ b \notin run[r].executed \cup Registered
                      /\ run' = [advanced EXCEPT ![r].skipped = @ \cup {b}]
                      /\ UNCHANGED <<results, guard>>
           skip == /\ b \in Registered \ run[r].executed
                   /\ \E self \in {FALSE, (b \in SelfSkips)} : SkipsBlock(r, b, self)
                   /\ run' = [advanced EXCEPT ![r].skipped = @ \cup {b}]
                   /\ results' = [results EXCEPT ![r][b] = "skipped"]
                   /\ UNCHANGED guard
<1>1. /\ run[r].at = "select" /\ run \in [Runs -> Locals] /\ guard \in Guards
      /\ results \in [Runs -> [Blocks -> Statuses]]
      /\ executions \in [Runs -> [Blocks -> Nat]] /\ executions' = executions
  BY DEF TurnInv, Control, PassOver
<1>2. /\ run[r] \in Locals /\ run[r].index \in Indices
      /\ b = Order[run[r].index] /\ b \in Blocks
  BY <1>1, AtBlock DEF Active
<1>3. guard.safe /\ (GuardOn => /\ run[r].previous = run[r].index
                               /\ Chosen(guard, run[r].index))
  BY <1>1 DEF TurnInv, RunInv, GuardFits, Active
<1>4. ran \/ unknown \/ skip
  <2>1. GuardOn => check.ok
    BY <1>1, <1>2, <1>3, SecondCount
  <2> HIDE DEF check
  <2> QED
    BY <2>1 DEF PassOver, check
<1>5. guard' = guard
  BY <1>4
<1>6. GuardReady(r)
  BY <1>1, <1>2, <1>3, <1>5, ChosenIsBefore DEF GuardReady
<1>7. MovesOn(r)
  <2>1. PICK s \in SUBSET Blocks :
          run' = [run EXCEPT ![r] = [run[r] EXCEPT !.at = "loop", !.skipped = s,
                    !.index = run[r].index + 1, !.earlyExit = run[r].earlyExit]]
    <3>1. /\ advanced[r] = [run[r] EXCEPT !.at = "loop", !.index = run[r].index + 1]
          /\ advanced[r].skipped = run[r].skipped
          /\ run[r].skipped \in SUBSET Blocks
      BY <1>1, <1>2 DEF NextBlock, Locals
    <3>2. CASE ran
      BY <1>1, <1>2, <3>1, <3>2 DEF NextBlock, Locals
    <3>3. CASE unknown \/ skip
      <4>1. run' = [advanced EXCEPT ![r].skipped = run[r].skipped \cup {b}]
        BY <1>1, <3>1, <3>3
      <4>2. run' = [run EXCEPT ![r] = [advanced[r] EXCEPT
                                          !.skipped = run[r].skipped \cup {b}]]
        BY <1>1, <4>1
      <4>3. run' = [run EXCEPT ![r] = [run[r] EXCEPT !.at = "loop",
                      !.skipped = run[r].skipped \cup {b},
                      !.index = run[r].index + 1, !.earlyExit = run[r].earlyExit]]
        <5> HIDE DEF advanced, b
        <5>1. [advanced[r] EXCEPT !.skipped = run[r].skipped \cup {b}]
                = [run[r] EXCEPT !.at = "loop", !.skipped = run[r].skipped \cup {b},
                                 !.index = run[r].index + 1]
          BY <1>2, <3>1 DEF Locals
        <5>2. [run[r] EXCEPT !.at = "loop", !.skipped = run[r].skipped \cup {b},
                             !.index = run[r].index + 1]
                = [run[r] EXCEPT !.at = "loop", !.skipped = run[r].skipped \cup {b},
                      !.index = run[r].index + 1, !.earlyExit = run[r].earlyExit]
          BY <1>2 DEF Locals
        <5> QED
          BY <4>2, <5>1, <5>2
      <4> QED
        BY <1>2, <3>1, <4>3
    <3> QED
      BY <1>4, <3>2, <3>3
  <2>2. run[r].earlyExit \in BOOLEAN
    BY <1>2 DEF Locals
  <2> QED
    BY <1>1, <2>1, <2>2, NextBlockMoves DEF Active
<1>8. Records(r)
  <2>1. PICK status \in Statuses : results' = [results EXCEPT ![r][b] = status]
    <3>1. CASE ran \/ unknown
      <4>1. results' = [results EXCEPT ![r][b] = results[r][b]]
        BY <1>1, <1>2, <3>1
      <4> QED
        BY <1>1, <1>2, <4>1
    <3>2. CASE skip
      BY <3>2 DEF Statuses
    <3> QED
      BY <1>4, <3>1, <3>2
  <2> HIDE DEF b
  <2> QED
    BY <1>1, <1>2, <2>1 DEF Records, b
<1>9. LeavesServed(r)
  <2>1. CASE ran
    BY <1>1, <2>1 DEF TurnInv, RunInv, AlwaysOnPassed, LeavesServed, Served
  <2>2. CASE unknown
    BY <2>2 DEF LeavesServed
  <2>3. CASE skip
    <3>1. results'[r][b] = "skipped"
      BY <1>1, <1>2, <2>3
    <3>2. b \in AlwaysOn => b \in SelfSkips
      BY <2>3 DEF SkipsBlock
    <3> QED
      BY <3>1, <3>2 DEF LeavesServed, Served
  <2> QED
    BY <1>4, <2>1, <2>2, <2>3
<1> QED
  BY <1>1, <1>6, <1>7, <1>8, <1>9, NextBlockKeeps DEF Active

LEMMA CallBlockKeeps ==
    ASSUME OneTurnAtATime, TurnInv, NEW r \in Runs, CallBlock(r)
    PROVE  TurnInv'
<1> DEFINE b == Current(r)
           check == CheckBlockExecutionLimit(guard, b)
<1>1. /\ run[r].at = "select" /\ run \in [Runs -> Locals] /\ guard \in Guards
      /\ executions \in [Runs -> [Blocks -> Nat]] /\ results' = results
      /\ run' = [run EXCEPT ![r].at = "block"]
      /\ executions' = [executions EXCEPT ![r][b] = @ + 1]
      /\ guard' = IF GuardOn THEN check.guard ELSE guard
  BY DEF TurnInv, Control, CallBlock
<1>2. /\ run[r] \in Locals /\ run[r].index \in Indices
      /\ b = Order[run[r].index] /\ b \in Blocks
      /\ \A q \in Runs \ {r} : run[q].at \notin Active
  BY <1>1, AtBlock DEF Active
<1>3. /\ guard' \in Guards /\ guard'.safe
      /\ GuardOn => run[r].previous = run[r].index /\ Counted(guard', run[r].index)
  <2>1. guard.safe /\ (GuardOn => /\ run[r].previous = run[r].index
                                 /\ Chosen(guard, run[r].index))
    BY <1>1 DEF TurnInv, RunInv, GuardFits, Active
  <2>2. CASE GuardOn
    <3>1. check.guard \in Guards /\ Counted(check.guard, run[r].index)
      BY <1>1, <1>2, <2>1, <2>2, SecondCount
    <3> QED
      BY <1>1, <2>1, <2>2, <3>1, BeforeIsSafe
  <2>3. CASE ~GuardOn
    BY <1>1, <2>1, <2>3
  <2> QED
    BY <2>2, <2>3
<1> HIDE DEF check, b
<1>4. /\ run'[r] = [run[r] EXCEPT !.at = "block"]
      /\ \A q \in Runs \ {r} : run'[q] = run[q]
      /\ run' \in [Runs -> Locals]
  BY <1>1, <1>2 DEF Locals, AtAwait
<1>5. /\ run'[r].at = "block" /\ run'[r].index = run[r].index
      /\ run'[r].previous = run[r].previous /\ run'[r].executed = run[r].executed
      /\ run'[r].aborted = run[r].aborted
  BY <1>2, <1>4 DEF Locals
<1>6. /\ executions' \in [Runs -> [Blocks -> Nat]]
      /\ \A q \in Runs \ {r} : executions'[q] = executions[q]
      /\ executions'[r][b] > 0
      /\ \A a \in Blocks : executions[r][a] > 0 => executions'[r][a] > 0
  BY <1>1, <1>2
<1>7. Control'
  BY <1>1, <1>3, <1>4, <1>6 DEF TurnInv, Control
<1>8. Placed(r)'
  BY <1>1, <1>5 DEF TurnInv, RunInv, Placed, Active
<1>9. GuardFits(r)'
  BY <1>3, <1>5 DEF GuardFits
<1>10. AlwaysOnPassed(r)'
  <2>1. run[r].executed \subseteq Blocks /\ AlwaysOn \subseteq Blocks
    BY <1>2, PipelineAssumption DEF Locals
  <2>2. \A a \in AlwaysOn \cap Registered : Served(r, a) => Served(r, a)'
    BY <1>1, <1>6, <2>1 DEF Served
  <2>3. executions'[r][Order[run'[r].index]] > 0
    BY <1>2, <1>5, <1>6
  <2> QED
    BY <1>5, <1>6, <2>1, <2>2, <2>3 DEF TurnInv, RunInv, AlwaysOnPassed
<1> QED
  BY <1>1, <1>2, <1>4, <1>6, <1>7, <1>8, <1>9, <1>10, OnlyTheActiveRun DEF RunInv

(* What the invariant says at a block that was called. *)
LEMMA AtCalledBlock ==
    ASSUME TurnInv, NEW r \in Runs, run[r].at = "block"
    PROVE  /\ run[r] \in Locals /\ run[r].index \in Indices /\ Current(r) \in Blocks
           /\ Current(r) = Order[run[r].index]
           /\ run \in [Runs -> Locals] /\ guard \in Guards
           /\ results \in [Runs -> [Blocks -> Statuses]]
           /\ executions \in [Runs -> [Blocks -> Nat]]
           /\ guard.safe /\ executions[r][Current(r)] > 0
           /\ GuardOn => /\ run[r].previous = run[r].index
                         /\ Counted(guard, run[r].index)
<1>1. /\ run[r] \in Locals /\ run[r].index \in Indices /\ Current(r) \in Blocks
      /\ Current(r) = Order[run[r].index]
  BY AtBlock DEF Active
<1> QED
  BY <1>1 DEF TurnInv, Control, RunInv, GuardFits, AlwaysOnPassed, Active

(* The guard is ready for the next place, whether its last check was made. *)
LEMMA GuardAfterCall ==
    ASSUME TurnInv, NEW r \in Runs, run[r].at = "block",
           \/ guard' = guard
           \/ GuardOn /\ guard' = CheckCircularSequence(guard, Current(r)).guard
    PROVE  GuardReady(r)
<1>1. /\ guard \in Guards /\ guard.safe /\ run[r].index \in Indices
      /\ Current(r) = Order[run[r].index]
      /\ GuardOn => /\ run[r].previous = run[r].index
                    /\ Counted(guard, run[r].index)
  BY AtCalledBlock
<1>2. CASE guard' = guard
  BY <1>1, <1>2, CountedIsBefore DEF GuardReady
<1>3. CASE GuardOn /\ guard' = CheckCircularSequence(guard, Current(r)).guard
  <2>1. guard' \in Guards /\ Before(guard', run[r].index + 1)
    BY <1>1, <1>3, ThirdRecord
  <2> QED
    BY <1>1, <2>1, BeforeIsSafe DEF GuardReady
<1> QED
  BY <1>2, <1>3

LEMMA BlockFailsKeeps ==
    ASSUME OneTurnAtATime, TurnInv, NEW r \in Runs, BlockFails(r)
    PROVE  TurnInv'
<1>1. run[r].at = "block" /\ executions' = executions
  BY DEF BlockFails
<1>2. /\ run[r] \in Locals /\ Current(r) \in Blocks /\ run \in [Runs -> Locals]
      /\ results \in [Runs -> [Blocks -> Statuses]]
      /\ executions \in [Runs -> [Blocks -> Nat]]
      /\ executions[r][Current(r)] > 0
  BY <1>1, AtCalledBlock
<1>3. PICK wrote, raised \in BOOLEAN : BlockFaults(r, Current(r), wrote, raised)
  BY DEF BlockFails
<1>4. GuardReady(r)
  BY <1>1, <1>3, GuardAfterCall DEF BlockFaults
<1>5. MovesOn(r)
  <2>1. run' = [run EXCEPT ![r] = [run[r] EXCEPT !.at = "loop", !.index = run[r].index + 1]]
    BY <1>2, <1>3 DEF BlockFaults, AfterFailure, NextBlock
  <2>2. [run[r] EXCEPT !.at = "loop", !.index = run[r].index + 1]
          = [run[r] EXCEPT !.at = "loop", !.skipped = run[r].skipped,
                           !.index = run[r].index + 1, !.earlyExit = run[r].earlyExit]
    BY <1>2 DEF Locals
  <2>3. run[r].skipped \in SUBSET Blocks /\ run[r].earlyExit \in BOOLEAN
    BY <1>2 DEF Locals
  <2> QED
    BY <1>1, <2>1, <2>2, <2>3, NextBlockMoves DEF Active
<1>6. Records(r)
  <2>1. results' = [results EXCEPT ![r][Current(r)] = "error"]
    BY <1>3 DEF BlockFaults
  <2> QED
    BY <1>1, <1>2, <2>1 DEF Records, Statuses
<1>7. LeavesServed(r)
  BY <1>1, <1>2 DEF LeavesServed, Served
<1> QED
  BY <1>1, <1>4, <1>5, <1>6, <1>7, NextBlockKeeps DEF Active

LEMMA BlockReturnsKeeps ==
    ASSUME OneTurnAtATime, TurnInv, NEW r \in Runs, BlockReturns(r)
    PROVE  TurnInv'
<1> DEFINE b == Current(r)
<1>1. run[r].at = "block" /\ executions' = executions
  BY DEF BlockReturns
<1>2. /\ run[r] \in Locals /\ b \in Blocks /\ run \in [Runs -> Locals]
      /\ run[r].index \in Indices /\ b = Order[run[r].index]
      /\ results \in [Runs -> [Blocks -> Statuses]]
      /\ executions \in [Runs -> [Blocks -> Nat]]
      /\ executions[r][b] > 0
  BY <1>1, AtCalledBlock
<1>3. PICK ok, exits, short, directive, copied :
        BlockAnswers(r, b, ok, exits, short, directive, copied)
  BY DEF BlockReturns
<1> HIDE DEF b
<1>4. GuardReady(r)
  BY <1>1, <1>3, GuardAfterCall DEF BlockAnswers, b
<1>5. Records(r)
  <2>1. PICK status \in Statuses : results' = [results EXCEPT ![r][b] = status]
    BY <1>3 DEF BlockAnswers, Statuses
  <2> QED
    BY <1>1, <1>2, <2>1 DEF Records, b
<1> DEFINE skips == IF short THEN run[r].skipped \cup ShortCircuits[b] ELSE run[r].skipped
           exit == run[r].earlyExit \/ exits
           next == [run EXCEPT ![r] = [run[r] EXCEPT !.at = "loop", !.skipped = skips,
                                   !.index = run[r].index + 1, !.earlyExit = exit]]
           same == [run EXCEPT ![r] = [run[r] EXCEPT !.at = "retry", !.skipped = skips,
                                                     !.earlyExit = exit]]
<1>6. skips \in SUBSET Blocks /\ exit \in BOOLEAN
  BY <1>2, PipelineAssumption DEF Locals
<1>7. run' = next \/ run' = same
  <2>1. PICK retry : run' = [run EXCEPT
             ![r].earlyExit = @ \/ exits,
             ![r].skipped   = IF short THEN @ \cup ShortCircuits[b] ELSE @,
             ![r].index     = IF retry THEN @ ELSE @ + 1,
             ![r].at        = IF retry THEN "retry" ELSE "loop"]
    BY <1>3 DEF BlockAnswers
  <2>2. CASE retry
    <3>1. run' = [run EXCEPT ![r] = [run[r] EXCEPT !.earlyExit = exit, !.skipped = skips,
                                       !.index = run[r].index, !.at = "retry"]]
      BY <1>2, <2>1, <2>2
    <3> HIDE DEF skips, exit
    <3>2. [run[r] EXCEPT !.earlyExit = exit, !.skipped = skips,
                         !.index = run[r].index, !.at = "retry"]
            = [run[r] EXCEPT !.at = "retry", !.skipped = skips, !.earlyExit = exit]
      BY <1>2, <1>6 DEF Locals
    <3> QED
      BY <3>1, <3>2
  <2>3. CASE ~retry
    <3>1. run' = [run EXCEPT ![r] = [run[r] EXCEPT !.earlyExit = exit, !.skipped = skips,
                                       !.index = run[r].index + 1, !.at = "loop"]]
      BY <1>2, <2>1, <2>3
    <3> HIDE DEF skips, exit
    <3>2. [run[r] EXCEPT !.earlyExit = exit, !.skipped = skips,
                         !.index = run[r].index + 1, !.at = "loop"]
            = [run[r] EXCEPT !.at = "loop", !.skipped = skips,
                             !.index = run[r].index + 1, !.earlyExit = exit]
      BY <1>2, <1>6 DEF Locals
    <3> QED
      BY <3>1, <3>2
  <2> QED
    BY <2>2, <2>3
<1> HIDE DEF skips, exit
<1>8. CASE run' = next
  <2>1. MovesOn(r)
    BY <1>1, <1>6, <1>8, NextBlockMoves DEF Active
  <2>2. LeavesServed(r)
    BY <1>1, <1>2 DEF LeavesServed, Served, b
  <2> QED
    BY <1>1, <1>4, <1>5, <2>1, <2>2, NextBlockKeeps DEF Active
<1>9. CASE run' = same
  <2>1. /\ run'[r].at = "retry" /\ run'[r].index = run[r].index
        /\ run'[r].previous = run[r].previous /\ run'[r].executed = run[r].executed
        /\ run'[r].aborted = run[r].aborted
        /\ \A q \in Runs \ {r} : run'[q] = run[q]
        /\ run' \in [Runs -> Locals]
    <3> DEFINE new == [run[r] EXCEPT !.at = "retry", !.skipped = skips, !.earlyExit = exit]
    <3>1. /\ new \in Locals /\ new.at = "retry" /\ new.index = run[r].index
          /\ new.previous = run[r].previous /\ new.executed = run[r].executed
          /\ new.aborted = run[r].aborted
      BY <1>2, <1>6 DEF Locals, AtAwait
    <3>2. run' = [run EXCEPT ![r] = new]
      BY <1>9
    <3> HIDE DEF new
    <3> QED
      BY <1>2, <3>1, <3>2
  <2>2. Control'
    BY <1>4, <1>5, <2>1 DEF Control, GuardReady, Records
  <2>3. Placed(r)'
    BY <1>1, <2>1 DEF TurnInv, RunInv, Placed, Active
  <2>4. GuardFits(r)'
    BY <1>4, <2>1 DEF GuardFits, GuardReady
  <2>5. AlwaysOnPassed(r)'
    <3>1. \A a \in AlwaysOn \cap Registered : Served(r, a) => Served(r, a)'
      BY <1>1, <1>2, <1>5, PipelineAssumption DEF Served, Records, b
    <3>2. executions'[r][Order[run'[r].index]] > 0
      BY <1>1, <1>2, <2>1
    <3> QED
      BY <1>1, <2>1, <3>1, <3>2 DEF TurnInv, RunInv, AlwaysOnPassed
  <2>6. \A q \in Runs \ {r} : run[q].at \notin Active
    BY <1>1, OthersRest DEF Active
  <2> QED
    BY <1>5, <2>1, <2>2, <2>3, <2>4, <2>5, <2>6, OnlyTheActiveRun DEF RunInv, Records
<1> QED
  BY <1>7, <1>8, <1>9

LEMMA RetryKeeps ==
    ASSUME OneTurnAtATime, TurnInv, NEW r \in Runs, Retry(r)
    PROVE  TurnInv'
<1>1. /\ run[r].at = "retry" /\ results' = results /\ guard' = guard
      /\ run' = [run EXCEPT ![r] = NextBlock(@)]
  BY DEF Retry
<1>2. /\ executions' = [executions EXCEPT ![r] = [b \in Blocks |->
                          IF b \in RetryCalls THEN @[b] + 1 ELSE @[b]]]
  BY DEF Retry
<1>3. /\ run[r] \in Locals /\ run[r].index \in Indices /\ Current(r) \in Blocks
      /\ Current(r) = Order[run[r].index]
  BY <1>1, AtBlock DEF Active
<1>4. /\ run \in [Runs -> Locals] /\ guard \in Guards
      /\ results \in [Runs -> [Blocks -> Statuses]]
      /\ executions \in [Runs -> [Blocks -> Nat]]
      /\ guard.safe /\ executions[r][Order[run[r].index]] > 0
      /\ GuardOn => /\ run[r].previous = run[r].index
                    /\ Before(guard, run[r].index + 1)
  BY <1>1 DEF TurnInv, Control, RunInv, GuardFits, AlwaysOnPassed, Active
<1>5. GuardReady(r)
  BY <1>1, <1>4 DEF GuardReady
<1>6. MovesOn(r)
  <2>1. run' = [run EXCEPT ![r] = [run[r] EXCEPT !.at = "loop", !.index = run[r].index + 1]]
    BY <1>1, <1>4 DEF NextBlock
  <2>2. [run[r] EXCEPT !.at = "loop", !.index = run[r].index + 1]
          = [run[r] EXCEPT !.at = "loop", !.skipped = run[r].skipped,
                           !.index = run[r].index + 1, !.earlyExit = run[r].earlyExit]
    BY <1>3 DEF Locals
  <2>3. run[r].skipped \in SUBSET Blocks /\ run[r].earlyExit \in BOOLEAN
    BY <1>3 DEF Locals
  <2>4. run' = [run EXCEPT ![r] = [run[r] EXCEPT !.at = "loop",
                  !.skipped = run[r].skipped, !.index = run[r].index + 1,
                  !.earlyExit = run[r].earlyExit]]
    BY <2>1, <2>2
  <2>5. run[r].at \in Active \ {"loop"}
    BY <1>1 DEF Active
  <2> QED
    BY <2>3, <2>4, <2>5, NextBlockMoves
<1>7. /\ executions' \in [Runs -> [Blocks -> Nat]]
      /\ \A q \in Runs \ {r} : executions'[q] = executions[q]
      /\ \A b \in Blocks : executions[r][b] > 0 => executions'[r][b] > 0
  BY <1>2, <1>4
<1>8. Records(r)
  BY <1>1, <1>4, <1>7 DEF Records
<1>9. LeavesServed(r)
  BY <1>3, <1>4, <1>7 DEF LeavesServed, Served
<1> QED
  BY <1>1, <1>5, <1>6, <1>8, <1>9, NextBlockKeeps DEF Active

LEMMA FinishKeeps ==
    ASSUME OneTurnAtATime, TurnInv, NEW r \in Runs, Finish(r)
    PROVE  TurnInv'
<1>1. /\ run \in [Runs -> Locals] /\ run[r] \in Locals
      /\ run[r].at = "loop" /\ run[r].index > Len(Order) /\ ~run[r].aborted
      /\ run' = [run EXCEPT ![r].at = "done"]
      /\ UNCHANGED <<results, executions, guard>>
  BY DEF TurnInv, Control, RunInv, Placed, Finish
<1>2. /\ run'[r] = [run[r] EXCEPT !.at = "done"]
      /\ \A q \in Runs \ {r} : run'[q] = run[q]
      /\ run' \in [Runs -> Locals]
  BY <1>1 DEF Locals, AtAwait
<1>3. /\ run'[r].at = "done" /\ run'[r].index = run[r].index
      /\ run'[r].executed = run[r].executed /\ run'[r].aborted = run[r].aborted
  BY <1>1, <1>2 DEF Locals
<1>4. run[r].index = Len(Order) + 1
  BY <1>1, PipelineAssumption DEF Locals
<1>5. Control' /\ Placed(r)' /\ GuardFits(r)'
  BY <1>1, <1>2, <1>3, <1>4 DEF TurnInv, Control, Placed, GuardFits, Active
<1>6. AlwaysOnPassed(r)'
  BY <1>1, <1>3 DEF TurnInv, RunInv, AlwaysOnPassed, Served
<1>7. \A q \in Runs \ {r} : run[q].at \notin Active
  BY <1>1, OthersRest DEF Active
<1> QED
  BY <1>1, <1>2, <1>5, <1>6, <1>7, OnlyTheActiveRun DEF RunInv

LEMMA StutterKeeps ==
    ASSUME TurnInv, UNCHANGED vars
    PROVE  TurnInv'
<1>1. UNCHANGED <<run, results, executions, guard>>
  BY DEF vars
<1> QED
  BY <1>1 DEF TurnInv, Control, OneActive, RunInv, Placed, GuardFits, AlwaysOnPassed, Served

LEMMA NextKeeps == ASSUME OneTurnAtATime, TurnInv, [Next]_vars PROVE TurnInv'
<1>1. ASSUME NEW r \in Runs, Step(r) PROVE TurnInv'
  BY <1>1, StartKeeps, IterateKeeps, RunGroupKeeps, LoseGroupKeeps, PassOverKeeps,
     CallBlockKeeps, BlockReturnsKeeps, BlockFailsKeeps, RetryKeeps, FinishKeeps DEF Step
<1> QED
  BY <1>1, StutterKeeps DEF Next

-----------------------------------------------------------------------------
(* Theorems *)

(***************************************************************************)
(* While turns follow one another, the guard never aborts a run nor marks  *)
(* it unsafe: no order, graph, group, failure or skip makes the two counts *)
(* and three records of each block look like a loop.                       *)
(* execution_guard.py:113-263.                                             *)
(***************************************************************************)
THEOREM GuardIsSilent == ASSUME OneTurnAtATime PROVE Spec => []GuardSilent
<1>1. TurnInv => GuardSilent
  BY DEF TurnInv, RunInv, Placed, GuardFits, GuardSilent, Active
<1>2. TurnInv /\ [Next]_vars => TurnInv'
  BY NextKeeps
<1> QED
  BY <1>1, <1>2, InitInv, PTL DEF Spec

(***************************************************************************)
(* While turns follow one another, every turn that ends has called every   *)
(* registered always-on block that did not decline itself, whatever        *)
(* failed, exited early or was bypassed: in sequential mode, and in        *)
(* parallel mode as long as the contexts of a group can be copied.  (When  *)
(* they cannot, the group is taken for executed with no block called.)     *)
(* echo_orchestrator.py:938-997, parallel_executor.py:269-274, 396-407.    *)
(***************************************************************************)
THEOREM AlwaysOnAreCalled ==
    ASSUME OneTurnAtATime, Parallel => ~CopiesFail
    PROVE  Spec => []AlwaysOnExecuted
<1>1. TurnInv => AlwaysOnExecuted
  <2> SUFFICES ASSUME TurnInv, NEW r \in Runs, run[r].at = "done",
                      NEW b \in AlwaysOn \cap Registered
               PROVE  Served(r, b)
    BY DEF AlwaysOnExecuted, Served, GroupsGetLost
  <2>1. run[r].index = Len(Order) + 1 /\ Len(Order) \in Nat
    BY PipelineAssumption DEF TurnInv, RunInv, Placed
  <2>2. Pos(b) \in 1 .. Len(Order)
    BY OrderOfPos, PipelineAssumption DEF Indices
  <2> QED
    BY <2>1, <2>2 DEF TurnInv, RunInv, AlwaysOnPassed
<1>2. TurnInv /\ [Next]_vars => TurnInv'
  BY NextKeeps
<1> QED
  BY <1>1, <1>2, InitInv, PTL DEF Spec
=============================================================================
