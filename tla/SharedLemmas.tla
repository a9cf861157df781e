------------------------------ MODULE SharedLemmas ------------------------------
(***************************************************************************)
(* Lemmas that proofs about several components use: induction over the     *)
(* naturals, with a set in place of a predicate, and paths of a reader     *)
(* through a queue of events.                                              *)
(***************************************************************************)
EXTENDS Integers, Sequences, WellFoundedInduction, TLAPS

--------------------------------------------------------------------------------
(* Induction.                                                                *)

LEMMA LeastOf ==
  ASSUME NEW T, T \subseteq Nat, T # {}
  PROVE  \E m \in T : \A k \in T : m <= k
<1> DEFINE R == OpToRel(<, Nat)
<1>1. \A n, m \in Nat : n < m => <<n, m>> \in R
  BY DEF OpToRel
<1>2. IsWellFoundedOn(R, Nat)
  BY NatLessThanWellFounded
<1> HIDE DEF R
<1>3. PICK m \in T : \A k \in T : ~(<<k, m>> \in R)
  BY <1>2, WFMin, Zenon
<1>4. \A k \in T : ~(k < m)
  BY <1>1, <1>3, Zenon
<1>5. m \in Nat /\ \A k \in T : k \in Nat
  OBVIOUS
<1>6. QED
  BY <1>4, <1>5

\* A set with 0 that is closed under successor has every natural number.
LEMMA SetInduction ==
  ASSUME NEW S, 0 \in S, \A n \in Nat : n \in S => n + 1 \in S
  PROVE  Nat \subseteq S
<1> DEFINE T == Nat \ S
<1> SUFFICES ASSUME T # {} PROVE FALSE
  OBVIOUS
<1>1. T \subseteq Nat
  OBVIOUS
<1> HIDE DEF T
<1>2. PICK m \in T : \A k \in T : m <= k
  BY <1>1, LeastOf
<1>3. m \in Nat /\ m # 0 /\ m - 1 \in Nat /\ m - 1 < m /\ (m - 1) + 1 = m
  BY <1>1 DEF T
<1>4. m - 1 \in S
  BY <1>2, <1>3 DEF T
<1>5. QED
  BY <1>3, <1>4 DEF T

--------------------------------------------------------------------------------
(* What becomes of somebody who takes a queue of events one by one: paths    *)
(* through a set of moves <<from, event, to>>.  They show that what a        *)
(* backend has put in a channel leads from what its reader has seen to what  *)
(* the backend has said.                                                     *)

\* The queue q leads from a to b through states of S; f[i] is where its reader
\* is after the first i events.
Path(q, a, b, S, moves) ==
  \E f \in [0..Len(q) -> S] :
    /\ f[0] = a /\ f[Len(q)] = b
    /\ \A i \in 1..Len(q) : <<f[i - 1], q[i], f[i]>> \in moves

\* An empty queue leads nowhere.
LEMMA PathEmpty ==
  ASSUME NEW S, NEW moves, NEW a \in S, NEW b
  PROVE  Path(<<>>, a, b, S, moves) <=> a = b
<1>1. ASSUME a = b PROVE Path(<<>>, a, b, S, moves)
  <2> DEFINE f == [i \in 0..0 |-> a]
  <2>1. f \in [0..Len(<<>>) -> S] /\ f[0] = a /\ f[Len(<<>>)] = b
    BY <1>1
  <2>2. 1..Len(<<>>) = {}
    OBVIOUS
  <2> HIDE DEF f
  <2>3. QED
    BY <2>1, <2>2 DEF Path
<1>2. QED
  BY <1>1 DEF Path

\* An event at the end is one more move.
LEMMA PathAppend ==
  ASSUME NEW E, NEW S, NEW moves, NEW q \in Seq(E), NEW a, NEW b, NEW c \in S, NEW e \in E,
         Path(q, a, b, S, moves), <<b, e, c>> \in moves
  PROVE  Path(Append(q, e), a, c, S, moves)
<1> DEFINE more == Append(q, e)  n == Len(q)
<1>1. /\ n \in Nat /\ Len(more) = n + 1 /\ more[n + 1] = e
      /\ \A i \in 1..n : more[i] = q[i]
  OBVIOUS
<1>2. PICK f \in [0..n -> S] :
        /\ f[0] = a /\ f[n] = b
        /\ \A i \in 1..n : <<f[i - 1], q[i], f[i]>> \in moves
  BY DEF Path
<1> DEFINE g == [i \in 0..(n + 1) |-> IF i = n + 1 THEN c ELSE f[i]]
<1> HIDE DEF more, n
<1>3. /\ g \in [0..(n + 1) -> S] /\ g[0] = a /\ g[n + 1] = c
      /\ \A i \in 0..n : g[i] = f[i]
  BY <1>1, <1>2
<1> HIDE DEF g
<1>4. ASSUME NEW i \in 1..(n + 1) PROVE <<g[i - 1], more[i], g[i]>> \in moves
  <2>1. CASE i = n + 1
    <3>1. g[n] = b /\ i - 1 = n
      BY <1>1, <1>2, <1>3, <2>1
    <3>2. QED
      BY <1>1, <1>3, <2>1, <3>1
  <2>2. CASE i # n + 1
    <3>1. i \in 1..n /\ i - 1 \in 0..n /\ i \in 0..n
      BY <1>1, <2>2
    <3>2. QED
      BY <1>1, <1>2, <1>3, <3>1
  <2>3. QED
    BY <2>1, <2>2
<1>5. QED
  BY <1>1, <1>3, <1>4 DEF Path, more

\* The first event is the first move.
LEMMA PathTail ==
  ASSUME NEW E, NEW S, NEW moves, NEW q \in Seq(E), q # <<>>, NEW a, NEW b,
         Path(q, a, b, S, moves)
  PROVE  \E c \in S : <<a, Head(q), c>> \in moves /\ Path(Tail(q), c, b, S, moves)
<1> DEFINE rest == Tail(q)  n == Len(q)
<1>1. /\ n \in Nat \ {0} /\ Len(rest) = n - 1 /\ Head(q) = q[1]
      /\ \A i \in 1..(n - 1) : rest[i] = q[i + 1]
  OBVIOUS
<1>2. PICK f \in [0..n -> S] :
        /\ f[0] = a /\ f[n] = b
        /\ \A i \in 1..n : <<f[i - 1], q[i], f[i]>> \in moves
  BY DEF Path
<1> DEFINE g == [i \in 0..(n - 1) |-> f[i + 1]]
<1> HIDE DEF rest, n
<1>3. 1 \in 1..n /\ 1 - 1 = 0 /\ 1 \in 0..n
  BY <1>1
<1>4. f[1] \in S /\ <<a, Head(q), f[1]>> \in moves
  BY <1>1, <1>2, <1>3
<1>5. /\ g \in [0..(n - 1) -> S] /\ g[0] = f[1] /\ g[n - 1] = b
      /\ \A i \in 0..(n - 1) : g[i] = f[i + 1]
  BY <1>1, <1>2
<1> HIDE DEF g
<1>6. ASSUME NEW i \in 1..(n - 1) PROVE <<g[i - 1], rest[i], g[i]>> \in moves
  <2>1. i + 1 \in 1..n /\ (i + 1) - 1 = i /\ i - 1 \in 0..(n - 1) /\ (i - 1) + 1 = i /\ i \in 0..(n - 1)
    BY <1>1
  <2>2. g[i] = f[i + 1] /\ g[i - 1] = f[i]
    BY <1>5, <2>1
  <2>3. QED
    BY <1>1, <1>2, <2>1, <2>2
<1>7. Path(rest, f[1], b, S, moves)
  BY <1>1, <1>5, <1>6 DEF Path
<1>8. QED
  BY <1>4, <1>7 DEF rest
================================================================================
