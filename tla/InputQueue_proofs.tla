--------------------------- MODULE InputQueue_proofs ---------------------------
(***************************************************************************)
(* SendInput input keeps its order and its bounds, and the two queues of each  *)
(* session are one queue of keys, for every set of sessions and every      *)
(* capacity of their queues.                                               *)
(***************************************************************************)
EXTENDS InputQueue, SharedLemmas, SequenceTheorems

USE DEF queues, frame, history

\* The types of the two queues, which the invariants below need.
QueuesOK ==
  /\ channel \in [Sessions -> Seq(Items)] /\ pending \in [Sessions -> Seq(Items)]
  /\ clock \in 0..MaxItems /\ lastKey \in [Sessions -> 0..MaxItems]

LEMMA ItemsOK ==
  ASSUME NEW n \in 1..MaxItems
  PROVE  Key(n) \in Items /\ Report(n) \in Items
  BY DEF Items

LEMMA InItems ==
  ASSUME NEW item \in Items
  PROVE  /\ item.n \in 1..MaxItems /\ item.kind \in {"Key", "Report"}
         /\ item = [kind |-> item.kind, n |-> item.n]
  BY DEF Items, Key, Report

\* Reading and filling keep a queue well typed.
LEMMA AppendFits ==
  ASSUME NEW S, NEW q \in Seq(S), NEW e \in S
  PROVE  /\ Append(q, e) \in Seq(S) /\ Len(Append(q, e)) = Len(q) + 1
         /\ \A i \in 1..Len(q) : Append(q, e)[i] = q[i]
         /\ Append(q, e)[Len(q) + 1] = e
  OBVIOUS

LEMMA TailFits ==
  ASSUME NEW S, NEW q \in Seq(S), q # <<>>
  PROVE  /\ Tail(q) \in Seq(S) /\ Len(Tail(q)) = Len(q) - 1 /\ Len(q) \in Nat \ {0}
         /\ \A i \in 1..(Len(q) - 1) : Tail(q)[i] = q[i + 1]
         /\ Head(q) = q[1] /\ Head(q) \in S
  OBVIOUS

\* Two queues in a row.
Joined(a, b) == a \o b

LEMMA JoinedFits ==
  ASSUME NEW S, NEW a \in Seq(S), NEW b \in Seq(S)
  PROVE  /\ Joined(a, b) \in Seq(S) /\ Len(Joined(a, b)) = Len(a) + Len(b)
         /\ Len(a) \in Nat /\ Len(b) \in Nat
<1>1. a \o b \in Seq(S) /\ Len(a \o b) = Len(a) + Len(b)
  BY ConcatProperties
<1>2. QED
  BY <1>1 DEF Joined

LEMMA JoinedItems ==
  ASSUME NEW S, NEW a \in Seq(S), NEW b \in Seq(S)
  PROVE  /\ \A i \in 1..Len(a) : Joined(a, b)[i] = a[i]
         /\ \A i \in 1..Len(b) : Joined(a, b)[Len(a) + i] = b[i]
<1> DEFINE c == a \o b
<1>1. /\ c \in Seq(S) /\ Len(c) = Len(a) + Len(b)
      /\ \A i \in 1..(Len(a) + Len(b)) : c[i] = IF i <= Len(a) THEN a[i] ELSE b[i - Len(a)]
  BY ConcatProperties
<1>2. Len(a) \in Nat /\ Len(b) \in Nat
  OBVIOUS
<1> HIDE DEF c
<1>3. ASSUME NEW i \in 1..Len(a) PROVE c[i] = a[i]
  BY <1>1, <1>2
<1>4. ASSUME NEW i \in 1..Len(b) PROVE c[Len(a) + i] = b[i]
  <2>1. /\ Len(a) + i \in 1..(Len(a) + Len(b)) /\ ~(Len(a) + i <= Len(a))
        /\ (Len(a) + i) - Len(a) = i
    BY <1>2
  <2>2. QED
    BY <1>1, <2>1
<1>5. QED
  BY <1>3, <1>4, Zenon DEF Joined, c

LEMMA SameParts ==
  ASSUME NEW S, NEW a \in Seq(S), NEW b \in Seq(S), NEW c \in Seq(S),
         Len(c) = Len(a) + Len(b),
         \A i \in 1..Len(a) : c[i] = a[i],
         \A i \in 1..Len(b) : c[Len(a) + i] = b[i]
  PROVE  c = Joined(a, b)
<1>0. /\ Joined(a, b) \in Seq(S) /\ Len(Joined(a, b)) = Len(a) + Len(b)
      /\ Len(a) \in Nat /\ Len(b) \in Nat
  BY JoinedFits
<1>1. /\ \A i \in 1..Len(a) : Joined(a, b)[i] = a[i]
      /\ \A i \in 1..Len(b) : Joined(a, b)[Len(a) + i] = b[i]
  BY JoinedItems
<1>2. ASSUME NEW i \in 1..Len(c) PROVE c[i] = Joined(a, b)[i]
  <2>1. i \in 1..Len(a) \/ (i - Len(a) \in 1..Len(b) /\ Len(a) + (i - Len(a)) = i)
    BY <1>0, <1>1
  <2>2. QED
    BY <1>0, <1>1, <2>1
<1>3. QED
  BY <1>0, <1>1, <1>2, SeqEqual

LEMMA JoinedEmpty ==
  ASSUME NEW S, NEW a \in Seq(S)
  PROVE  Joined(a, <<>>) = a /\ Joined(<<>>, a) = a
  BY ConcatEmptySeq DEF Joined

LEMMA JoinedAppend ==
  ASSUME NEW S, NEW a \in Seq(S), NEW b \in Seq(S), NEW e \in S
  PROVE  Append(Joined(a, b), e) = Joined(a, Append(b, e))
<1> DEFINE ab == Joined(a, b)  be == Append(b, e)  c == Append(ab, e)
<1>0. /\ ab \in Seq(S) /\ Len(ab) = Len(a) + Len(b) /\ Len(a) \in Nat /\ Len(b) \in Nat
  BY JoinedFits
<1>1. /\ \A i \in 1..Len(a) : ab[i] = a[i]
      /\ \A i \in 1..Len(b) : ab[Len(a) + i] = b[i]
  BY JoinedItems
<1>2. /\ be \in Seq(S) /\ Len(be) = Len(b) + 1
      /\ \A i \in 1..Len(b) : be[i] = b[i]
      /\ be[Len(b) + 1] = e
  BY AppendFits
<1> HIDE DEF ab, be
<1>3. /\ c \in Seq(S) /\ Len(c) = Len(ab) + 1
      /\ \A i \in 1..Len(ab) : c[i] = ab[i]
      /\ c[Len(ab) + 1] = e
  BY <1>0, <1>1, AppendFits
<1> HIDE DEF c
<1>4. \A i \in 1..Len(a) : c[i] = a[i]
  BY <1>0, <1>1, <1>3
<1>5. ASSUME NEW i \in 1..Len(be) PROVE c[Len(a) + i] = be[i]
  <2>1. CASE i = Len(b) + 1
    <3>1. Len(a) + i = Len(ab) + 1
      BY <1>0, <1>1, <2>1
    <3>2. QED
      BY <1>2, <1>3, <2>1, <3>1
  <2>2. CASE i # Len(b) + 1
    <3>1. i \in 1..Len(b) /\ Len(a) + i \in 1..Len(ab)
      BY <1>0, <1>1, <1>2, <2>2
    <3>2. QED
      BY <1>0, <1>1, <1>2, <1>3, <3>1
  <2>3. QED
    BY <2>1, <2>2
<1>6. Len(c) = Len(a) + Len(be)
  BY <1>0, <1>1, <1>2, <1>3
<1>7. c = Joined(a, be)
  BY <1>2, <1>3, <1>4, <1>5, <1>6, SameParts
<1>8. QED
  BY <1>7 DEF c, ab, be

\* The head of the second queue is the end of the first.
LEMMA JoinedMove ==
  ASSUME NEW S, NEW a \in Seq(S), NEW b \in Seq(S), b # <<>>
  PROVE  Joined(Append(a, Head(b)), Tail(b)) = Joined(a, b)
<1> DEFINE c == Joined(a, b)  h == Head(b)  ah == Append(a, h)  tb == Tail(b)
<1>0. /\ c \in Seq(S) /\ Len(c) = Len(a) + Len(b) /\ Len(a) \in Nat /\ Len(b) \in Nat
  BY JoinedFits
<1>1. /\ \A i \in 1..Len(a) : c[i] = a[i]
      /\ \A i \in 1..Len(b) : c[Len(a) + i] = b[i]
  BY JoinedItems
<1> HIDE DEF c
<1>2. /\ tb \in Seq(S) /\ Len(tb) = Len(b) - 1 /\ Len(b) \in Nat \ {0}
      /\ \A i \in 1..(Len(b) - 1) : tb[i] = b[i + 1]
      /\ h = b[1] /\ h \in S
  BY TailFits
<1> HIDE DEF tb, h
<1>3. /\ ah \in Seq(S) /\ Len(ah) = Len(a) + 1
      /\ \A i \in 1..Len(a) : ah[i] = a[i]
      /\ ah[Len(a) + 1] = h
  BY <1>2, AppendFits
<1> HIDE DEF ah
<1>4. ASSUME NEW i \in 1..Len(ah) PROVE c[i] = ah[i]
  <2>1. i \in 1..Len(a) \/ (i = Len(a) + 1 /\ 1 \in 1..Len(b))
    BY <1>0, <1>1, <1>2, <1>3
  <2>2. QED
    BY <1>0, <1>1, <1>2, <1>3, <2>1
<1>5. ASSUME NEW i \in 1..Len(tb) PROVE c[Len(ah) + i] = tb[i]
  <2>1. i + 1 \in 1..Len(b) /\ Len(ah) + i = Len(a) + (i + 1) /\ i \in 1..(Len(b) - 1)
    BY <1>0, <1>1, <1>2, <1>3
  <2>2. QED
    BY <1>0, <1>1, <1>2, <2>1
<1>6. Len(c) = Len(ah) + Len(tb)
  BY <1>0, <1>1, <1>2, <1>3
<1>7. c = Joined(ah, tb)
  BY <1>0, <1>1, <1>2, <1>3, <1>4, <1>5, <1>6, SameParts
<1>8. QED
  BY <1>7 DEF c, ah, tb, h

LEMMA JoinedTail ==
  ASSUME NEW S, NEW a \in Seq(S), NEW b \in Seq(S), a # <<>>
  PROVE  /\ Joined(a, b) # <<>> /\ Head(Joined(a, b)) = Head(a)
         /\ Tail(Joined(a, b)) = Joined(Tail(a), b)
<1> DEFINE c == Joined(a, b)  ta == Tail(a)  tc == Tail(c)
<1>0. /\ c \in Seq(S) /\ Len(c) = Len(a) + Len(b) /\ Len(a) \in Nat /\ Len(b) \in Nat
  BY JoinedFits
<1>1. /\ \A i \in 1..Len(a) : c[i] = a[i]
      /\ \A i \in 1..Len(b) : c[Len(a) + i] = b[i]
  BY JoinedItems
<1> HIDE DEF c
<1>2. /\ ta \in Seq(S) /\ Len(ta) = Len(a) - 1 /\ Len(a) \in Nat \ {0}
      /\ \A i \in 1..(Len(a) - 1) : ta[i] = a[i + 1]
      /\ Head(a) = a[1]
  BY TailFits
<1> HIDE DEF ta
<1>3. c # <<>>
  BY <1>0, <1>1, <1>2
<1>4. /\ tc \in Seq(S) /\ Len(tc) = Len(c) - 1
      /\ \A i \in 1..(Len(c) - 1) : tc[i] = c[i + 1]
      /\ Head(c) = c[1]
  BY <1>0, <1>1, <1>3, TailFits
<1> HIDE DEF tc
<1>5. Head(c) = Head(a)
  BY <1>0, <1>1, <1>2, <1>4
<1>6. ASSUME NEW i \in 1..Len(ta) PROVE tc[i] = ta[i]
  <2>1. i + 1 \in 1..Len(a) /\ i \in 1..(Len(a) - 1) /\ i \in 1..(Len(c) - 1)
    BY <1>0, <1>1, <1>2
  <2>2. QED
    BY <1>0, <1>1, <1>2, <1>4, <2>1
<1>7. ASSUME NEW i \in 1..Len(b) PROVE tc[Len(ta) + i] = b[i]
  <2>1. Len(ta) + i \in 1..(Len(c) - 1) /\ (Len(ta) + i) + 1 = Len(a) + i
    BY <1>0, <1>1, <1>2
  <2>2. QED
    BY <1>0, <1>1, <1>4, <2>1
<1>8. Len(tc) = Len(ta) + Len(b)
  BY <1>0, <1>1, <1>2, <1>4
<1>9. tc = Joined(ta, b)
  BY <1>2, <1>4, <1>6, <1>7, <1>8, SameParts
<1>10. QED
  BY <1>3, <1>5, <1>9 DEF c, ta, tc

LEMMA QueuesStep == QueuesOK /\ [Next]_vars => QueuesOK'
<1> SUFFICES ASSUME QueuesOK, [Next]_vars PROVE QueuesOK'
  OBVIOUS
<1> USE DEF QueuesOK
<1>0. clock \in Nat /\ MaxItems \in Nat
  BY CapsAssumption
<1>1. ASSUME NEW s \in Sessions, DrainSends(s) PROVE QueuesOK'
  <2>1. channel[s] \in Seq(Items) /\ pending[s] \in Seq(Items) /\ pending[s] # <<>>
    BY <1>1 DEF DrainSends
  <2>2. Append(channel[s], Head(pending[s])) \in Seq(Items) /\ Tail(pending[s]) \in Seq(Items)
    BY <2>1, TailFits, AppendFits
  <2>3. QED
    BY <1>1, <2>2 DEF DrainSends
<1>2. ASSUME NEW s \in Sessions, DrainStalls(s) PROVE QueuesOK'
  BY <1>2 DEF DrainStalls
<1>3. ASSUME NEW s \in Sessions, DrainEnds(s) PROVE QueuesOK'
  BY <1>3 DEF DrainEnds
<1>4. ASSUME NEW s \in Sessions, SendDirect(s) PROVE QueuesOK'
  <2>1. clock' \in 1..MaxItems
    BY <1>0, <1>4 DEF SendDirect
  <2>2. channel[s] \in Seq(Items) /\ Append(channel[s], Report(clock')) \in Seq(Items)
    BY <2>1, ItemsOK, AppendFits
  <2>3. QED
    BY <1>4, <2>1, <2>2 DEF SendDirect
<1>5. ASSUME NEW to \in SUBSET Sessions, SendInput(to) PROVE QueuesOK'
  <2>1. clock' \in 1..MaxItems
    BY <1>0, <1>5 DEF SendInput
  <2>2. \A s \in Sessions : /\ Append(channel[s], Key(clock')) \in Seq(Items)
                            /\ Append(pending[s], Key(clock')) \in Seq(Items)
    BY <2>1, ItemsOK, AppendFits
  <2>3. QED
    BY <1>5, <2>1, <2>2 DEF SendInput
<1>6. ASSUME NEW s \in Sessions, Read(s) PROVE QueuesOK'
  <2>1. channel[s] \in Seq(Items) /\ channel[s] # <<>>
    BY <1>6 DEF Read
  <2>2. Tail(channel[s]) \in Seq(Items) /\ Head(channel[s]).n \in 1..MaxItems
    BY <2>1, TailFits, InItems
  <2>3. QED
    BY <1>6, <2>2 DEF Read
<1>7. ASSUME NEW s \in Sessions, BackendEnds(s) PROVE QueuesOK'
  BY <1>7 DEF BackendEnds
<1>8. CASE FrameBegins \/ PumpEnds \/ RouteEnds \/ DrawEnds \/ FrameEnds \/ UNCHANGED vars
  BY <1>8 DEF FrameBegins, PumpEnds, RouteEnds, DrawEnds, FrameEnds, vars
<1>9. QED
  BY <1>1, <1>2, <1>3, <1>4, <1>5, <1>6, <1>7, <1>8 DEF Next, Frames, Pump, Route, Typed, Pasted

--------------------------------------------------------------------------------
(* The order of keys.  Of every session's keys, those its backend has read   *)
(* are older than those in the channel, those older than the pending ones,   *)
(* and each queue holds its own in order.  Reports sit anywhere between.     *)

IsKey(item) == item.kind = "Key"

InOrder(q) ==
  \A i, j \in 1..Len(q) : i < j /\ IsKey(q[i]) /\ IsKey(q[j]) => q[i].n < q[j].n

\* `last' is what has been read, `c' the channel, `p' the pending queue, `t' the
\* newest item there is.
Behind(last, c, p, t) ==
  /\ InOrder(c) /\ InOrder(p)
  /\ \A i \in 1..Len(c) : IsKey(c[i]) =>
       /\ last < c[i].n /\ c[i].n <= t
       /\ \A j \in 1..Len(p) : c[i].n < p[j].n
  /\ \A j \in 1..Len(p) : IsKey(p[j]) /\ last < p[j].n /\ p[j].n <= t
  /\ last <= t

OrderInv ==
  \A s \in Sessions : Behind(lastKey[s], channel[s], pending[s], clock)

\* The drain moves the oldest pending key to the end of the channel.
LEMMA BehindMoves ==
  ASSUME NEW last \in Nat, NEW t \in Nat, NEW c \in Seq(Items), NEW p \in Seq(Items),
         Behind(last, c, p, t), p # <<>>
  PROVE  Behind(last, Append(c, Head(p)), Tail(p), t)
<1> DEFINE c2 == Append(c, Head(p))
           p2 == Tail(p)
<1>1. /\ p2 \in Seq(Items) /\ Len(p2) = Len(p) - 1 /\ Len(p) \in Nat \ {0}
      /\ \A j \in 1..Len(p2) : p2[j] = p[j + 1] /\ j + 1 \in 1..Len(p)
      /\ Head(p) = p[1] /\ Head(p) \in Items
  BY TailFits
<1>2. /\ Len(c2) = Len(c) + 1 /\ Len(c) \in Nat
      /\ \A i \in 1..Len(c) : c2[i] = c[i]
      /\ c2[Len(c) + 1] = p[1]
  BY <1>1, AppendFits
<1>3. \A i \in 1..Len(c2) : i \in 1..Len(c) \/ i = Len(c) + 1
  BY <1>2
<1>5. /\ \A i \in 1..Len(c) : c[i].n \in Int
      /\ \A j \in 1..Len(p) : p[j].n \in Int
  BY InItems
<1>6. 1 \in 1..Len(p) /\ IsKey(p[1]) /\ last < p[1].n /\ p[1].n <= t
  BY <1>1 DEF Behind
<1>7. InOrder(c2)
  <2>1. ASSUME NEW i \in 1..Len(c2), NEW j \in 1..Len(c2), i < j, IsKey(c2[i]), IsKey(c2[j])
        PROVE  c2[i].n < c2[j].n
    <3>1. i \in 1..Len(c)
      BY <1>2, <2>1
    <3>2. CASE j \in 1..Len(c)
      BY <1>2, <2>1, <3>1, <3>2 DEF Behind, InOrder
    <3>3. CASE j = Len(c) + 1
      BY <1>2, <1>6, <2>1, <3>1, <3>3 DEF Behind
    <3>4. QED
      BY <1>3, <3>2, <3>3
  <2>2. QED
    BY <2>1 DEF InOrder
<1>8. InOrder(p2)
  BY <1>1 DEF Behind, InOrder
<1>9. \A j \in 1..Len(p2) : p[1].n < p2[j].n
  BY <1>1, <1>6 DEF Behind, InOrder
<1>10. \A i \in 1..Len(c2) : IsKey(c2[i]) =>
         /\ last < c2[i].n /\ c2[i].n <= t
         /\ \A j \in 1..Len(p2) : c2[i].n < p2[j].n
  BY <1>1, <1>2, <1>3, <1>6, <1>9 DEF Behind
<1>11. \A j \in 1..Len(p2) : IsKey(p2[j]) /\ last < p2[j].n /\ p2[j].n <= t
  BY <1>1 DEF Behind
<1>12. QED
  BY <1>7, <1>8, <1>10, <1>11 DEF Behind

\* A key newer than all joins the queue that ends the line.
LEMMA BehindQueues ==
  ASSUME NEW last \in Nat, NEW t \in Nat, NEW c \in Seq(Items), NEW p \in Seq(Items),
         Behind(last, c, p, t)
  PROVE  /\ Behind(last, c, Append(p, Key(t + 1)), t + 1)
         /\ p = <<>> => Behind(last, Append(c, Key(t + 1)), p, t + 1)
         /\ Behind(last, Append(c, Report(t + 1)), p, t + 1)
         /\ Behind(last, c, p, t + 1)
<1>1. /\ \A i \in 1..Len(c) : c[i].n \in Int
      /\ \A j \in 1..Len(p) : p[j].n \in Int
  BY InItems
<1>2. Len(c) \in Nat /\ Len(p) \in Nat
  OBVIOUS
<1>3. IsKey(Key(t + 1)) /\ Key(t + 1).n = t + 1 /\ ~IsKey(Report(t + 1))
  BY DEF IsKey, Key, Report
<1>4. ASSUME NEW q \in Seq(Items), NEW e, InOrder(q),
             \A i \in 1..Len(q) : IsKey(q[i]) /\ IsKey(e) => q[i].n < e.n
      PROVE  InOrder(Append(q, e))
  <2>1. /\ Len(Append(q, e)) = Len(q) + 1 /\ Len(q) \in Nat
        /\ \A i \in 1..Len(q) : Append(q, e)[i] = q[i]
        /\ Append(q, e)[Len(q) + 1] = e
    OBVIOUS
  <2>2. ASSUME NEW i \in 1..(Len(q) + 1), NEW j \in 1..(Len(q) + 1), i < j,
               IsKey(Append(q, e)[i]), IsKey(Append(q, e)[j])
        PROVE  Append(q, e)[i].n < Append(q, e)[j].n
    <3>1. i \in 1..Len(q)
      BY <2>1, <2>2
    <3>2. CASE j \in 1..Len(q)
      BY <1>4, <2>1, <2>2, <3>1, <3>2 DEF InOrder
    <3>3. CASE j = Len(q) + 1
      BY <1>4, <2>1, <2>2, <3>1, <3>3
    <3>4. QED
      BY <2>1, <3>2, <3>3
  <2>3. QED
    BY <2>1, <2>2 DEF InOrder
<1>5. Behind(last, c, p, t + 1)
  BY <1>1 DEF Behind
<1>6. Behind(last, c, Append(p, Key(t + 1)), t + 1)
  <2> DEFINE p2 == Append(p, Key(t + 1))
  <2>1. /\ Len(p2) = Len(p) + 1
        /\ \A i \in 1..Len(p) : p2[i] = p[i]
        /\ p2[Len(p) + 1] = Key(t + 1)
    OBVIOUS
  <2>2. InOrder(p2)
    BY <1>1, <1>3, <1>4 DEF Behind
  <2>3. \A j \in 1..Len(p2) : j \in 1..Len(p) \/ j = Len(p) + 1
    BY <1>2, <2>1
  <2>4. \A j \in 1..Len(p2) : IsKey(p2[j]) /\ last < p2[j].n /\ p2[j].n <= t + 1
    BY <1>1, <1>3, <2>1, <2>3 DEF Behind
  <2>5. \A i \in 1..Len(c) : IsKey(c[i]) =>
          /\ last < c[i].n /\ c[i].n <= t + 1
          /\ \A j \in 1..Len(p2) : c[i].n < p2[j].n
    BY <1>1, <1>3, <2>1, <2>3 DEF Behind
  <2>6. QED
    BY <2>2, <2>4, <2>5 DEF Behind
<1>7. ASSUME NEW e, IsKey(e) => e.n = t + 1 /\ p = <<>>
      PROVE  Behind(last, Append(c, e), p, t + 1)
  <2> DEFINE c2 == Append(c, e)
  <2>1. /\ Len(c2) = Len(c) + 1
        /\ \A i \in 1..Len(c) : c2[i] = c[i]
        /\ c2[Len(c) + 1] = e
    OBVIOUS
  <2>2. InOrder(c2)
    BY <1>1, <1>4, <1>7 DEF Behind
  <2>3. \A i \in 1..Len(c2) : i \in 1..Len(c) \/ i = Len(c) + 1
    BY <1>2, <2>1
  <2>4. \A i \in 1..Len(c2) : IsKey(c2[i]) =>
          /\ last < c2[i].n /\ c2[i].n <= t + 1
          /\ \A j \in 1..Len(p) : c2[i].n < p[j].n
    BY <1>1, <1>7, <2>1, <2>3 DEF Behind
  <2>5. QED
    BY <1>5, <2>2, <2>4 DEF Behind
<1>8. QED
  BY <1>3, <1>5, <1>6, <1>7

\* Queues that are emptied or read from the front stay in order.
LEMMA BehindReads ==
  ASSUME NEW last \in Nat, NEW t \in Nat, NEW c \in Seq(Items), NEW p \in Seq(Items),
         Behind(last, c, p, t)
  PROVE  /\ Behind(last, <<>>, p, t) /\ Behind(last, c, <<>>, t)
         /\ c # <<>> => Behind(IF IsKey(Head(c)) THEN Head(c).n ELSE last, Tail(c), p, t)
<1>1. /\ \A i \in 1..Len(c) : c[i].n \in Int
      /\ \A j \in 1..Len(p) : p[j].n \in Int
  BY InItems
<1>2. Behind(last, <<>>, p, t) /\ Behind(last, c, <<>>, t)
  BY DEF Behind, InOrder
<1>3. ASSUME c # <<>>
      PROVE  Behind(IF IsKey(Head(c)) THEN Head(c).n ELSE last, Tail(c), p, t)
  <2> DEFINE c2 == Tail(c)
             last2 == IF IsKey(Head(c)) THEN Head(c).n ELSE last
  <2>1. /\ Len(c2) = Len(c) - 1 /\ Len(c) \in Nat \ {0} /\ Head(c) = c[1]
        /\ \A i \in 1..Len(c2) : c2[i] = c[i + 1] /\ i + 1 \in 1..Len(c) /\ 1 < i + 1
        /\ 1 \in 1..Len(c)
    BY <1>3, TailFits
  <2>2. InOrder(c2)
    BY <2>1 DEF Behind, InOrder
  <2>3. last2 \in Int /\ last2 <= t
    BY <1>1, <2>1 DEF Behind
  <2>4. \A j \in 1..Len(p) : last2 < p[j].n
    BY <1>1, <2>1 DEF Behind
  <2>5. \A i \in 1..Len(c2) : IsKey(c2[i]) => last2 < c2[i].n
    BY <1>1, <2>1 DEF Behind, InOrder
  <2>6. \A i \in 1..Len(c2) : IsKey(c2[i]) =>
          c2[i].n <= t /\ \A j \in 1..Len(p) : c2[i].n < p[j].n
    BY <2>1 DEF Behind
  <2>7. QED
    BY <2>2, <2>3, <2>4, <2>5, <2>6 DEF Behind
<1>4. QED
  BY <1>2, <1>3

LEMMA OrderStep == QueuesOK /\ OrderInv /\ [Next]_vars => OrderInv'
<1> SUFFICES ASSUME QueuesOK, OrderInv, [Next]_vars PROVE OrderInv'
  OBVIOUS
<1>0. /\ clock \in Nat
      /\ \A s \in Sessions : /\ channel[s] \in Seq(Items) /\ pending[s] \in Seq(Items)
                             /\ lastKey[s] \in Nat
  BY CapsAssumption DEF QueuesOK
<1>1. SUFFICES ASSUME NEW r \in Sessions
               PROVE  Behind(lastKey'[r], channel'[r], pending'[r], clock')
  BY DEF OrderInv
<1>2. Behind(lastKey[r], channel[r], pending[r], clock)
  BY DEF OrderInv
<1> USE DEF QueuesOK
<1>3. ASSUME NEW s \in Sessions, DrainSends(s)
      PROVE  Behind(lastKey'[r], channel'[r], pending'[r], clock')
  <2>1. CASE r = s
    <3>1. /\ pending[r] # <<>> /\ UNCHANGED <<lastKey, clock>>
          /\ channel'[r] = Append(channel[r], Head(pending[r])) /\ pending'[r] = Tail(pending[r])
      BY <1>3, <2>1 DEF DrainSends
    <3>2. QED
      BY <1>0, <1>2, <3>1, BehindMoves
  <2>2. CASE r # s
    BY <1>2, <1>3, <2>2 DEF DrainSends
  <2>3. QED
    BY <2>1, <2>2
<1>4. ASSUME NEW s \in Sessions, DrainEnds(s)
      PROVE  Behind(lastKey'[r], channel'[r], pending'[r], clock')
  <2>1. /\ UNCHANGED <<lastKey, channel, clock>>
        /\ pending'[r] = pending[r] \/ pending'[r] = <<>>
    BY <1>4 DEF DrainEnds
  <2>2. QED
    BY <1>0, <1>2, <2>1, BehindReads
<1>5. ASSUME NEW s \in Sessions, SendDirect(s)
      PROVE  Behind(lastKey'[r], channel'[r], pending'[r], clock')
  <2>1. /\ UNCHANGED <<lastKey, pending>> /\ clock' = clock + 1
        /\ channel'[r] = channel[r] \/ channel'[r] = Append(channel[r], Report(clock + 1))
    BY <1>5 DEF SendDirect
  <2>2. QED
    BY <1>0, <1>2, <2>1, BehindQueues
<1>6. ASSUME NEW to \in SUBSET Sessions, SendInput(to)
      PROVE  Behind(lastKey'[r], channel'[r], pending'[r], clock')
  <2>1. UNCHANGED lastKey /\ clock' = clock + 1
    BY <1>6 DEF SendInput
  <2>2. \/ UNCHANGED <<channel[r], pending[r]>>
        \/ /\ pending[r] = <<>> /\ UNCHANGED <<pending[r]>>
           /\ channel'[r] = Append(channel[r], Key(clock + 1))
        \/ /\ UNCHANGED <<channel[r]>>
           /\ pending'[r] = Append(pending[r], Key(clock + 1))
    BY <1>6, <2>1 DEF SendInput, Accepts, GoesStraight
  <2>3. QED
    BY <1>0, <1>2, <2>1, <2>2, BehindQueues
<1>7. ASSUME NEW s \in Sessions, Read(s)
      PROVE  Behind(lastKey'[r], channel'[r], pending'[r], clock')
  <2>1. CASE r = s
    <3>1. /\ channel[r] # <<>> /\ UNCHANGED <<pending, clock>>
          /\ channel'[r] = Tail(channel[r])
          /\ lastKey'[r] = IF IsKey(Head(channel[r])) THEN Head(channel[r]).n ELSE lastKey[r]
      BY <1>7, <2>1 DEF Read, IsKey
    <3>2. QED
      BY <1>0, <1>2, <3>1, BehindReads
  <2>2. CASE r # s
    BY <1>2, <1>7, <2>2 DEF Read
  <2>3. QED
    BY <2>1, <2>2
<1>8. ASSUME NEW s \in Sessions, BackendEnds(s)
      PROVE  Behind(lastKey'[r], channel'[r], pending'[r], clock')
  <2>1. /\ UNCHANGED <<lastKey, pending, clock>>
        /\ channel'[r] = channel[r] \/ channel'[r] = <<>>
    BY <1>8 DEF BackendEnds
  <2>2. QED
    BY <1>0, <1>2, <2>1, BehindReads
<1>9. CASE (\E s \in Sessions : DrainStalls(s)) \/ FrameBegins \/ PumpEnds
             \/ RouteEnds \/ DrawEnds \/ FrameEnds \/ UNCHANGED vars
  BY <1>2, <1>9 DEF DrainStalls, FrameBegins, PumpEnds, RouteEnds, DrawEnds, FrameEnds, vars
<1>10. QED
  BY <1>3, <1>4, <1>5, <1>6, <1>7, <1>8, <1>9 DEF Next, Frames, Pump, Route, Typed, Pasted

\* Of two keys a backend reads, the one read later was typed later: for every
\* number of sessions, every capacity and every interleaving of the frame loop
\* with the backends.
THEOREM KeysStayInOrder == Spec => KeysInOrder
<1>1. Init => QueuesOK /\ OrderInv
  BY CapsAssumption DEF Init, QueuesOK, OrderInv, Behind, InOrder
<1>2. QueuesOK /\ OrderInv /\ [Next]_vars => (QueuesOK /\ OrderInv)'
  BY QueuesStep, OrderStep
<1>3. QueuesOK /\ OrderInv /\ [Next]_vars
        => [\A s \in Sessions : lastKey'[s] >= lastKey[s]]_vars
  <2> SUFFICES ASSUME QueuesOK, OrderInv, [Next]_vars, NEW s \in Sessions
               PROVE  lastKey'[s] >= lastKey[s]
    BY DEF vars
  <2>1. lastKey[s] \in Nat
    BY CapsAssumption DEF QueuesOK
  <2>2. ASSUME NEW r \in Sessions, Read(r) PROVE lastKey'[s] >= lastKey[s]
    <3>1. CASE s = r /\ IsKey(Head(channel[s]))
      <4>1. channel[s] \in Seq(Items) /\ channel[s] # <<>> /\ lastKey'[s] = Head(channel[s]).n
        BY <2>2, <3>1 DEF Read, IsKey, QueuesOK
      <4>2. 1 \in 1..Len(channel[s]) /\ Head(channel[s]) = channel[s][1]
        BY <4>1, TailFits
      <4>3. lastKey[s] < channel[s][1].n /\ channel[s][1].n \in Int
        BY <3>1, <4>1, <4>2, InItems DEF OrderInv, Behind
      <4>4. QED
        BY <2>1, <4>1, <4>2, <4>3
    <3>2. CASE ~(s = r /\ IsKey(Head(channel[s])))
      <4>1. lastKey'[s] = lastKey[s]
        BY <2>2, <3>2 DEF Read, IsKey, QueuesOK
      <4>2. QED
        BY <2>1, <4>1
    <3>3. QED
      BY <3>1, <3>2
  <2>3. CASE UNCHANGED lastKey
    BY <2>1, <2>3
  <2>4. QED
    BY <2>2, <2>3 DEF Next, Frames, Pump, PumpEnds, RouteEnds, DrawEnds, FrameEnds, FrameBegins, Route,
         Typed, Pasted, DrainSends, DrainStalls, DrainEnds, SendDirect, SendInput, BackendEnds, vars
<1>4. QED
  BY <1>1, <1>2, <1>3, PTL DEF Spec, KeysInOrder

--------------------------------------------------------------------------------
(* Bounds and types.                                                         *)

\* A queue that grows by one at a time, and only below its bound, stays within it.
LEMMA GrowsByOne ==
  ASSUME NEW S, NEW cap \in Nat, NEW q \in Seq(S), Len(q) <= cap, NEW q2,
         \/ q2 = q \/ q2 = <<>>
         \/ q # <<>> /\ q2 = Tail(q)
         \/ Len(q) < cap /\ \E e \in S : q2 = Append(q, e)
  PROVE  Len(q2) <= cap
<1>1. CASE q # <<>> /\ q2 = Tail(q)
  BY <1>1, TailFits
<1>2. CASE Len(q) < cap /\ \E e \in S : q2 = Append(q, e)
  <2>1. PICK e \in S : q2 = Append(q, e)
    BY <1>2
  <2>2. Len(q2) = Len(q) + 1
    BY <2>1, AppendFits
  <2>3. Len(q) \in Nat
    OBVIOUS
  <2>4. QED
    BY <1>2, <2>2, <2>3
<1>3. QED
  BY <1>1, <1>2

LEMMA BoundsStep == QueuesOK /\ TypeOK /\ [Next]_vars => TypeOK'
<1> SUFFICES ASSUME QueuesOK, TypeOK, [Next]_vars PROVE TypeOK'
  OBVIOUS
<1>1. QueuesOK'
  BY QueuesStep
<1> DEFINE Rest == /\ dropping \in [Sessions -> BOOLEAN] /\ open \in [Sessions -> BOOLEAN]
                   /\ phase \in {"idle", "pump", "route", "draw", "dialogs"} /\ toPump \subseteq Sessions
                   /\ latest \in [Sessions -> 0..MaxItems] /\ lost \in [Sessions -> 0..MaxItems]
           Fits == \A s \in Sessions : Len(channel[s]) <= InputCap /\ Len(pending[s]) <= PendingCap
<1>2. SUFFICES Rest' /\ Fits'
  BY <1>1 DEF TypeOK, QueuesOK
<1>3. Rest /\ Fits /\ \A s \in Sessions : channel[s] \in Seq(Items) /\ pending[s] \in Seq(Items)
  BY DEF TypeOK
<1>4. /\ \A s \in Sessions : Len(channel[s]) \in Nat /\ Len(pending[s]) \in Nat
      /\ InputCap \in Nat /\ PendingCap \in Nat /\ MaxItems \in Nat /\ Len(<<>>) = 0
  BY <1>3, CapsAssumption
<1>5. ASSUME \A s \in Sessions :
               /\ \/ channel'[s] = channel[s] \/ channel'[s] = <<>>
                  \/ channel[s] # <<>> /\ channel'[s] = Tail(channel[s])
                  \/ ~Full(s) /\ \E e \in Items : channel'[s] = Append(channel[s], e)
               /\ \/ pending'[s] = pending[s] \/ pending'[s] = <<>>
                  \/ pending[s] # <<>> /\ pending'[s] = Tail(pending[s])
                  \/ Queues(s) /\ \E e \in Items : pending'[s] = Append(pending[s], e)
      PROVE  Fits'
  <2>1. ASSUME NEW s \in Sessions PROVE Len(channel'[s]) <= InputCap
    <3>1. ~Full(s) => Len(channel[s]) < InputCap
      BY <1>4 DEF Full
    <3>2. /\ channel[s] \in Seq(Items) /\ Len(channel[s]) <= InputCap
          /\ \/ channel'[s] = channel[s] \/ channel'[s] = <<>>
             \/ channel[s] # <<>> /\ channel'[s] = Tail(channel[s])
             \/ Len(channel[s]) < InputCap /\ \E e \in Items : channel'[s] = Append(channel[s], e)
      BY <1>3, <1>5, <3>1
    <3>3. QED
      BY <1>4, <3>2, GrowsByOne
  <2>2. ASSUME NEW s \in Sessions PROVE Len(pending'[s]) <= PendingCap
    <3>1. /\ pending[s] \in Seq(Items) /\ Len(pending[s]) <= PendingCap
          /\ \/ pending'[s] = pending[s] \/ pending'[s] = <<>>
             \/ pending[s] # <<>> /\ pending'[s] = Tail(pending[s])
             \/ Len(pending[s]) < PendingCap /\ \E e \in Items : pending'[s] = Append(pending[s], e)
      BY <1>3, <1>5 DEF Queues
    <3>2. QED
      BY <1>4, <3>1, GrowsByOne
  <2>3. QED
    BY <2>1, <2>2
<1> HIDE DEF Fits
<1>6. ASSUME NEW s \in Sessions, DrainSends(s) PROVE Rest' /\ Fits'
  <2>1. Head(pending[s]) \in Items
    BY <1>3, <1>6, TailFits DEF DrainSends
  <2>2. Fits'
    BY <1>3, <1>5, <1>6, <2>1 DEF DrainSends, TypeOK
  <2>3. QED
    BY <1>3, <1>6, <2>2 DEF DrainSends
<1>7. ASSUME NEW s \in Sessions, DrainStalls(s) \/ DrainEnds(s) PROVE Rest' /\ Fits'
  <2>1. Fits'
    BY <1>3, <1>5, <1>7 DEF DrainStalls, DrainEnds, TypeOK
  <2>2. QED
    BY <1>3, <1>7, <2>1 DEF DrainStalls, DrainEnds
<1>8. ASSUME NEW s \in Sessions, SendDirect(s) PROVE Rest' /\ Fits'
  <2>1. Report(clock') \in Items
    BY <1>4, <1>8, ItemsOK DEF SendDirect, TypeOK
  <2>2. Fits'
    BY <1>3, <1>5, <1>8, <2>1 DEF SendDirect, TypeOK
  <2>3. QED
    BY <1>3, <1>8, <2>2 DEF SendDirect
<1>9. ASSUME NEW to \in SUBSET Sessions, SendInput(to), phase' = phase \/ phase' = "idle"
      PROVE  Rest' /\ Fits'
  <2>1. clock' \in 1..MaxItems /\ Key(clock') \in Items
    BY <1>4, <1>9, ItemsOK DEF SendInput, TypeOK
  <2>2. Fits'
    BY <1>5, <1>9, <2>1 DEF SendInput, Accepts, GoesStraight
  <2>3. dropping' \in [Sessions -> BOOLEAN] /\ lost' \in [Sessions -> 0..MaxItems]
    <3>1. \A s \in Sessions : Marked(s) \in BOOLEAN /\ Discards(s) \in BOOLEAN
      BY <1>3 DEF Marked, Discards
    <3>2. QED
      BY <1>3, <1>9, <2>1, <3>1 DEF SendInput
  <2>4. QED
    BY <1>3, <1>9, <2>1, <2>2, <2>3 DEF SendInput
<1>10. ASSUME NEW s \in Sessions, Read(s) \/ BackendEnds(s) PROVE Rest' /\ Fits'
  <2>1. Fits'
    BY <1>3, <1>5, <1>10 DEF Read, BackendEnds, TypeOK
  <2>2. QED
    BY <1>3, <1>10, <2>1 DEF Read, BackendEnds
<1>11. CASE FrameBegins \/ PumpEnds \/ RouteEnds \/ DrawEnds \/ FrameEnds \/ UNCHANGED vars
  <2>1. Fits'
    BY <1>3, <1>11 DEF FrameBegins, PumpEnds, RouteEnds, DrawEnds, FrameEnds, vars, Fits
  <2>2. QED
    BY <1>3, <1>11, <2>1 DEF FrameBegins, PumpEnds, RouteEnds, DrawEnds, FrameEnds, vars
<1>12. QED
  BY <1>6, <1>7, <1>8, <1>9, <1>10, <1>11 DEF Next, Frames, Pump, Route, Typed, Pasted

\* NFR-16: whatever is typed at however many wedged sessions, neither queue of any
\* of them exceeds its bound.
THEOREM QueuesAreBounded == Spec => []TypeOK
<1>1. Init => QueuesOK /\ TypeOK
  BY CapsAssumption DEF Init, QueuesOK, TypeOK
<1>2. QED
  BY <1>1, QueuesStep, BoundsStep, PTL DEF Spec

--------------------------------------------------------------------------------
(* The mark of a loss.  It goes only when the queue it was set for has gone   *)
(* too, and what is queued after a loss is younger than what was lost.       *)

LossInv == LossIsMarked /\ \A s \in Sessions : lost[s] <= clock

LEMMA LossStep == QueuesOK /\ TypeOK /\ LossInv /\ [Next]_vars => LossInv'
<1> SUFFICES ASSUME QueuesOK, TypeOK, LossInv, [Next]_vars PROVE LossInv'
  OBVIOUS
<1>0. /\ \A s \in Sessions : /\ pending[s] \in Seq(Items) /\ lost[s] \in Nat
                             /\ lost[s] <= clock
      /\ clock \in Nat
      /\ dropping \in [Sessions -> BOOLEAN]
  BY CapsAssumption DEF TypeOK, LossInv
<1>1. \A s \in Sessions, i \in Nat :
        i \in 1..Len(pending[s]) /\ pending[s][i].n < lost[s] => dropping[s]
  BY DEF LossInv, LossIsMarked
<1>2. ASSUME NEW s \in Sessions, DrainSends(s) PROVE LossInv'
  <2>1. /\ UNCHANGED <<dropping, lost, clock>> /\ pending[s] # <<>>
        /\ \A r \in Sessions : pending'[r] = IF r = s THEN Tail(pending[s]) ELSE pending[r]
    BY <1>2 DEF DrainSends, QueuesOK
  <2>2. ASSUME NEW r \in Sessions, NEW i \in 1..Len(pending'[r]), pending'[r][i].n < lost[r]
        PROVE  dropping[r]
    <3>1. CASE r = s
      <4> DEFINE q == pending[s]
                 t == Tail(q)
      <4>a. q \in Seq(Items) /\ q # <<>> /\ pending'[s] = t /\ i \in 1..Len(t)
        BY <1>0, <2>1, <2>2, <3>1
      <4>b. Len(t) = Len(q) - 1 /\ Len(q) \in Nat \ {0} /\ \A k \in 1..(Len(q) - 1) : t[k] = q[k + 1]
        BY <4>a, TailFits
      <4> HIDE DEF q, t
      <4>c. i \in 1..(Len(q) - 1) /\ i + 1 \in 1..Len(q) /\ t[i] = q[i + 1]
        BY <4>a, <4>b
      <4>1. i + 1 \in 1..Len(pending[s]) /\ pending'[s][i] = pending[s][i + 1]
        BY <4>a, <4>c DEF q
      <4>2. QED
        BY <1>1, <2>2, <3>1, <4>1
    <3>2. CASE r # s
      BY <1>1, <2>1, <2>2, <3>2
    <3>3. QED
      BY <3>1, <3>2
  <2>3. QED
    BY <1>0, <2>1, <2>2 DEF LossInv, LossIsMarked
<1>3. ASSUME NEW s \in Sessions, DrainEnds(s) PROVE LossInv'
  <2>1. /\ UNCHANGED <<lost, clock>>
        /\ \A r \in Sessions :
             IF r = s THEN pending'[r] = <<>>
             ELSE pending'[r] = pending[r] /\ dropping'[r] = dropping[r]
    BY <1>0, <1>3 DEF DrainEnds, QueuesOK
  <2>2. ASSUME NEW r \in Sessions, NEW i \in 1..Len(pending'[r]), pending'[r][i].n < lost[r]
        PROVE  dropping'[r]
    <3>1. r # s
      BY <2>1
    <3>2. QED
      BY <1>1, <2>1, <2>2, <3>1
  <2>3. QED
    BY <1>0, <2>1, <2>2 DEF LossInv, LossIsMarked
<1>4. ASSUME NEW to \in SUBSET Sessions, SendInput(to) PROVE LossInv'
  <2>1. clock' = clock + 1
    BY <1>4 DEF SendInput
  <2>2. ASSUME NEW r \in Sessions
        PROVE  /\ lost'[r] \in {clock', lost[r]}
               /\ dropping[r] => dropping'[r]
               /\ \/ dropping'[r]
                  \/ lost'[r] = lost[r] /\ pending'[r] = pending[r]
                  \/ lost'[r] = lost[r] /\ pending'[r] = Append(pending[r], Key(clock'))
    <3>1. /\ lost'[r] = IF r \in to /\ Discards(r) THEN clock' ELSE lost[r]
          /\ dropping'[r] = IF r \in to THEN Marked(r) ELSE dropping[r]
          /\ pending'[r] = pending[r] \/ pending'[r] = Append(pending[r], Key(clock'))
      BY <1>4 DEF SendInput
    <3>2. QED
      BY <3>1 DEF Marked
  <2>3. ASSUME NEW r \in Sessions, NEW i \in 1..Len(pending'[r]), pending'[r][i].n < lost'[r]
        PROVE  dropping'[r]
    <3>1. CASE dropping'[r]
      BY <3>1
    <3>2. CASE lost'[r] = lost[r] /\ pending'[r] = pending[r]
      BY <1>1, <2>2, <2>3, <3>2
    <3>3. CASE lost'[r] = lost[r] /\ pending'[r] = Append(pending[r], Key(clock'))
      <4>1. i \in 1..Len(pending[r]) \/ pending'[r][i] = Key(clock')
        BY <1>0, <2>3, <3>3
      <4>2. CASE pending'[r][i] = Key(clock')
        BY <1>0, <2>1, <2>3, <3>3, <4>2 DEF Key
      <4>3. CASE i \in 1..Len(pending[r])
        <5>1. pending'[r][i] = pending[r][i]
          BY <1>0, <3>3, <4>3
        <5>2. QED
          BY <1>1, <2>2, <2>3, <3>3, <4>3, <5>1
      <4>4. QED
        BY <4>1, <4>2, <4>3
    <3>4. QED
      BY <2>2, <3>1, <3>2, <3>3
  <2>4. QED
    BY <1>0, <2>1, <2>2, <2>3 DEF LossInv, LossIsMarked
<1>5. CASE UNCHANGED <<pending, dropping, lost>> /\ clock' \in {clock, clock + 1}
  BY <1>0, <1>1, <1>5 DEF LossInv, LossIsMarked
<1>6. ASSUME NEW s \in Sessions,
             DrainStalls(s) \/ SendDirect(s) \/ Read(s) \/ BackendEnds(s)
      PROVE  LossInv'
  BY <1>5, <1>6 DEF DrainStalls, SendDirect, Read, BackendEnds
<1>7. CASE FrameBegins \/ PumpEnds \/ RouteEnds \/ DrawEnds \/ FrameEnds \/ UNCHANGED vars
  BY <1>5, <1>7 DEF FrameBegins, PumpEnds, RouteEnds, DrawEnds, FrameEnds, vars
<1>8. QED
  BY <1>2, <1>3, <1>4, <1>6, <1>7 DEF Next, Frames, Pump, Route, Typed, Pasted

\* ARCHITECTURE 10.3: wherever the losses, drains and reads fall, a session that
\* has discarded input carries the mark for as long as its host stays wedged.
THEOREM LossesAreMarked == Spec => []LossIsMarked
<1>1. Init => QueuesOK /\ TypeOK /\ LossInv
  BY CapsAssumption DEF Init, QueuesOK, TypeOK, LossInv, LossIsMarked
<1>2. LossInv => LossIsMarked
  BY DEF LossInv
<1>3. QED
  BY <1>1, <1>2, QueuesStep, BoundsStep, LossStep, PTL DEF Spec

--------------------------------------------------------------------------------
(* The keys of a queue, in order: KeysOf as a walk along it.                 *)

AndKey(keys, item) == IF IsKey(item) THEN Append(keys, item.n) ELSE keys
Collects(q, f)     == f[0] = <<>> /\ \A i \in 1..Len(q) : f[i] = AndKey(f[i - 1], q[i])
Walk(q, n, f)      == f = [i \in 0..n |-> IF i = 0 THEN <<>> ELSE AndKey(f[i - 1], q[i])]

LEMMA WalkExists ==
  ASSUME NEW q
  PROVE  \A n \in Nat : \E f : Walk(q, n, f)
<1> DEFINE D == {n \in Nat : \E f : Walk(q, n, f)}
<1>1. 0 \in D
  <2> DEFINE f == [i \in 0..0 |-> <<>>]
  <2>1. f = [i \in 0..0 |-> IF i = 0 THEN <<>> ELSE AndKey(f[i - 1], q[i])]
    OBVIOUS
  <2>2. QED
    BY <2>1 DEF Walk
<1>2. ASSUME NEW n \in Nat, n \in D PROVE n + 1 \in D
  <2>1. PICK f : Walk(q, n, f)
    BY <1>2
  <2> DEFINE g == [i \in 0..(n + 1) |-> IF i = n + 1 THEN AndKey(f[n], q[n + 1]) ELSE f[i]]
  <2>2. \A i \in 0..n : f[i] = IF i = 0 THEN <<>> ELSE AndKey(f[i - 1], q[i])
    BY <2>1 DEF Walk
  <2>3. ASSUME NEW i \in 0..(n + 1)
        PROVE  g[i] = IF i = 0 THEN <<>> ELSE AndKey(g[i - 1], q[i])
    <3>1. CASE i = n + 1
      <4>1. i # 0 /\ i - 1 = n /\ n \in 0..(n + 1) /\ n # n + 1
        BY <3>1
      <4>2. g[i] = AndKey(f[n], q[n + 1]) /\ g[i - 1] = f[n]
        BY <3>1, <4>1
      <4>3. QED
        BY <3>1, <4>1, <4>2
    <3>2. CASE i # n + 1
      <4>1. i \in 0..n /\ (i # 0 => i - 1 \in 0..(n + 1) /\ i - 1 # n + 1)
        BY <3>2
      <4>2. g[i] = f[i] /\ (i # 0 => g[i - 1] = f[i - 1])
        BY <3>2, <4>1
      <4>3. QED
        BY <2>2, <4>1, <4>2
    <3>3. QED
      BY <3>1, <3>2
  <2>4. g = [i \in 0..(n + 1) |-> IF i = 0 THEN <<>> ELSE AndKey(g[i - 1], q[i])]
    BY <2>3
  <2>5. Walk(q, n + 1, g)
    BY <2>4 DEF Walk
  <2>6. QED
    BY <2>5
<1> HIDE DEF D
<1>3. Nat \subseteq D
  BY <1>1, <1>2, SetInduction
<1>4. QED
  BY <1>3 DEF D

LEMMA KeysCollect ==
  ASSUME NEW q, Len(q) \in Nat
  PROVE  \E f : Collects(q, f) /\ f[Len(q)] = KeysOf(q)
<1> DEFINE f == CHOOSE d : d = [i \in 0..Len(q) |->
        IF i = 0 THEN <<>>
        ELSE IF q[i].kind = "Key" THEN Append(d[i - 1], q[i].n) ELSE d[i - 1]]
<1>1. f[Len(q)] = KeysOf(q)
  BY Zenon DEF KeysOf
<1>2. \E d : d = [i \in 0..Len(q) |->
        IF i = 0 THEN <<>>
        ELSE IF q[i].kind = "Key" THEN Append(d[i - 1], q[i].n) ELSE d[i - 1]]
  <2>1. PICK d : Walk(q, Len(q), d)
    BY WalkExists
  <2>2. d = [i \in 0..Len(q) |->
          IF i = 0 THEN <<>>
          ELSE IF q[i].kind = "Key" THEN Append(d[i - 1], q[i].n) ELSE d[i - 1]]
    BY <2>1, Zenon DEF Walk, AndKey, IsKey
  <2>3. QED
    BY <2>2, Zenon
<1>3. f = [i \in 0..Len(q) |->
        IF i = 0 THEN <<>>
        ELSE IF q[i].kind = "Key" THEN Append(f[i - 1], q[i].n) ELSE f[i - 1]]
  BY <1>2, Zenon
<1> HIDE DEF f
<1>4. f[0] = <<>>
  BY <1>3
<1>5. ASSUME NEW i \in 1..Len(q) PROVE f[i] = AndKey(f[i - 1], q[i])
  <2>1. i \in 0..Len(q) /\ i # 0
    OBVIOUS
  <2>2. QED
    BY <1>3, <2>1 DEF AndKey, IsKey
<1>6. QED
  BY <1>1, <1>4, <1>5 DEF Collects

\* The keys of a queue are numbers, and as many as there are items when all are keys.
LEMMA KeysAreNumbers ==
  ASSUME NEW q \in Seq(Items)
  PROVE  /\ KeysOf(q) \in Seq(Nat)
         /\ q = <<>> => KeysOf(q) = <<>>
         /\ (\A i \in 1..Len(q) : IsKey(q[i])) => Len(KeysOf(q)) = Len(q)
<1>1. PICK f : Collects(q, f) /\ f[Len(q)] = KeysOf(q)
  BY KeysCollect
<1>2. f[0] = <<>> /\ \A i \in 1..Len(q) : f[i] = AndKey(f[i - 1], q[i])
  BY <1>1 DEF Collects
<1>3. \A i \in 1..Len(q) : q[i].n \in Nat
  BY InItems
<1> DEFINE All  == \A i \in 1..Len(q) : IsKey(q[i])
           D    == {n \in Nat : n <= Len(q) => f[n] \in Seq(Nat) /\ (All => Len(f[n]) = n)}
<1>4. 0 \in D
  BY <1>2, EmptySeq
<1>5. ASSUME NEW n \in Nat, n \in D PROVE n + 1 \in D
  <2> SUFFICES ASSUME n + 1 <= Len(q)
               PROVE  f[n + 1] \in Seq(Nat) /\ (All => Len(f[n + 1]) = n + 1)
    OBVIOUS
  <2>1. n <= Len(q) /\ n + 1 \in 1..Len(q) /\ (n + 1) - 1 = n
    OBVIOUS
  <2>2. f[n] \in Seq(Nat) /\ (All => Len(f[n]) = n) /\ f[n + 1] = AndKey(f[n], q[n + 1])
    BY <1>2, <1>5, <2>1
  <2>3. CASE IsKey(q[n + 1])
    <3>1. f[n + 1] = Append(f[n], q[n + 1].n) /\ q[n + 1].n \in Nat
      BY <1>3, <2>1, <2>2, <2>3 DEF AndKey
    <3>2. f[n + 1] \in Seq(Nat) /\ Len(f[n + 1]) = Len(f[n]) + 1
      BY <2>2, <3>1, AppendFits
    <3>3. QED
      BY <2>2, <3>2
  <2>4. CASE ~IsKey(q[n + 1])
    <3>1. f[n + 1] = f[n] /\ ~All
      BY <2>1, <2>2, <2>4 DEF AndKey
    <3>2. QED
      BY <2>2, <3>1
  <2>5. QED
    BY <2>3, <2>4
<1> HIDE DEF D
<1>6. Nat \subseteq D
  BY <1>4, <1>5, SetInduction
<1>7. Len(q) \in Nat /\ (q = <<>> => Len(q) = 0)
  OBVIOUS
<1>8. f[Len(q)] \in Seq(Nat) /\ (All => Len(f[Len(q)]) = Len(q))
  BY <1>6, <1>7 DEF D
<1>9. QED
  BY <1>1, <1>2, <1>7, <1>8

\* An item at the end.
LEMMA KeysAppend ==
  ASSUME NEW q \in Seq(Items), NEW e \in Items
  PROVE  KeysOf(Append(q, e)) = AndKey(KeysOf(q), e)
<1> DEFINE r == Append(q, e)
<1>1. /\ r \in Seq(Items) /\ Len(r) = Len(q) + 1 /\ Len(q) \in Nat /\ Len(r) \in Nat
      /\ \A i \in 1..Len(q) : r[i] = q[i]
      /\ r[Len(q) + 1] = e
  BY AppendFits
<1>2. PICK f : Collects(q, f) /\ f[Len(q)] = KeysOf(q)
  BY KeysCollect
<1> HIDE DEF r
<1>3. PICK g : Collects(r, g) /\ g[Len(r)] = KeysOf(r)
  BY <1>1, KeysCollect
<1> DEFINE D == {n \in Nat : n <= Len(q) => g[n] = f[n]}
<1>4. 0 \in D
  BY <1>2, <1>3 DEF Collects
<1>5. ASSUME NEW n \in Nat, n \in D PROVE n + 1 \in D
  <2> SUFFICES ASSUME n + 1 <= Len(q) PROVE g[n + 1] = f[n + 1]
    OBVIOUS
  <2>1. n <= Len(q) /\ n + 1 \in 1..Len(q) /\ n + 1 \in 1..Len(r) /\ (n + 1) - 1 = n
    BY <1>1
  <2>2. g[n] = f[n] /\ f[n + 1] = AndKey(f[n], q[n + 1]) /\ g[n + 1] = AndKey(g[n], r[n + 1])
    BY <1>2, <1>3, <1>5, <2>1 DEF Collects
  <2>3. QED
    BY <1>1, <2>1, <2>2
<1> HIDE DEF D
<1>6. Nat \subseteq D
  BY <1>4, <1>5, SetInduction
<1>7. g[Len(q)] = f[Len(q)]
  BY <1>1, <1>6 DEF D
<1>8. Len(q) + 1 \in 1..Len(r) /\ (Len(q) + 1) - 1 = Len(q)
  BY <1>1
<1>9. g[Len(q) + 1] = AndKey(g[Len(q)], e)
  BY <1>1, <1>3, <1>8 DEF Collects
<1>10. QED
  BY <1>1, <1>2, <1>3, <1>7, <1>9 DEF r

\* An item at the front.
LEMMA KeysTail ==
  ASSUME NEW q \in Seq(Items), q # <<>>
  PROVE  KeysOf(q) = Joined(IF IsKey(Head(q)) THEN <<Head(q).n>> ELSE <<>>, KeysOf(Tail(q)))
<1> DEFINE r == Tail(q)  first == IF IsKey(Head(q)) THEN <<Head(q).n>> ELSE <<>>
<1>1. /\ r \in Seq(Items) /\ Len(r) = Len(q) - 1 /\ Len(q) \in Nat \ {0} /\ Len(r) \in Nat
      /\ \A i \in 1..Len(r) : r[i] = q[i + 1]
      /\ Head(q) = q[1] /\ Head(q) \in Items
  BY TailFits
<1>2. PICK f : Collects(q, f) /\ f[Len(q)] = KeysOf(q)
  BY KeysCollect
<1>3. first \in Seq(Nat) /\ f[1] = first
  <2>1. Head(q).n \in Nat
    BY <1>1, InItems
  <2>2. 1 \in 1..Len(q) /\ 1 - 1 = 0
    BY <1>1
  <2>3. f[1] = AndKey(<<>>, Head(q))
    BY <1>1, <1>2, <2>2 DEF Collects
  <2>4. QED
    BY <2>1, <2>3 DEF AndKey
<1> HIDE DEF r, first
<1>4. PICK g : Collects(r, g) /\ g[Len(r)] = KeysOf(r)
  BY <1>1, KeysCollect
<1>5. \A i \in 1..Len(r) : r[i].n \in Nat
  BY <1>1, InItems
<1> DEFINE D == {n \in Nat : n <= Len(r) => f[n + 1] = Joined(first, g[n]) /\ g[n] \in Seq(Nat)}
<1>6. 0 \in D
  <2>1. g[0] = <<>>
    BY <1>4 DEF Collects
  <2>2. Joined(first, <<>>) = first /\ <<>> \in Seq(Nat)
    BY <1>3, JoinedEmpty, EmptySeq
  <2>3. f[0 + 1] = Joined(first, g[0]) /\ g[0] \in Seq(Nat)
    BY <1>3, <2>1, <2>2
  <2>4. QED
    BY <2>3
<1>7. ASSUME NEW n \in Nat, n \in D PROVE n + 1 \in D
  <2> SUFFICES ASSUME n + 1 <= Len(r)
               PROVE  f[(n + 1) + 1] = Joined(first, g[n + 1]) /\ g[n + 1] \in Seq(Nat)
    OBVIOUS
  <2>1. /\ n <= Len(r) /\ n + 1 \in 1..Len(r) /\ (n + 1) + 1 \in 1..Len(q)
        /\ (n + 1) - 1 = n /\ ((n + 1) + 1) - 1 = n + 1
    BY <1>1
  <2>2. f[n + 1] = Joined(first, g[n]) /\ g[n] \in Seq(Nat)
    BY <1>7, <2>1
  <2>3. f[(n + 1) + 1] = AndKey(f[n + 1], r[n + 1]) /\ g[n + 1] = AndKey(g[n], r[n + 1])
    BY <1>1, <1>2, <1>4, <2>1 DEF Collects
  <2>4. CASE IsKey(r[n + 1])
    <3>1. PICK k \in Nat : k = r[n + 1].n
      BY <1>5, <2>1
    <3>2. /\ f[(n + 1) + 1] = Append(f[n + 1], r[n + 1].n)
          /\ g[n + 1] = Append(g[n], r[n + 1].n)
      BY <2>3, <2>4, Zenon DEF AndKey
    <3>3. Append(Joined(first, g[n]), k) = Joined(first, Append(g[n], k))
      BY <1>3, <2>2, JoinedAppend
    <3>4. QED
      BY <2>2, <3>1, <3>2, <3>3, AppendFits
  <2>5. CASE ~IsKey(r[n + 1])
    BY <2>2, <2>3, <2>5 DEF AndKey
  <2>6. QED
    BY <2>4, <2>5
<1> HIDE DEF D
<1>8. Nat \subseteq D
  BY <1>6, <1>7, SetInduction
<1>9. f[Len(r) + 1] = Joined(first, g[Len(r)])
  BY <1>1, <1>8 DEF D
<1>10. QED
  BY <1>1, <1>2, <1>4, <1>9 DEF r, first

\* What is read from a queue: its first key, or no key.
LEMMA KeysHead ==
  ASSUME NEW q \in Seq(Items), q # <<>>
  PROVE  /\ IsKey(Head(q)) => /\ KeysOf(q) # <<>> /\ Head(KeysOf(q)) = Head(q).n
                             /\ Tail(KeysOf(q)) = KeysOf(Tail(q))
         /\ ~IsKey(Head(q)) => KeysOf(q) = KeysOf(Tail(q))
<1> DEFINE one == <<Head(q).n>>  rest == KeysOf(Tail(q))
<1>1. Tail(q) \in Seq(Items) /\ Head(q) \in Items
  BY TailFits
<1>2. rest \in Seq(Nat) /\ Head(q).n \in Nat
  <2>1. rest \in Seq(Nat)
    BY <1>1, KeysAreNumbers, Zenon
  <2>2. Head(q).n \in 1..MaxItems
    BY <1>1, InItems, Zenon
  <2>3. QED
    BY <2>1, <2>2, CapsAssumption
<1>3. one \in Seq(Nat) /\ one # <<>> /\ Tail(one) = <<>> /\ Head(one) = Head(q).n
  BY <1>2
<1>4. KeysOf(q) = Joined(IF IsKey(Head(q)) THEN one ELSE <<>>, rest)
  BY KeysTail
<1> HIDE DEF one, rest
<1>5. CASE IsKey(Head(q))
  <2>1. KeysOf(q) = Joined(one, rest)
    BY <1>4, <1>5, Zenon
  <2>2. /\ KeysOf(q) # <<>> /\ Head(KeysOf(q)) = Head(q).n
        /\ Tail(KeysOf(q)) = Joined(<<>>, rest)
    <3>1. /\ Joined(one, rest) # <<>> /\ Head(Joined(one, rest)) = Head(one)
          /\ Tail(Joined(one, rest)) = Joined(Tail(one), rest)
      BY <1>2, <1>3, JoinedTail, Zenon
    <3>2. QED
      BY <1>3, <2>1, <3>1, Zenon
  <2>3. Joined(<<>>, rest) = rest
    BY <1>2, JoinedEmpty
  <2>4. QED
    BY <1>5, <2>2, <2>3 DEF rest
<1>6. CASE ~IsKey(Head(q))
  <2>1. KeysOf(q) = Joined(<<>>, rest)
    BY <1>4, <1>6, Zenon
  <2>2. QED
    BY <1>2, <1>6, <2>1, JoinedEmpty DEF rest
<1>7. QED
  BY <1>5, <1>6

--------------------------------------------------------------------------------
(* The two queues of a session as one: what its keys wait in.                *)

Waiting(s) == Joined(KeysOf(channel[s]), KeysOf(pending[s]))

\* The steps of InputFifo, in the terms of this module.
LEMMA FifoSteps ==
  ASSUME NEW s,
         \/ Waiting(s)' = Waiting(s) /\ latest'[s] = latest[s] /\ open'[s] = open[s]
         \/ /\ latest'[s] > latest[s] /\ open'[s] = open[s]
            /\ \/ Waiting(s)' = Append(Waiting(s), latest'[s])
               \/ (Len(Waiting(s)) >= PendingCap \/ ~open[s]) /\ Waiting(s)' = Waiting(s)
         \/ /\ open[s] /\ Waiting(s) # <<>> /\ Waiting(s)' = Tail(Waiting(s))
            /\ latest'[s] = latest[s] /\ open'[s] = open[s]
         \/ /\ open'[s] = FALSE /\ latest'[s] = latest[s]
            /\ Len(Waiting(s)') <= Len(Waiting(s))
  PROVE  Fifo(s)!Step
  BY DEF Fifo!Step, Fifo!fifo, Fifo!Next, Fifo!Type, Fifo!Deliver, Fifo!Close, Waiting, Joined


LatestInv ==
  /\ latest \in [Sessions -> Nat] /\ open \in [Sessions -> BOOLEAN]
  /\ \A s \in Sessions : latest[s] <= clock

LEMMA LatestStep == QueuesOK /\ LatestInv /\ [Next]_vars => LatestInv'
<1> SUFFICES ASSUME QueuesOK, LatestInv, [Next]_vars PROVE LatestInv'
  OBVIOUS
<1> USE DEF LatestInv
<1>0. clock \in Nat
  BY DEF QueuesOK
<1>1. ASSUME NEW s \in Sessions, SendDirect(s) PROVE LatestInv'
  BY <1>0, <1>1 DEF SendDirect
<1>2. ASSUME NEW to \in SUBSET Sessions, SendInput(to) PROVE LatestInv'
  BY <1>0, <1>2 DEF SendInput
<1>3. ASSUME NEW s \in Sessions, DrainSends(s) \/ DrainStalls(s) \/ DrainEnds(s) \/ Read(s)
      PROVE  LatestInv'
  BY <1>3 DEF DrainSends, DrainStalls, DrainEnds, Read
<1>4. ASSUME NEW s \in Sessions, BackendEnds(s) PROVE LatestInv'
  BY <1>4 DEF BackendEnds
<1>5. CASE FrameBegins \/ PumpEnds \/ RouteEnds \/ DrawEnds \/ FrameEnds \/ UNCHANGED vars
  BY <1>5 DEF FrameBegins, PumpEnds, RouteEnds, DrawEnds, FrameEnds, vars
<1>6. QED
  BY <1>1, <1>2, <1>3, <1>4, <1>5 DEF Next, Frames, Pump, Route, Typed, Pasted


LEMMA SameSession ==
  ASSUME NEW s, channel'[s] = channel[s], pending'[s] = pending[s],
         latest'[s] = latest[s], open'[s] = open[s]
  PROVE  Fifo(s)!Step
<1>1. Waiting(s)' = Waiting(s)
  BY DEF Waiting
<1>2. QED
  BY <1>1, FifoSteps

LEMMA FifoStep ==
  QueuesOK /\ OrderInv /\ LatestInv /\ [Next]_vars => \A s \in Sessions : Fifo(s)!Step
<1> SUFFICES ASSUME QueuesOK, OrderInv, LatestInv, [Next]_vars, NEW s \in Sessions
             PROVE  Fifo(s)!Step
  OBVIOUS
<1> DEFINE c == channel[s]  p == pending[s]
           inChannel == KeysOf(c)  inPending == KeysOf(p)
<1>1. c \in Seq(Items) /\ p \in Seq(Items)
  BY DEF QueuesOK
<1>2. inChannel \in Seq(Nat) /\ inPending \in Seq(Nat)
  BY <1>1, KeysAreNumbers, Zenon
<1>3. \A j \in 1..Len(p) : IsKey(p[j])
  BY DEF OrderInv, Behind
<1>4. Len(inPending) = Len(p)
  BY <1>1, <1>3, KeysAreNumbers, Zenon
<1>5. Waiting(s) = Joined(inChannel, inPending)
  BY DEF Waiting
<1>6. /\ Len(Waiting(s)) \in Nat
      /\ Len(Waiting(s)) >= Len(inChannel) /\ Len(Waiting(s)) >= Len(inPending)
      /\ Len(Waiting(s)) >= Len(p) /\ Len(p) \in Nat
  <2> DEFINE w == Joined(inChannel, inPending)
  <2>1. /\ Len(w) = Len(inChannel) + Len(inPending)
        /\ Len(inChannel) \in Nat /\ Len(inPending) \in Nat
    BY <1>2, JoinedFits, Zenon
  <2> HIDE DEF w, inChannel, inPending
  <2>2. /\ Len(w) \in Nat /\ Len(w) >= Len(inChannel) /\ Len(w) >= Len(inPending)
        /\ Len(w) >= Len(p) /\ Len(p) \in Nat
    BY <1>4, <2>1
  <2>3. QED
    BY <1>5, <2>2, Zenon DEF w
<1>7. KeysOf(<<>>) = <<>>
  BY KeysAreNumbers, EmptySeq
<1>8. ASSUME NEW t \in Sessions, DrainSends(t) PROVE Fifo(s)!Step
  <2>1. CASE t # s
    BY <1>8, <2>1, SameSession DEF DrainSends, QueuesOK
  <2>2. CASE t = s
    <3>1. p # <<>> /\ channel'[s] = Append(c, Head(p)) /\ pending'[s] = Tail(p)
      BY <1>8, <2>2 DEF DrainSends, QueuesOK
    <3>2. latest'[s] = latest[s] /\ open'[s] = open[s]
      BY <1>8 DEF DrainSends
    <3>3. Head(p) \in Items /\ IsKey(Head(p))
      BY <1>1, <1>3, <3>1
    <3>4. KeysOf(Append(c, Head(p))) = Append(inChannel, Head(p).n)
      BY <1>1, <3>3, KeysAppend, Zenon DEF AndKey
    <3>5. inPending # <<>> /\ Head(inPending) = Head(p).n /\ Tail(inPending) = KeysOf(Tail(p))
      BY <1>1, <3>1, <3>3, KeysHead, Zenon
    <3>6. Waiting(s)' = Joined(Append(inChannel, Head(inPending)), Tail(inPending))
      BY <3>1, <3>4, <3>5, Zenon DEF Waiting
    <3>7. Waiting(s)' = Waiting(s)
      BY <1>2, <1>5, <3>5, <3>6, JoinedMove, Zenon
    <3>8. QED
      BY <3>2, <3>7, FifoSteps, Zenon
  <2>3. QED
    BY <2>1, <2>2
<1>9. ASSUME NEW t \in Sessions, DrainStalls(t) PROVE Fifo(s)!Step
  BY <1>9, SameSession DEF DrainStalls
<1>10. ASSUME NEW t \in Sessions, DrainEnds(t) PROVE Fifo(s)!Step
  <2>1. CASE t # s \/ p = <<>>
    BY <1>10, <2>1, SameSession DEF DrainEnds, QueuesOK
  <2>2. CASE t = s /\ p # <<>>
    <3>1. /\ channel'[s] = c /\ pending'[s] = <<>>
          /\ latest'[s] = latest[s] /\ open'[s] = open[s] /\ ~open[s]
      BY <1>10, <2>2 DEF DrainEnds, QueuesOK
    <3>2. open'[s] = FALSE
      BY <3>1 DEF LatestInv
    <3>3. Waiting(s)' = Joined(inChannel, <<>>)
      BY <1>7, <3>1, Zenon DEF Waiting
    <3>4. Waiting(s)' = inChannel
      BY <1>2, <3>3, JoinedEmpty, Zenon
    <3>5. Len(Waiting(s)') <= Len(Waiting(s))
      BY <1>6, <3>4
    <3>6. QED
      BY <3>1, <3>2, <3>5, FifoSteps, Zenon
  <2>3. QED
    BY <2>1, <2>2
<1>11. ASSUME NEW t \in Sessions, SendDirect(t) PROVE Fifo(s)!Step
  <2>1. pending'[s] = p /\ latest'[s] = latest[s] /\ open'[s] = open[s]
    BY <1>11 DEF SendDirect
  <2>2. CASE channel'[s] = c
    BY <2>1, <2>2, SameSession
  <2>3. CASE channel'[s] # c
    <3>1. channel'[s] = Append(c, Report(clock')) /\ clock' \in 1..MaxItems
      BY <1>11, <2>3, CapsAssumption DEF SendDirect, QueuesOK
    <3>2. Report(clock') \in Items /\ ~IsKey(Report(clock'))
      BY <3>1, ItemsOK DEF IsKey, Report
    <3>3. KeysOf(Append(c, Report(clock'))) = inChannel
      BY <1>1, <3>2, KeysAppend, Zenon DEF AndKey
    <3>4. Waiting(s)' = Waiting(s)
      BY <2>1, <3>1, <3>3, Zenon DEF Waiting
    <3>5. QED
      BY <2>1, <3>4, FifoSteps, Zenon
  <2>4. QED
    BY <2>2, <2>3
<1>12. ASSUME NEW to \in SUBSET Sessions, SendInput(to) PROVE Fifo(s)!Step
  <2>1. CASE s \notin to
    BY <1>12, <2>1, SameSession DEF SendInput
  <2>2. CASE s \in to
    <3>1. /\ clock' \in 1..MaxItems /\ latest'[s] = clock' /\ latest'[s] > latest[s]
          /\ open'[s] = open[s]
      BY <1>12, <2>2, CapsAssumption DEF SendInput, QueuesOK, LatestInv
    <3>2. Key(clock') \in Items /\ IsKey(Key(clock')) /\ Key(clock').n = clock'
      BY <3>1, ItemsOK DEF IsKey, Key
    <3>3. clock' \in Nat
      BY <3>1
    <3>4. CASE Accepts(s)
      <4>1. channel'[s] = Append(c, Key(clock')) /\ pending'[s] = p /\ p = <<>>
        BY <1>12, <2>2, <3>4 DEF SendInput, Accepts, GoesStraight
      <4>2. KeysOf(Append(c, Key(clock'))) = Append(inChannel, clock')
        BY <1>1, <3>2, KeysAppend, Zenon DEF AndKey
      <4>3. inPending = <<>>
        BY <1>7, <4>1
      <4>4. Waiting(s) = inChannel
        BY <1>2, <1>5, <4>3, JoinedEmpty, Zenon
      <4>5. Waiting(s)' = Joined(Append(inChannel, clock'), <<>>)
        BY <4>1, <4>2, <4>3, Zenon DEF Waiting
      <4>6. Append(inChannel, clock') \in Seq(Nat)
        BY <1>2, <3>3, AppendFits
      <4>7. Waiting(s)' = Append(Waiting(s), latest'[s])
        BY <3>1, <4>4, <4>5, <4>6, JoinedEmpty, Zenon
      <4>8. QED
        BY <3>1, <4>7, FifoSteps, Zenon
    <3>5. CASE ~Accepts(s) /\ ~Ignores(s) /\ Queues(s)
      <4>1. channel'[s] = c /\ pending'[s] = Append(p, Key(clock'))
        BY <1>12, <2>2, <3>5 DEF SendInput
      <4>2. KeysOf(Append(p, Key(clock'))) = Append(inPending, clock')
        BY <1>1, <3>2, KeysAppend, Zenon DEF AndKey
      <4>3. Waiting(s)' = Joined(inChannel, Append(inPending, clock'))
        BY <4>1, <4>2, Zenon DEF Waiting
      <4>4. Waiting(s)' = Append(Waiting(s), latest'[s])
        <5>1. Append(Joined(inChannel, inPending), clock') = Joined(inChannel, Append(inPending, clock'))
          BY <1>2, <3>3, JoinedAppend
        <5>2. QED
          BY <1>5, <3>1, <4>3, <5>1, Zenon
      <4>5. QED
        BY <3>1, <4>4, FifoSteps, Zenon
    <3>6. CASE Ignores(s) \/ Discards(s)
      <4>1. channel'[s] = c /\ pending'[s] = p
        BY <1>12, <2>2, <3>6 DEF SendInput, Ignores, Accepts, Discards
      <4>2. Waiting(s)' = Waiting(s)
        BY <4>1, Zenon DEF Waiting
      <4>3. ~open[s] \/ Len(Waiting(s)) >= PendingCap
        <5>1. CASE Ignores(s)
          BY <5>1 DEF Ignores
        <5>2. CASE Discards(s)
          <6>1. Len(p) >= PendingCap
            BY <1>1, <5>2, CapsAssumption DEF Discards, Queues
          <6>2. QED
            BY <1>6, <6>1, CapsAssumption
        <5>3. QED
          BY <3>6, <5>1, <5>2
      <4>4. QED
        BY <3>1, <4>2, <4>3, FifoSteps, Zenon
    <3>7. QED
      BY <3>4, <3>5, <3>6 DEF Discards
  <2>3. QED
    BY <2>1, <2>2
<1>13. ASSUME NEW t \in Sessions, Read(t) PROVE Fifo(s)!Step
  <2>1. pending'[s] = p /\ latest'[s] = latest[s] /\ open'[s] = open[s]
    BY <1>13 DEF Read
  <2>2. CASE t # s
    BY <1>13, <2>1, <2>2, SameSession DEF Read, QueuesOK
  <2>3. CASE t = s
    <3>1. open[s] /\ c # <<>> /\ channel'[s] = Tail(c)
      BY <1>13, <2>3 DEF Read, QueuesOK
    <3>2. Waiting(s)' = Joined(KeysOf(Tail(c)), inPending)
      BY <2>1, <3>1, Zenon DEF Waiting
    <3>3. CASE IsKey(Head(c))
      <4>1. inChannel # <<>> /\ Tail(inChannel) = KeysOf(Tail(c))
        BY <1>1, <3>1, <3>3, KeysHead, Zenon
      <4>2. Waiting(s) # <<>> /\ Waiting(s)' = Tail(Waiting(s))
        <5>1. /\ Joined(inChannel, inPending) # <<>>
              /\ Tail(Joined(inChannel, inPending)) = Joined(Tail(inChannel), inPending)
          BY <1>2, <4>1, JoinedTail, Zenon
        <5>2. QED
          BY <1>5, <3>2, <4>1, <5>1, Zenon
      <4>3. QED
        BY <2>1, <3>1, <4>2, FifoSteps, Zenon
    <3>4. CASE ~IsKey(Head(c))
      <4>1. Waiting(s)' = Waiting(s)
        BY <1>1, <1>5, <3>1, <3>2, <3>4, KeysHead, Zenon
      <4>2. QED
        BY <2>1, <4>1, FifoSteps, Zenon
    <3>5. QED
      BY <3>3, <3>4
  <2>4. QED
    BY <2>2, <2>3
<1>14. ASSUME NEW t \in Sessions, BackendEnds(t) PROVE Fifo(s)!Step
  <2>1. pending'[s] = p /\ latest'[s] = latest[s]
    BY <1>14 DEF BackendEnds
  <2>2. CASE t # s
    BY <1>14, <2>1, <2>2, SameSession DEF BackendEnds, QueuesOK, LatestInv
  <2>3. CASE t = s
    <3>1. open'[s] = FALSE /\ channel'[s] = <<>>
      BY <1>14, <2>3 DEF BackendEnds, QueuesOK, LatestInv
    <3>2. Waiting(s)' = Joined(<<>>, inPending)
      BY <1>7, <2>1, <3>1, Zenon DEF Waiting
    <3>3. Waiting(s)' = inPending
      BY <1>2, <3>2, JoinedEmpty, Zenon
    <3>4. Len(Waiting(s)') <= Len(Waiting(s))
      BY <1>6, <3>3
    <3>5. QED
      BY <2>1, <3>1, <3>4, FifoSteps, Zenon
  <2>4. QED
    BY <2>2, <2>3
<1>15. CASE FrameBegins \/ PumpEnds \/ RouteEnds \/ DrawEnds \/ FrameEnds \/ UNCHANGED vars
  BY <1>15, SameSession DEF FrameBegins, PumpEnds, RouteEnds, DrawEnds, FrameEnds, vars
<1>16. QED
  BY <1>8, <1>9, <1>10, <1>11, <1>12, <1>13, <1>14, <1>15 DEF Next, Frames, Pump, Route, Typed, Pasted

\* The channel and the pending queue of every session implement one queue of keys
\* (send_input: "Order is preserved"), which discards a key only when PendingCap
\* of them wait or nobody is left to read them.
THEOREM KeysGoThroughOneQueue == Spec => KeysAreQueued
<1>1. Init => QueuesOK /\ OrderInv /\ LatestInv
  BY CapsAssumption DEF Init, QueuesOK, OrderInv, Behind, InOrder, LatestInv
<1>2. Init => \A s \in Sessions : Fifo(s)!Init
  <2>1. ASSUME Init, NEW s \in Sessions PROVE Fifo(s)!Init
    <3>1. channel[s] = <<>> /\ pending[s] = <<>> /\ latest[s] = 0 /\ open[s] = TRUE
      BY <2>1 DEF Init
    <3>2. KeysOf(<<>>) = <<>>
      BY KeysAreNumbers, EmptySeq
    <3>3. KeysOf(channel[s]) \o KeysOf(pending[s]) = <<>>
      BY <3>1, <3>2, EmptySeq, ConcatEmptySeq
    <3>4. QED
      BY <3>1, <3>3 DEF Fifo!Init
  <2>2. QED
    BY <2>1
<1>3. QED
  BY <1>1, <1>2, QueuesStep, OrderStep, LatestStep, FifoStep, PTL DEF Spec, KeysAreQueued

================================================================================
