------------------------------ MODULE Tiles_proofs ------------------------------
(***************************************************************************)
(* Theorems about Tiles, for every number of tiles and every set of        *)
(* sessions: the tree stays a tree, and input stays where it belongs.      *)
(***************************************************************************)
EXTENDS Tiles, SharedLemmas, FiniteSetTheorems

USE DEF tree

LEMMA TilesFinite ==
  /\ MaxTiles \in Nat /\ TileIds \subseteq Nat /\ IsFiniteSet(TileIds) /\ Cardinality(TileIds) = MaxTiles
  /\ None \notin TileIds /\ None \notin Instances
<1>1. IsFiniteSet(1..MaxTiles) /\ Cardinality(1..MaxTiles) = MaxTiles
  BY TilesAssumption, FS_Interval
<1>2. QED
  BY <1>1, TilesAssumption DEF TileIds

--------------------------------------------------------------------------------
(* A subtree: what a walk of MaxTiles levels finds is the smallest set with  *)
(* its top in it and the children of each of its members.                    *)

Closed(ts, S) == \A u \in S \cap DOMAIN ts : ts[u].kids \subseteq S
KidsOK(ts)    == DOMAIN ts \subseteq TileIds /\ \A u \in DOMAIN ts : ts[u].kids \subseteq TileIds

Walks(ts, t, n, f) == f = [k \in 0..n |-> IF k = 0 THEN {t} ELSE Further(ts, f[k - 1])]

\* The walk is defined, however many levels it has.
LEMMA WalkExists ==
  ASSUME NEW ts, NEW t
  PROVE  \A n \in Nat : \E f : Walks(ts, t, n, f)
<1> DEFINE S == {n \in Nat : \E f : Walks(ts, t, n, f)}
<1>1. 0 \in S
  <2> DEFINE f == [k \in 0..0 |-> {t}]
  <2>1. f = [k \in 0..0 |-> IF k = 0 THEN {t} ELSE Further(ts, f[k - 1])]
    OBVIOUS
  <2>2. QED
    BY <2>1 DEF Walks
<1>2. ASSUME NEW n \in Nat, n \in S PROVE n + 1 \in S
  <2>1. PICK f : Walks(ts, t, n, f)
    BY <1>2
  <2> DEFINE g == [k \in 0..(n + 1) |-> IF k = n + 1 THEN Further(ts, f[n]) ELSE f[k]]
  <2>2. \A k \in 0..n : f[k] = IF k = 0 THEN {t} ELSE Further(ts, f[k - 1])
    BY <2>1 DEF Walks
  <2>3. ASSUME NEW k \in 0..(n + 1)
        PROVE  g[k] = IF k = 0 THEN {t} ELSE Further(ts, g[k - 1])
    <3>1. CASE k = n + 1
      <4>1. k # 0 /\ k - 1 = n /\ n \in 0..(n + 1) /\ n # n + 1
        BY <3>1
      <4>2. g[k] = Further(ts, f[n]) /\ g[k - 1] = f[n]
        BY <3>1, <4>1
      <4>3. QED
        BY <4>1, <4>2
    <3>2. CASE k # n + 1
      <4>1. k \in 0..n /\ (k # 0 => k - 1 \in 0..(n + 1) /\ k - 1 # n + 1)
        BY <3>2
      <4>2. g[k] = f[k] /\ (k # 0 => g[k - 1] = f[k - 1])
        BY <3>2, <4>1
      <4>3. QED
        BY <2>2, <4>1, <4>2
    <3>3. QED
      BY <3>1, <3>2
  <2>4. g = [k \in 0..(n + 1) |-> IF k = 0 THEN {t} ELSE Further(ts, g[k - 1])]
    BY <2>3
  <2>5. Walks(ts, t, n + 1, g)
    BY <2>4 DEF Walks
  <2>6. QED
    BY <2>5
<1> HIDE DEF S
<1>3. Nat \subseteq S
  BY <1>1, <1>2, SetInduction
<1>4. QED
  BY <1>3 DEF S

\* Within is where the walk ends.
WalksTo(ts, t, f, S) ==
  f[0] = {t} /\ f[MaxTiles] = S /\ \A k \in 1..MaxTiles : f[k] = Further(ts, f[k - 1])

LEMMA WithinWalks ==
  ASSUME NEW ts, NEW t
  PROVE  \E f : WalksTo(ts, t, f, Within(ts, t))
<1> DEFINE f == CHOOSE d : d = [n \in 0..MaxTiles |-> IF n = 0 THEN {t} ELSE Further(ts, d[n - 1])]
<1>1. MaxTiles \in Nat
  BY TilesFinite
<1>2. f[MaxTiles] = Within(ts, t)
  BY Zenon DEF Within
<1>3. \E d : d = [n \in 0..MaxTiles |-> IF n = 0 THEN {t} ELSE Further(ts, d[n - 1])]
  <2>1. PICK d : Walks(ts, t, MaxTiles, d)
    BY <1>1, WalkExists
  <2>2. QED
    BY <2>1, Zenon DEF Walks
<1>4. f = [n \in 0..MaxTiles |-> IF n = 0 THEN {t} ELSE Further(ts, f[n - 1])]
  BY <1>3, Zenon
<1> HIDE DEF f
<1>5. f[0] = {t}
  BY <1>1, <1>4
<1>6. ASSUME NEW k \in 1..MaxTiles PROVE f[k] = Further(ts, f[k - 1])
  <2>1. k \in 0..MaxTiles /\ k # 0
    BY <1>1
  <2>2. QED
    BY <1>4, <2>1
<1>7. QED
  BY <1>2, <1>5, <1>6 DEF WalksTo

LEMMA WithinLeast ==
  ASSUME NEW ts, NEW t, NEW S, t \in S, Closed(ts, S)
  PROVE  Within(ts, t) \subseteq S
<1>0. PICK f : WalksTo(ts, t, f, Within(ts, t))
  BY WithinWalks
<1>1. f[0] = {t} /\ f[MaxTiles] = Within(ts, t) /\ \A k \in 1..MaxTiles : f[k] = Further(ts, f[k - 1])
  BY <1>0 DEF WalksTo
<1>2. MaxTiles \in Nat
  BY TilesFinite
<1> DEFINE D == {n \in Nat : n <= MaxTiles => f[n] \subseteq S}
<1>3. 0 \in D
  BY <1>1
<1>4. ASSUME NEW n \in Nat, n \in D PROVE n + 1 \in D
  <2> SUFFICES ASSUME n + 1 <= MaxTiles PROVE f[n + 1] \subseteq S
    OBVIOUS
  <2>1. n <= MaxTiles /\ n + 1 \in 1..MaxTiles /\ (n + 1) - 1 = n
    BY <1>2
  <2>2. f[n] \subseteq S /\ f[n + 1] = Further(ts, f[n])
    BY <1>1, <1>4, <2>1
  <2>3. QED
    BY <2>2 DEF Further, Closed
<1> HIDE DEF D
<1>5. Nat \subseteq D
  BY <1>3, <1>4, SetInduction
<1>6. QED
  BY <1>1, <1>2, <1>5 DEF D

LEMMA WithinClosed ==
  ASSUME NEW ts, NEW t, KidsOK(ts), t \in TileIds
  PROVE  t \in Within(ts, t) /\ Within(ts, t) \subseteq TileIds /\ Closed(ts, Within(ts, t))
<1>0. PICK f : WalksTo(ts, t, f, Within(ts, t))
  BY WithinWalks
<1>1. f[0] = {t} /\ f[MaxTiles] = Within(ts, t) /\ \A k \in 1..MaxTiles : f[k] = Further(ts, f[k - 1])
  BY <1>0 DEF WalksTo
<1>2. MaxTiles \in Nat /\ IsFiniteSet(TileIds) /\ Cardinality(TileIds) = MaxTiles
  BY TilesFinite
<1> DEFINE Good(S, n) == /\ t \in S /\ S \subseteq TileIds
                         /\ Closed(ts, S) \/ Cardinality(S) > n
           D == {n \in Nat : n <= MaxTiles => Good(f[n], n)}
<1>3. 0 \in D
  <2>1. Cardinality({t}) = 1
    BY FS_Singleton
  <2>2. QED
    BY <1>1, <2>1
<1>4. ASSUME NEW n \in Nat, n \in D PROVE n + 1 \in D
  <2> SUFFICES ASSUME n + 1 <= MaxTiles PROVE Good(f[n + 1], n + 1)
    OBVIOUS
  <2>1. n <= MaxTiles /\ n + 1 \in 1..MaxTiles /\ (n + 1) - 1 = n
    BY <1>2
  <2>2. Good(f[n], n) /\ f[n + 1] = Further(ts, f[n])
    BY <1>1, <1>4, <2>1
  <2> HIDE DEF D
  <2>3. t \in f[n + 1] /\ f[n] \subseteq f[n + 1] /\ f[n + 1] \subseteq TileIds
    BY <2>2 DEF Further, KidsOK
  <2>4. IsFiniteSet(f[n]) /\ IsFiniteSet(f[n + 1])
    BY <1>2, <2>2, <2>3, FS_Subset
  <2>5. CASE Closed(ts, f[n])
    <3>1. f[n + 1] = f[n]
      BY <2>2, <2>5 DEF Further, Closed
    <3>2. QED
      BY <2>3, <2>5, <3>1
  <2>6. CASE ~Closed(ts, f[n])
    <3>1. PICK x : x \in f[n + 1] \ f[n]
      BY <2>2, <2>6 DEF Further, Closed
    <3>2. IsFiniteSet(f[n] \cup {x}) /\ Cardinality(f[n] \cup {x}) = Cardinality(f[n]) + 1
      BY <2>4, <3>1, FS_AddElement
    <3>3. Cardinality(f[n] \cup {x}) <= Cardinality(f[n + 1])
      BY <2>3, <2>4, <3>1, FS_Subset
    <3>4. Cardinality(f[n]) \in Nat /\ Cardinality(f[n + 1]) \in Nat
      BY <2>4, FS_CardinalityType
    <3>5. Cardinality(f[n + 1]) > n + 1
      BY <2>2, <2>6, <3>2, <3>3, <3>4
    <3>6. QED
      BY <2>3, <3>5
  <2>7. QED
    BY <2>5, <2>6
<1> HIDE DEF D
<1>5. Nat \subseteq D
  BY <1>3, <1>4, SetInduction
<1>6. Good(f[MaxTiles], MaxTiles)
  BY <1>2, <1>5 DEF D
<1>7. Cardinality(f[MaxTiles]) <= MaxTiles
  BY <1>2, <1>6, FS_Subset
<1>8. Cardinality(f[MaxTiles]) \in Nat
  BY <1>2, <1>6, FS_Subset, FS_CardinalityType
<1>9. Closed(ts, f[MaxTiles])
  BY <1>2, <1>6, <1>7, <1>8
<1>10. QED
  BY <1>1, <1>6, <1>9

\* Whoever is below the top of a subtree has a parent in it.
LEMMA WithinParent ==
  ASSUME NEW ts, NEW t, NEW x, KidsOK(ts), t \in TileIds, x \in Within(ts, t), x # t
  PROVE  \E u \in Within(ts, t) \cap DOMAIN ts : x \in ts[u].kids
<1> SUFFICES ASSUME \A u \in Within(ts, t) \cap DOMAIN ts : x \notin ts[u].kids PROVE FALSE
  OBVIOUS
<1> DEFINE S == Within(ts, t) \ {x}
<1>1. t \in Within(ts, t) /\ Closed(ts, Within(ts, t))
  BY WithinClosed
<1>2. t \in S /\ Closed(ts, S)
  BY <1>1 DEF Closed
<1>3. Within(ts, t) \subseteq S
  BY <1>2, WithinLeast
<1>4. QED
  BY <1>3

\* A tile with nothing below it.
LEMMA WithinLeaf ==
  ASSUME NEW ts, NEW t, KidsOK(ts), t \in TileIds, t \in DOMAIN ts => ts[t].kids = {}
  PROVE  Within(ts, t) = {t}
<1>1. t \in Within(ts, t)
  BY WithinClosed
<1>2. t \in {t} /\ Closed(ts, {t})
  BY DEF Closed
<1>3. Within(ts, t) \subseteq {t}
  BY <1>2, WithinLeast
<1>4. QED
  BY <1>1, <1>3

\* The subtree of a tile of a subtree is a part of it.
LEMMA WithinMonotone ==
  ASSUME NEW ts, NEW t, NEW u, KidsOK(ts), t \in TileIds, u \in Within(ts, t)
  PROVE  Within(ts, u) \subseteq Within(ts, t)
<1>1. Closed(ts, Within(ts, t))
  BY WithinClosed
<1>2. QED
  BY <1>1, WithinLeast

\* Where no tile has two parents, of two subtrees that meet one has the other's top.
OneParent(ts) == \A u, v \in DOMAIN ts : \A x \in ts[u].kids : x \in ts[v].kids => u = v

LEMMA Nested ==
  ASSUME NEW ts, NEW a, NEW b, NEW x, KidsOK(ts), OneParent(ts), a \in TileIds, b \in TileIds,
         x \in Within(ts, a), x \in Within(ts, b)
  PROVE  a \in Within(ts, b) \/ b \in Within(ts, a)
<1> SUFFICES ASSUME a \notin Within(ts, b), b \notin Within(ts, a) PROVE FALSE
  OBVIOUS
<1> DEFINE S == Within(ts, a) \ Within(ts, b)
<1>1. a \in Within(ts, a) /\ Closed(ts, Within(ts, a))
  BY WithinClosed
<1>2. ASSUME NEW u \in S \cap DOMAIN ts, NEW y \in ts[u].kids PROVE y \in S
  <2>1. y \in Within(ts, a) /\ y # b
    BY <1>1, <1>2 DEF Closed
  <2>2. ASSUME y \in Within(ts, b) PROVE FALSE
    <3>1. PICK v \in Within(ts, b) \cap DOMAIN ts : y \in ts[v].kids
      BY <2>1, <2>2, WithinParent
    <3>2. v = u
      BY <1>2, <3>1 DEF OneParent
    <3>3. QED
      BY <1>2, <3>1, <3>2
  <2>3. QED
    BY <2>1, <2>2
<1>3. a \in S /\ Closed(ts, S)
  BY <1>1, <1>2 DEF Closed
<1>4. Within(ts, a) \subseteq S
  BY <1>3, WithinLeast
<1>5. QED
  BY <1>4

--------------------------------------------------------------------------------
(* What the tree's operations keep: it is a tree, and all of it hangs off    *)
(* the root.                                                                 *)

TileOK(tile) ==
  /\ tile \in Tile
  /\ IF tile.kind = "pane" THEN tile.pane \in Instances /\ tile.kids = {} ELSE tile.pane = None

\* An instance has one pane.
Apart(ts) == \A t, u \in Panes(ts) : ts[t].pane = ts[u].pane => t = u

Tree(ts) ==
  /\ DOMAIN ts \subseteq TileIds
  /\ \A t \in DOMAIN ts : TileOK(ts[t]) /\ ts[t].kids \subseteq DOMAIN ts
  /\ OneParent(ts)
  /\ Apart(ts)

Rooted(ts, r) ==
  /\ r = None => ts = <<>>
  /\ r # None => r \in DOMAIN ts /\ DOMAIN ts = Within(ts, r)
  /\ \A t \in DOMAIN ts : r \notin ts[t].kids

\* What the operations leave, by name, but for Minus.
WithLeaf(ts, p, leaf, s)        == [Plus(ts, leaf, Pane(s)) EXCEPT ![p].kids = @ \cup {leaf}]
UnderGroup(ts, r, g, leaf, s)   == Plus(Plus(ts, leaf, Pane(s)), g, Group("tabs", {r, leaf}))
WrappedAs(ts, at, moved, kind)  == Plus(Plus(ts, moved, ts[at]), at, Group(kind, {moved}))
Shared(ts, at, moved, leaf, s, kind) ==
  [u \in DOMAIN ts \cup {moved, leaf} |->
    IF u = at THEN Group(kind, {moved, leaf}) ELSE IF u = moved THEN ts[at]
    ELSE IF u = leaf THEN Pane(s) ELSE ts[u]]
\* The instances of a tree's panes.
Shown(ts) == {ts[t].pane : t \in Panes(ts)}

LEMMA TreeKids ==
  ASSUME NEW ts, Tree(ts)
  PROVE  KidsOK(ts) /\ OneParent(ts)
BY DEF Tree, KidsOK

LEMMA SamePanes ==
  ASSUME NEW ts, NEW ts2, Apart(ts), Panes(ts2) = Panes(ts), \A t \in Panes(ts) : ts2[t].pane = ts[t].pane
  PROVE  Apart(ts2) /\ Shown(ts2) = Shown(ts)
<1>1. Apart(ts2)
  BY DEF Apart
<1>2. Shown(ts2) = Shown(ts)
  BY DEF Shown
<1>3. QED
  BY <1>1, <1>2

\* Everything is in a set that has the root and the children of its members.
LEMMA AllReached ==
  ASSUME NEW ts, NEW r, NEW S, Rooted(ts, r), r # None, r \in S, Closed(ts, S)
  PROVE  DOMAIN ts \subseteq S
BY WithinLeast DEF Rooted

LEMMA RootedIntro ==
  ASSUME NEW ts, NEW r, Tree(ts), r \in DOMAIN ts,
         \A t \in DOMAIN ts : r \notin ts[t].kids,
         \A S : r \in S /\ Closed(ts, S) => DOMAIN ts \subseteq S
  PROVE  Rooted(ts, r)
<1>1. KidsOK(ts) /\ r \in TileIds /\ r # None
  BY TreeKids, TilesFinite DEF Tree
<1>2. DOMAIN ts \subseteq Within(ts, r)
  BY <1>1, WithinClosed
<1>3. Closed(ts, DOMAIN ts)
  BY DEF Tree, Closed
<1>4. Within(ts, r) \subseteq DOMAIN ts
  BY <1>3, WithinLeast
<1>5. QED
  BY <1>1, <1>2, <1>4 DEF Rooted

\* The tree without the subtrees of some tiles.
LEMMA MinusTree ==
  ASSUME NEW ts, NEW r, NEW gone, Tree(ts), Rooted(ts, r), gone \subseteq TileIds,
         NEW ts2, ts2 = Minus(ts, gone), NEW r2, r2 = IF r \in gone THEN None ELSE r
  PROVE  /\ Tree(ts2) /\ Rooted(ts2, r2)
         /\ Panes(ts2) = Panes(ts) \ UNION {Within(ts, t) : t \in gone}
         /\ \A t \in Panes(ts2) : ts2[t].pane = ts[t].pane
<1> DEFINE R == UNION {Within(ts, t) : t \in gone}
<1>1. KidsOK(ts) /\ OneParent(ts) /\ DOMAIN ts \subseteq TileIds
  BY TreeKids DEF Tree
<1>2. gone \subseteq R /\ Closed(ts, R)
  <2>1. \A t \in gone : t \in Within(ts, t) /\ Closed(ts, Within(ts, t))
    BY <1>1, WithinClosed
  <2>2. QED
    BY <2>1 DEF Closed
<1>3. ASSUME NEW x \in R, x \notin gone PROVE \E u \in R \cap DOMAIN ts : x \in ts[u].kids
  <2>1. PICK t \in gone : x \in Within(ts, t)
    BY <1>3
  <2>2. x # t /\ t \in TileIds
    BY <1>3
  <2>3. \E u \in Within(ts, t) \cap DOMAIN ts : x \in ts[u].kids
    BY <1>1, <2>1, <2>2, WithinParent
  <2>4. QED
    BY <2>3
<1>4. /\ DOMAIN ts2 = DOMAIN ts \ R
      /\ \A u \in DOMAIN ts2 : ts2[u] = [ts[u] EXCEPT !.kids = @ \ gone]
      /\ ts2 = [u \in DOMAIN ts \ R |-> [ts[u] EXCEPT !.kids = @ \ gone]]
  BY DEF Minus
<1> HIDE DEF R
<1>5. \A u \in DOMAIN ts2 : /\ u \in DOMAIN ts /\ ts[u] \in Tile /\ ts2[u] \in Tile
                            /\ ts2[u].kids = ts[u].kids \ gone
                            /\ ts2[u].kind = ts[u].kind /\ ts2[u].pane = ts[u].pane
  <2>1. SUFFICES ASSUME NEW u \in DOMAIN ts2
                 PROVE  /\ u \in DOMAIN ts /\ ts[u] \in Tile /\ ts2[u] \in Tile
                        /\ ts2[u].kids = ts[u].kids \ gone
                        /\ ts2[u].kind = ts[u].kind /\ ts2[u].pane = ts[u].pane
    OBVIOUS
  <2>2. u \in DOMAIN ts /\ ts[u] \in Tile
    BY <1>4 DEF Tree, TileOK
  <2>3. ts2[u] = [ts[u] EXCEPT !.kids = @ \ gone]
    BY <1>4
  <2>4. QED
    BY <2>2, <2>3 DEF Tile
<1>6. ASSUME NEW u \in DOMAIN ts2 PROVE ts2[u].kids \subseteq DOMAIN ts2
  <2>1. SUFFICES ASSUME NEW x \in ts2[u].kids PROVE x \notin R
    BY <1>4, <1>5 DEF Tree
  <2>2. SUFFICES ASSUME x \in R PROVE FALSE
    OBVIOUS
  <2>3. x \notin gone /\ x \in ts[u].kids /\ u \in DOMAIN ts /\ u \notin R
    BY <1>4, <1>5, <2>1
  <2>4. PICK v \in R \cap DOMAIN ts : x \in ts[v].kids
    BY <1>3, <2>2, <2>3
  <2>5. QED
    BY <1>1, <2>3, <2>4 DEF OneParent
<1>7. Panes(ts2) = Panes(ts) \ R
  BY <1>4, <1>5 DEF Panes
<1>8. Tree(ts2)
  <2>1. \A u \in DOMAIN ts2 : TileOK(ts2[u])
    BY <1>5 DEF Tree, TileOK
  <2>2. OneParent(ts2)
    BY <1>1, <1>5 DEF OneParent
  <2>3. Apart(ts2)
    BY <1>5, <1>7 DEF Tree, Panes, Apart
  <2>4. QED
    BY <1>1, <1>4, <1>6, <2>1, <2>2, <2>3 DEF Tree
<1>9. Rooted(ts2, r2)
  <2>1. CASE r = None \/ r \in gone
    <3>1. r2 = None
      BY <2>1
    <3>2. DOMAIN ts2 = {}
      <4>1. CASE r = None
        BY <1>4, <4>1 DEF Rooted
      <4>2. CASE r # None
        <5>1. r \in R
          BY <1>2, <2>1, <4>2
        <5>2. DOMAIN ts \subseteq R
          BY <1>2, <4>2, <5>1, AllReached
        <5>3. QED
          BY <1>4, <5>2
      <4>3. QED
        BY <4>1, <4>2
    <3>3. ts2 = <<>>
      <4>1. DOMAIN ts \ R = {}
        BY <1>4, <3>2
      <4>2. QED
        BY <1>4, <4>1
    <3>4. QED
      BY <3>1, <3>2, <3>3 DEF Rooted
  <2>2. CASE r # None /\ r \notin gone
    <3>1. r2 = r /\ r \in DOMAIN ts /\ \A t \in DOMAIN ts : r \notin ts[t].kids
      BY <2>2 DEF Rooted
    <3>2. r \in DOMAIN ts2 /\ \A t \in DOMAIN ts2 : r \notin ts2[t].kids
      BY <1>3, <1>4, <1>5, <2>2, <3>1
    <3>3. ASSUME NEW S, r \in S, Closed(ts2, S) PROVE DOMAIN ts2 \subseteq S
      <4>1. Closed(ts, S \cup R)
        <5>1. SUFFICES ASSUME NEW u \in (S \cup R) \cap DOMAIN ts, NEW x \in ts[u].kids, x \notin R
                       PROVE  x \in S
          BY DEF Closed
        <5>2. u \notin R
          BY <1>2, <5>1 DEF Closed
        <5>3. u \in S \cap DOMAIN ts2 /\ x \in ts2[u].kids
          BY <1>2, <1>4, <1>5, <5>1, <5>2
        <5>4. QED
          BY <3>3, <5>3 DEF Closed
      <4>2. DOMAIN ts \subseteq S \cup R
        BY <2>2, <3>3, <4>1, AllReached
      <4>3. QED
        BY <1>4, <4>2
    <3>4. QED
      BY <1>8, <3>1, <3>2, <3>3, RootedIntro
  <2>3. QED
    BY <2>1, <2>2
<1>10. QED
  BY <1>5, <1>7, <1>8, <1>9 DEF R, Panes

LEMMA PaneTile ==
  ASSUME NEW s \in Instances
  PROVE  TileOK(Pane(s)) /\ Pane(s).kind = "pane" /\ Pane(s).kids = {} /\ Pane(s).pane = s
BY DEF TileOK, Pane, Tile, Kinds

LEMMA GroupTile ==
  ASSUME NEW kind, kind \in {"tabs", "linear"}, NEW kids, kids \subseteq TileIds
  PROVE  LET g == Group(kind, kids) IN TileOK(g) /\ g.kind = kind /\ g.kids = kids
BY DEF TileOK, Group, Tile, Kinds

\* The first pane of all.
LEMMA FirstPane ==
  ASSUME NEW leaf \in TileIds, NEW s \in Instances, NEW ts2, ts2 = Plus(<<>>, leaf, Pane(s))
  PROVE  Tree(ts2) /\ Rooted(ts2, leaf) /\ Shown(ts2) = {s}
<1>1. DOMAIN ts2 = {leaf} /\ ts2[leaf] = Pane(s)
  BY DEF Plus
<1>2. TileOK(ts2[leaf]) /\ ts2[leaf].kind = "pane" /\ ts2[leaf].kids = {} /\ ts2[leaf].pane = s
  BY <1>1, PaneTile
<1>3. Tree(ts2) /\ Shown(ts2) = {s}
  BY <1>1, <1>2 DEF Tree, OneParent, Apart, Panes, Shown
<1>4. Rooted(ts2, leaf)
  BY <1>1, <1>2, <1>3, RootedIntro
<1>5. QED
  BY <1>3, <1>4

\* A pane that is new in a group.
LEMMA AddLeaf ==
  ASSUME NEW ts, NEW r, NEW p, NEW leaf, NEW s, Tree(ts), Rooted(ts, r), p \in DOMAIN ts,
         ts[p].kind # "pane", leaf \in TileIds \ DOMAIN ts, s \in Instances \ Shown(ts),
         NEW ts2, ts2 = WithLeaf(ts, p, leaf, s)
  PROVE  Tree(ts2) /\ Rooted(ts2, r) /\ Shown(ts2) = Shown(ts) \cup {s}
<1>0. PICK pane : pane = Pane(s) /\ TileOK(pane) /\ pane.kind = "pane" /\ pane.kids = {} /\ pane.pane = s
  BY PaneTile
<1>1. /\ DOMAIN ts2 = DOMAIN ts \cup {leaf} /\ ts2[leaf] = pane
      /\ ts2[p] = [ts[p] EXCEPT !.kids = @ \cup {leaf}]
      /\ \A u \in DOMAIN ts \ {p} : ts2[u] = ts[u]
  BY <1>0 DEF WithLeaf, Plus
<1>2. DOMAIN ts \subseteq TileIds /\ OneParent(ts) /\ p # leaf
      /\ \A u \in DOMAIN ts : TileOK(ts[u]) /\ ts[u].kids \subseteq DOMAIN ts
  BY DEF Tree
<1>3. /\ TileOK(ts2[p]) /\ ts2[p].kids = ts[p].kids \cup {leaf}
      /\ ts2[p].kind = ts[p].kind /\ ts2[p].pane = ts[p].pane
  BY <1>1, <1>2 DEF TileOK, Tile
<1>4. \A u \in DOMAIN ts2 : TileOK(ts2[u]) /\ ts2[u].kids \subseteq DOMAIN ts2
  BY <1>0, <1>1, <1>2, <1>3
<1>5. OneParent(ts2)
  <2>1. \A u \in DOMAIN ts2 : \A x \in ts2[u].kids :
          \/ x = leaf /\ u = p
          \/ x # leaf /\ u \in DOMAIN ts /\ x \in ts[u].kids
    BY <1>0, <1>1, <1>2, <1>3
  <2>2. QED
    BY <1>2, <2>1 DEF OneParent
<1>6. Panes(ts2) = Panes(ts) \cup {leaf} /\ ts2[leaf].pane = s /\ \A t \in Panes(ts) : ts2[t].pane = ts[t].pane
  <2>1. \A u \in DOMAIN ts : ts2[u].kind = ts[u].kind /\ ts2[u].pane = ts[u].pane
    BY <1>1, <1>3
  <2>2. QED
    BY <1>0, <1>1, <2>1 DEF Panes
<1>7. Shown(ts2) = Shown(ts) \cup {s}
  BY <1>6 DEF Shown
<1>8. Tree(ts2)
  <2>1. \A t \in Panes(ts) : ts[t].pane # s
    BY DEF Shown
  <2>2. Apart(ts2)
    BY <1>6, <2>1 DEF Tree, Apart
  <2>3. QED
    BY <1>1, <1>2, <1>4, <1>5, <2>2 DEF Tree
<1>9. Rooted(ts2, r)
  <2>1. r # None /\ r \in DOMAIN ts /\ \A t \in DOMAIN ts : r \notin ts[t].kids
    BY DEF Rooted
  <2>2. r \in DOMAIN ts2 /\ \A t \in DOMAIN ts2 : r \notin ts2[t].kids
    BY <1>0, <1>1, <1>3, <2>1
  <2>3. ASSUME NEW S, r \in S, Closed(ts2, S) PROVE DOMAIN ts2 \subseteq S
    <3>1. Closed(ts, S)
      BY <1>1, <1>3, <2>3 DEF Closed
    <3>2. DOMAIN ts \subseteq S
      BY <2>1, <2>3, <3>1, AllReached
    <3>3. leaf \in S
      BY <1>1, <1>3, <2>3, <3>2 DEF Closed
    <3>4. QED
      BY <1>1, <3>2, <3>3
  <2>4. QED
    BY <1>8, <2>2, <2>3, RootedIntro
<1>10. QED
  BY <1>7, <1>8, <1>9

\* A new root, with the old one and a new pane below it.
LEMMA NewRoot ==
  ASSUME NEW ts, NEW r, NEW g, NEW leaf, NEW s, Tree(ts), Rooted(ts, r), r # None,
         leaf \in TileIds \ DOMAIN ts, g \in TileIds \ DOMAIN ts, g # leaf, s \in Instances \ Shown(ts),
         NEW ts2, ts2 = UnderGroup(ts, r, g, leaf, s)
  PROVE  Tree(ts2) /\ Rooted(ts2, g) /\ Shown(ts2) = Shown(ts) \cup {s}
<1>0. PICK pane : pane = Pane(s) /\ TileOK(pane) /\ pane.kind = "pane" /\ pane.kids = {} /\ pane.pane = s
  BY PaneTile
<1>1. r \in DOMAIN ts /\ \A t \in DOMAIN ts : r \notin ts[t].kids
  BY DEF Rooted
<1>2. DOMAIN ts \subseteq TileIds /\ OneParent(ts)
      /\ \A u \in DOMAIN ts : TileOK(ts[u]) /\ ts[u].kids \subseteq DOMAIN ts
  BY DEF Tree
<1>3. {r, leaf} \subseteq TileIds
  BY <1>1, <1>2
<1>4. PICK group : /\ group = Group("tabs", {r, leaf}) /\ TileOK(group)
                   /\ group.kind = "tabs" /\ group.kids = {r, leaf}
  BY <1>3, GroupTile
<1>5. /\ DOMAIN ts2 = DOMAIN ts \cup {leaf, g} /\ ts2[leaf] = pane /\ ts2[g] = group
      /\ \A u \in DOMAIN ts : ts2[u] = ts[u]
  BY <1>0, <1>4 DEF UnderGroup, Plus
<1>6. \A u \in DOMAIN ts2 : TileOK(ts2[u]) /\ ts2[u].kids \subseteq DOMAIN ts2
  BY <1>0, <1>1, <1>2, <1>4, <1>5
<1>7. OneParent(ts2)
  <2>1. \A u \in DOMAIN ts2 : \A x \in ts2[u].kids :
          \/ u = g /\ x \in {r, leaf}
          \/ u \in DOMAIN ts /\ x \in ts[u].kids /\ x \notin {r, leaf}
    BY <1>0, <1>1, <1>2, <1>4, <1>5
  <2>2. QED
    BY <1>2, <2>1 DEF OneParent
<1>8. Panes(ts2) = Panes(ts) \cup {leaf} /\ ts2[leaf].pane = s /\ \A t \in Panes(ts) : ts2[t].pane = ts[t].pane
  BY <1>0, <1>4, <1>5 DEF Panes
<1>9. Shown(ts2) = Shown(ts) \cup {s}
  BY <1>8 DEF Shown
<1>10. Tree(ts2)
  <2>1. \A t \in Panes(ts) : ts[t].pane # s
    BY DEF Shown
  <2>2. Apart(ts2)
    BY <1>8, <2>1 DEF Tree, Apart
  <2>3. QED
    BY <1>2, <1>5, <1>6, <1>7, <2>2 DEF Tree
<1>11. ASSUME NEW S, g \in S, Closed(ts2, S) PROVE DOMAIN ts2 \subseteq S
  <2>1. r \in S /\ leaf \in S /\ Closed(ts, S)
    BY <1>4, <1>5, <1>11 DEF Closed
  <2>2. DOMAIN ts \subseteq S
    BY <2>1, AllReached
  <2>3. QED
    BY <1>5, <1>11, <2>1, <2>2
<1>12. Rooted(ts2, g)
  <2>1. g \in DOMAIN ts2 /\ \A t \in DOMAIN ts2 : g \notin ts2[t].kids
    BY <1>0, <1>1, <1>2, <1>4, <1>5
  <2>2. QED
    BY <1>10, <1>11, <2>1, RootedIntro
<1>13. QED
  BY <1>9, <1>10, <1>12

\* A tile that moves to a new id, and leaves a group where it was.
LEMMA WrapTile ==
  ASSUME NEW ts, NEW r, NEW at, NEW moved, NEW kind, Tree(ts), Rooted(ts, r), at \in DOMAIN ts,
         moved \in TileIds \ DOMAIN ts, kind \in {"tabs", "linear"},
         NEW ts2, ts2 = WrappedAs(ts, at, moved, kind)
  PROVE  Tree(ts2) /\ Rooted(ts2, r) /\ Shown(ts2) = Shown(ts)
<1>1. DOMAIN ts \subseteq TileIds /\ OneParent(ts) /\ at # moved
      /\ \A u \in DOMAIN ts : TileOK(ts[u]) /\ ts[u].kids \subseteq DOMAIN ts
  BY DEF Tree
<1>2. PICK group : /\ group = Group(kind, {moved}) /\ TileOK(group)
                   /\ group.kind # "pane" /\ group.kids = {moved}
  <2>1. {moved} \subseteq TileIds
    OBVIOUS
  <2>2. QED
    BY <2>1, GroupTile
<1>3. /\ DOMAIN ts2 = DOMAIN ts \cup {moved} /\ ts2[moved] = ts[at] /\ ts2[at] = group
      /\ \A u \in DOMAIN ts \ {at} : ts2[u] = ts[u]
  BY <1>1, <1>2 DEF WrappedAs, Plus
<1>4. \A u \in DOMAIN ts2 : TileOK(ts2[u]) /\ ts2[u].kids \subseteq DOMAIN ts2
  BY <1>1, <1>2, <1>3
<1>5. OneParent(ts2)
  <2>1. \A u \in DOMAIN ts2 : \A x \in ts2[u].kids :
          \/ u = at /\ x = moved
          \/ u = moved /\ x \in ts[at].kids /\ x # moved
          \/ u \in DOMAIN ts \ {at} /\ x \in ts[u].kids /\ x # moved
    BY <1>1, <1>2, <1>3
  <2>2. \A u, v \in DOMAIN ts : \A x : x \in ts[u].kids /\ x \in ts[v].kids => u = v
    BY <1>1 DEF OneParent
  <2>3. QED
    BY <2>1, <2>2 DEF OneParent
<1>6. \A u \in DOMAIN ts : ts[u].kind = "pane" <=> u \in Panes(ts)
  BY DEF Panes
<1>7. \A u : u \in Panes(ts2) <=>
               \/ u \in Panes(ts) /\ u # at
               \/ u = moved /\ at \in Panes(ts)
  <2> TAKE u
  <2>1. u \in Panes(ts2) <=> u \in DOMAIN ts2 /\ ts2[u].kind = "pane"
    BY DEF Panes
  <2>2. Panes(ts) \subseteq DOMAIN ts
    BY DEF Panes
  <2>3. CASE u = at
    BY <1>1, <1>2, <1>3, <2>1, <2>3
  <2>4. CASE u = moved
    BY <1>1, <1>3, <1>6, <2>1, <2>2, <2>4
  <2>5. CASE u \notin {at, moved}
    <3>1. CASE u \in DOMAIN ts
      <4>1. u \in DOMAIN ts2 /\ ts2[u] = ts[u]
        BY <1>3, <2>5, <3>1
      <4>2. u \in Panes(ts2) <=> ts[u].kind = "pane"
        BY <2>1, <4>1
      <4>3. u \in Panes(ts2) <=> u \in Panes(ts)
        BY <1>6, <3>1, <4>2
      <4>4. u # at /\ u # moved
        BY <2>5
      <4>5. QED
        BY <4>3, <4>4
    <3>2. CASE u \notin DOMAIN ts
      BY <1>3, <2>1, <2>2, <2>5, <3>2
    <3>3. QED
      BY <3>1, <3>2
  <2>6. QED
    BY <2>3, <2>4, <2>5
<1>8. Shown(ts2) = Shown(ts)
  <2>1. ASSUME NEW u \in Panes(ts2) PROVE \E v \in Panes(ts) : ts2[u].pane = ts[v].pane
    <3>1. CASE u = moved
      <4>1. moved \notin Panes(ts)
        BY DEF Panes
      <4>2. at \in Panes(ts)
        BY <1>7, <2>1, <3>1, <4>1
      <4>3. ts2[u] = ts[at]
        BY <1>3, <3>1
      <4>4. QED
        BY <4>2, <4>3
    <3>2. CASE u # moved
      <4>1. u \in Panes(ts) /\ u # at
        BY <1>7, <2>1, <3>2
      <4>2. ts2[u] = ts[u]
        BY <1>3, <4>1 DEF Panes
      <4>3. QED
        BY <4>1, <4>2
    <3>3. QED
      BY <3>1, <3>2
  <2>2. \A v \in Panes(ts) : \E u \in Panes(ts2) : ts2[u].pane = ts[v].pane
    BY <1>3, <1>6, <1>7 DEF Panes
  <2>3. QED
    BY <2>1, <2>2 DEF Shown
<1>9. Tree(ts2)
  <2>1. \A u, v \in Panes(ts) : ts[u].pane = ts[v].pane => u = v
    BY DEF Tree, Apart
  <2>2. ASSUME NEW u \in Panes(ts2), NEW v \in Panes(ts2), ts2[u].pane = ts2[v].pane PROVE u = v
    <3>1. Panes(ts) \subseteq DOMAIN ts
      BY DEF Panes
    <3>2. QED
      BY <1>3, <1>7, <2>1, <2>2, <3>1
  <2>3. Apart(ts2)
    BY <2>2 DEF Apart
  <2>4. DOMAIN ts2 \subseteq TileIds
    BY <1>1, <1>3
  <2>5. QED
    BY <1>4, <1>5, <2>3, <2>4 DEF Tree
<1>10. Rooted(ts2, r)
  <2>1. r # None /\ r \in DOMAIN ts /\ \A t \in DOMAIN ts : r \notin ts[t].kids
    BY DEF Rooted
  <2>2. r \in DOMAIN ts2 /\ \A t \in DOMAIN ts2 : r \notin ts2[t].kids
    BY <1>1, <1>2, <1>3, <2>1
  <2>3. ASSUME NEW S, r \in S, Closed(ts2, S) PROVE DOMAIN ts2 \subseteq S
    <3>1. at \in S => moved \in S
      BY <1>2, <1>3, <2>3 DEF Closed
    <3>2. ASSUME NEW u \in S \cap DOMAIN ts PROVE ts[u].kids \subseteq S
      <4>1. CASE u = at
        BY <1>3, <2>3, <3>1, <3>2, <4>1 DEF Closed
      <4>2. CASE u # at
        BY <1>3, <2>3, <3>2, <4>2 DEF Closed
      <4>3. QED
        BY <4>1, <4>2
    <3>3. Closed(ts, S)
      BY <3>2 DEF Closed
    <3>4. DOMAIN ts \subseteq S
      BY <2>1, <2>3, <3>3, AllReached
    <3>5. QED
      BY <1>3, <3>1, <3>4
  <2>4. QED
    BY <1>9, <2>2, <2>3, RootedIntro
<1>11. QED
  BY <1>8, <1>9, <1>10

\* A pane that shares its place with a new one.
LEMMA WrapWithLeaf ==
  ASSUME NEW ts, NEW r, NEW at, NEW moved, NEW leaf, NEW s, NEW kind, NEW ts2,
         Tree(ts), Rooted(ts, r), at \in Panes(ts),
         moved \in TileIds \ DOMAIN ts, leaf \in TileIds \ DOMAIN ts, moved # leaf,
         s \in Instances \ Shown(ts), kind \in {"tabs", "linear"},
         ts2 = Shared(ts, at, moved, leaf, s, kind)
  PROVE  Tree(ts2) /\ Rooted(ts2, r) /\ Shown(ts2) = Shown(ts) \cup {s}
<1>0. PICK ts1 : ts1 = WrappedAs(ts, at, moved, kind)
  OBVIOUS
<1>1. Tree(ts1) /\ Rooted(ts1, r) /\ Shown(ts1) = Shown(ts)
  BY <1>0, WrapTile DEF Panes
<1>2. at \in DOMAIN ts /\ at # moved /\ at # leaf
  BY DEF Panes
<1>3. /\ ts1 = [u \in DOMAIN ts \cup {moved} |->
                 IF u = at THEN Group(kind, {moved}) ELSE IF u = moved THEN ts[at] ELSE ts[u]]
      /\ DOMAIN ts1 = DOMAIN ts \cup {moved} /\ ts1[at] = Group(kind, {moved})
  BY <1>0, <1>2 DEF WrappedAs, Plus
<1>4. at \in DOMAIN ts1 /\ leaf \in TileIds \ DOMAIN ts1 /\ ts1[at].kind # "pane"
  BY <1>2, <1>3 DEF Group
<1>5. PICK ts3 : ts3 = WithLeaf(ts1, at, leaf, s)
  OBVIOUS
<1>6. Tree(ts3) /\ Rooted(ts3, r) /\ Shown(ts3) = Shown(ts1) \cup {s}
  BY <1>1, <1>4, <1>5, AddLeaf
<1>7. ts3 = ts2
  <2>1. [Group(kind, {moved}) EXCEPT !.kids = @ \cup {leaf}] = Group(kind, {moved, leaf})
    BY DEF Group
  <2>2. /\ ts3 = [u \in DOMAIN ts3 |-> ts3[u]] /\ DOMAIN ts3 = DOMAIN ts1 \cup {leaf}
        /\ ts3[at] = [ts1[at] EXCEPT !.kids = @ \cup {leaf}] /\ ts3[leaf] = Pane(s)
        /\ \A u \in DOMAIN ts1 \ {at} : ts3[u] = ts1[u]
    BY <1>4, <1>5 DEF WithLeaf, Plus
  <2>3. ts2 = [u \in DOMAIN ts2 |-> ts2[u]] /\ DOMAIN ts2 = DOMAIN ts3
    BY <1>3, <2>2 DEF Shared
  <2>4. ASSUME NEW u \in DOMAIN ts3 PROVE ts3[u] = ts2[u]
    BY <1>2, <1>3, <2>1, <2>2 DEF Shared
  <2>5. QED
    BY <2>2, <2>3, <2>4
<1>8. QED
  BY <1>1, <1>6, <1>7

\* A group that gives way to its children: one of them, or it is not the root.
LEMMA Dissolve ==
  ASSUME NEW ts, NEW r, NEW g, NEW r2, Tree(ts), Rooted(ts, r), g \in DOMAIN ts, ts[g].kind # "pane",
         IF r = g THEN ts[g].kids = {r2} ELSE r2 = r,
         NEW ts2, ts2 = Dissolved(ts, g)
  PROVE  Tree(ts2) /\ Rooted(ts2, r2) /\ Shown(ts2) = Shown(ts)
<1> DEFINE K == ts[g].kids
<1>1. DOMAIN ts \subseteq TileIds /\ OneParent(ts) /\ K \subseteq DOMAIN ts
      /\ \A u \in DOMAIN ts : ts[u] \in Tile /\ TileOK(ts[u]) /\ ts[u].kids \subseteq DOMAIN ts
  BY DEF Tree, TileOK
<1>2. r # None /\ r \in DOMAIN ts /\ \A u \in DOMAIN ts : r \notin ts[u].kids
  BY DEF Rooted
<1>3. g \notin K
  <2>1. SUFFICES ASSUME g \in K PROVE FALSE
    OBVIOUS
  <2>2. r \in DOMAIN ts \ {g} /\ Closed(ts, DOMAIN ts \ {g})
    BY <1>1, <1>2, <2>1 DEF Closed, OneParent
  <2>3. QED
    BY <1>2, <2>2, AllReached
<1>4. DOMAIN ts2 = DOMAIN ts \ {g}
      /\ \A u \in DOMAIN ts2 :
           ts2[u] = [ts[u] EXCEPT !.kids = IF g \in @ THEN (@ \ {g}) \cup K ELSE @]
  BY DEF Dissolved
<1>5. ASSUME NEW u \in DOMAIN ts2
      PROVE  /\ u \in DOMAIN ts /\ u # g /\ TileOK(ts2[u])
             /\ ts2[u].kind = ts[u].kind /\ ts2[u].pane = ts[u].pane
             /\ ts2[u].kids = IF g \in ts[u].kids THEN (ts[u].kids \ {g}) \cup K ELSE ts[u].kids
  <2>1. u \in DOMAIN ts /\ u # g
    BY <1>4
  <2>2. ts[u] \in Tile /\ TileOK(ts[u]) /\ K \subseteq TileIds
    BY <1>1, <2>1
  <2>3. ts2[u] = [ts[u] EXCEPT !.kids = IF g \in @ THEN (@ \ {g}) \cup K ELSE @]
    BY <1>4
  <2> HIDE DEF K
  <2>4. /\ ts2[u].kind = ts[u].kind /\ ts2[u].pane = ts[u].pane /\ ts2[u] \in Tile
        /\ ts2[u].kids = IF g \in ts[u].kids THEN (ts[u].kids \ {g}) \cup K ELSE ts[u].kids
    BY <2>2, <2>3 DEF Tile
  <2>5. TileOK(ts2[u])
    BY <2>2, <2>4 DEF TileOK
  <2>6. QED
    BY <2>1, <2>4, <2>5
<1>6. ASSUME NEW u \in DOMAIN ts2, NEW x
      PROVE  x \in ts2[u].kids <=> IF x \in K THEN g \in ts[u].kids ELSE x # g /\ x \in ts[u].kids
  <2>1. u \in DOMAIN ts /\ u # g
    BY <1>5
  <2>2. x \in K => x \notin ts[u].kids
    BY <1>1, <2>1 DEF OneParent
  <2>3. x \in ts2[u].kids <=> x \in IF g \in ts[u].kids THEN (ts[u].kids \ {g}) \cup K ELSE ts[u].kids
    BY <1>5
  <2> HIDE DEF K
  <2>4. QED
    BY <1>3, <2>2, <2>3
<1> HIDE DEF K
<1>7. \A u \in DOMAIN ts2 : ts2[u].kids \subseteq DOMAIN ts2
  BY <1>1, <1>3, <1>4, <1>5, <1>6
<1>8. OneParent(ts2)
  <2>1. ASSUME NEW u \in DOMAIN ts2, NEW v \in DOMAIN ts2, NEW x \in ts2[u].kids, x \in ts2[v].kids
        PROVE  u = v
    <3>1. u \in DOMAIN ts /\ v \in DOMAIN ts
      BY <1>5
    <3>2. PICK y : y \in ts[u].kids /\ y \in ts[v].kids
      BY <1>6, <2>1
    <3>3. QED
      BY <1>1, <3>1, <3>2 DEF OneParent
  <2>2. QED
    BY <2>1 DEF OneParent
<1>9. Panes(ts2) = Panes(ts) /\ \A u \in Panes(ts) : ts2[u].pane = ts[u].pane
  BY <1>1, <1>4, <1>5 DEF Panes
<1>10. Tree(ts2) /\ Shown(ts2) = Shown(ts)
  <2>1. Apart(ts2) /\ Shown(ts2) = Shown(ts)
    BY <1>9, SamePanes DEF Tree
  <2>2. DOMAIN ts2 \subseteq TileIds /\ \A u \in DOMAIN ts2 : TileOK(ts2[u]) /\ ts2[u].kids \subseteq DOMAIN ts2
    BY <1>1, <1>4, <1>5, <1>7
  <2>3. QED
    BY <1>8, <2>1, <2>2, Zenon DEF Tree
<1>11. CASE r = g
  <2>1. K = {r2} /\ \A u \in DOMAIN ts : g \notin ts[u].kids
    BY <1>2, <1>11 DEF K
  <2>2. r2 \in DOMAIN ts2 /\ \A u \in DOMAIN ts2 : r2 \notin ts2[u].kids
    BY <1>1, <1>3, <1>4, <1>5, <1>6, <2>1
  <2>3. ASSUME NEW S, r2 \in S, Closed(ts2, S) PROVE DOMAIN ts2 \subseteq S
    <3>1. ASSUME NEW u \in (S \cup {g}) \cap DOMAIN ts PROVE ts[u].kids \subseteq S
      <4>1. CASE u = g
        BY <2>1, <2>3, <4>1 DEF K
      <4>2. CASE u # g
        BY <1>4, <1>5, <2>1, <2>3, <3>1, <4>2 DEF Closed
      <4>3. QED
        BY <4>1, <4>2
    <3>2. Closed(ts, S \cup {g})
      BY <3>1 DEF Closed
    <3>3. DOMAIN ts \subseteq S \cup {g}
      BY <1>2, <1>11, <3>2, AllReached
    <3>4. QED
      BY <1>4, <3>3
  <2>4. QED
    BY <1>10, <2>2, <2>3, RootedIntro
<1>12. CASE r # g
  <2>1. r2 = r
    BY <1>12
  <2>2. r \in DOMAIN ts2 /\ \A u \in DOMAIN ts2 : r \notin ts2[u].kids
    <3>1. r \notin K
      BY <1>2 DEF K
    <3>2. QED
      BY <1>2, <1>4, <1>5, <1>6, <1>12, <3>1
  <2>3. ASSUME NEW S, r \in S, Closed(ts2, S) PROVE DOMAIN ts2 \subseteq S
    <3> DEFINE S0 == (S \ {g}) \cup (IF K \subseteq S THEN {g} ELSE {})
    <3>1. r \in S0
      BY <1>12, <2>3
    <3>2. ASSUME NEW u \in S0 \cap DOMAIN ts, NEW x \in ts[u].kids PROVE x \in S0
      <4>1. CASE u = g
        BY <1>3, <3>2, <4>1 DEF K
      <4>2. CASE u # g
        <5>1. u \in S \cap DOMAIN ts2 /\ ts2[u].kids \subseteq S
          BY <1>4, <2>3, <3>2, <4>2 DEF Closed
        <5>2. CASE x = g
          <6>1. K \subseteq S
            BY <1>6, <3>2, <5>1, <5>2
          <6>2. QED
            BY <5>2, <6>1
        <5>3. CASE x # g
          <6>1. x \notin K
            BY <1>1, <3>2, <4>2 DEF OneParent, K
          <6>2. QED
            BY <1>6, <3>2, <5>1, <5>3, <6>1
        <5>4. QED
          BY <5>2, <5>3
      <4>3. QED
        BY <4>1, <4>2
    <3>3. Closed(ts, S0)
      BY <3>2 DEF Closed
    <3>4. DOMAIN ts \subseteq S0
      BY <1>2, <3>1, <3>3, AllReached
    <3>5. QED
      BY <1>4, <3>4
  <2>4. QED
    BY <1>10, <2>1, <2>2, <2>3, RootedIntro
<1>13. QED
  BY <1>10, <1>11, <1>12

\* A tile that moves into a group that is not below it.
LEMMA MoveTile ==
  ASSUME NEW ts, NEW r, NEW g, NEW t, Tree(ts), Rooted(ts, r), t \in DOMAIN ts,
         g \in DOMAIN ts \ Within(ts, t), ts[g].kind # "pane", t # r, NEW ts2, ts2 = Moved(ts, t, g)
  PROVE  Tree(ts2) /\ Rooted(ts2, r) /\ Shown(ts2) = Shown(ts)
<1>1. DOMAIN ts \subseteq TileIds /\ OneParent(ts)
      /\ \A u \in DOMAIN ts : ts[u] \in Tile /\ TileOK(ts[u]) /\ ts[u].kids \subseteq DOMAIN ts
  BY DEF Tree, TileOK
<1>2. r # None /\ r \in DOMAIN ts /\ \A u \in DOMAIN ts : r \notin ts[u].kids
  BY DEF Rooted
<1>3. DOMAIN ts2 = DOMAIN ts
      /\ \A u \in DOMAIN ts2 : ts2[u] = [ts[u] EXCEPT !.kids = IF u = g THEN @ \cup {t} ELSE @ \ {t}]
  BY DEF Moved
<1>4. ASSUME NEW u \in DOMAIN ts2
      PROVE  /\ TileOK(ts2[u]) /\ ts2[u].kind = ts[u].kind /\ ts2[u].pane = ts[u].pane
             /\ \A x : x \in ts2[u].kids <=> IF x = t THEN u = g ELSE x \in ts[u].kids
  <2>1. ts[u] \in Tile /\ TileOK(ts[u]) /\ t \in TileIds
    BY <1>1, <1>3
  <2>2. ts2[u] = [ts[u] EXCEPT !.kids = IF u = g THEN @ \cup {t} ELSE @ \ {t}]
    BY <1>3
  <2>3. /\ ts2[u].kind = ts[u].kind /\ ts2[u].pane = ts[u].pane /\ ts2[u] \in Tile
        /\ ts2[u].kids = IF u = g THEN ts[u].kids \cup {t} ELSE ts[u].kids \ {t}
    BY <2>1, <2>2 DEF Tile
  <2>4. TileOK(ts2[u])
    BY <2>1, <2>3 DEF TileOK
  <2>5. \A x : x \in ts2[u].kids <=> IF x = t THEN u = g ELSE x \in ts[u].kids
    BY <2>3
  <2>6. QED
    BY <2>3, <2>4, <2>5
<1>5. ASSUME NEW u \in DOMAIN ts2 PROVE ts2[u].kids \subseteq DOMAIN ts2
  <2>1. ts[u].kids \subseteq DOMAIN ts
    BY <1>1, <1>3
  <2>2. QED
    BY <1>1, <1>3, <1>4, <2>1
<1>6. OneParent(ts2)
  BY <1>1, <1>3, <1>4 DEF OneParent
<1>7. Panes(ts2) = Panes(ts) /\ \A u \in Panes(ts) : ts2[u].pane = ts[u].pane
  BY <1>3, <1>4 DEF Panes
<1>8. Tree(ts2) /\ Shown(ts2) = Shown(ts)
  <2>1. Apart(ts2) /\ Shown(ts2) = Shown(ts)
    BY <1>7, SamePanes DEF Tree
  <2>2. DOMAIN ts2 \subseteq TileIds /\ \A u \in DOMAIN ts2 : TileOK(ts2[u]) /\ ts2[u].kids \subseteq DOMAIN ts2
    BY <1>1, <1>3, <1>4, <1>5
  <2>3. QED
    BY <1>6, <2>1, <2>2, Zenon DEF Tree
<1>9. r \in DOMAIN ts2 /\ \A u \in DOMAIN ts2 : r \notin ts2[u].kids
  <2>1. r \in DOMAIN ts2
    BY <1>2, <1>3
  <2>2. ASSUME NEW u \in DOMAIN ts2 PROVE r \notin ts2[u].kids
    <3>1. r \notin ts[u].kids
      BY <1>2, <1>3
    <3>2. QED
      BY <1>4, <2>2, <3>1
  <2>3. QED
    BY <2>1, <2>2
<1>10. ASSUME NEW S, r \in S, Closed(ts2, S) PROVE DOMAIN ts2 \subseteq S
  <2>1. PICK W : W = Within(ts, t)
    OBVIOUS
  <2>2. t \in W /\ Closed(ts, W)
    BY <1>1, <2>1, TreeKids, WithinClosed
  <2>3. ASSUME NEW u \in S \cap DOMAIN ts, NEW x \in ts[u].kids, x # t PROVE x \in S
    BY <1>3, <1>4, <1>10, <2>3 DEF Closed
  <2>4. Closed(ts, S \cup W)
    BY <2>2, <2>3 DEF Closed
  <2>5. DOMAIN ts \subseteq S \cup W
    BY <1>2, <1>10, <2>4, AllReached
  <2>6. g \in S /\ g \in DOMAIN ts2
    BY <1>3, <2>1, <2>5
  <2>7. t \in S
    BY <1>4, <1>10, <2>6 DEF Closed
  <2>8. Closed(ts, S)
    BY <2>3, <2>7 DEF Closed
  <2>9. QED
    BY <1>2, <1>3, <1>10, <2>8, AllReached
<1>11. Rooted(ts2, r)
  BY <1>8, <1>9, <1>10, RootedIntro
<1>12. QED
  BY <1>8, <1>11

--------------------------------------------------------------------------------
(* The inductive invariant.                                                  *)

TreeOK  == Tree(tiles) /\ Rooted(tiles, root)
\* What is open is what can be reopened.
LiveOK  == /\ DOMAIN live \subseteq Instances /\ sources = DOMAIN live
           /\ \A s \in DOMAIN live : live[s] \in LivePane
FocusOK == /\ step \in {"pump", "input", "draw", "dialogs"}
           /\ focused \in TileIds \cup {None} /\ multi_exec \subseteq TileIds
           /\ confirm_close \in TileIds \cup {None} /\ astray \in BOOLEAN
Inv     == TreeOK /\ LiveOK /\ FocusOK

LEMMA ShownInstances ==
  ASSUME NEW ts, Tree(ts)
  PROVE  Shown(ts) \subseteq Instances
BY DEF Tree, TileOK, Shown, Panes

\* Tile ids that are not in use.
LEMMA FreshUnused ==
  ASSUME NEW ts, Unused(ts) # {}
  PROVE  Fresh(ts) \in Unused(ts) /\ Unused(ts) \subseteq TileIds \ DOMAIN ts
<1>1. Unused(ts) \subseteq TileIds \ DOMAIN ts
  BY DEF Unused
<1>2. Unused(ts) \subseteq Nat
  BY <1>1, TilesFinite
<1>3. \E t \in Unused(ts) : \A u \in Unused(ts) : t <= u
  BY <1>2, LeastOf
<1>4. QED
  BY <1>1, <1>3, Zenon DEF Fresh

LEMMA FreshAgain ==
  ASSUME NEW ts, Cardinality(Unused(ts)) >= 2, NEW leaf, leaf = Fresh(ts), NEW tile
  PROVE  /\ leaf \in TileIds \ DOMAIN ts
         /\ Fresh(Plus(ts, leaf, tile)) \in TileIds \ DOMAIN ts
         /\ Fresh(Plus(ts, leaf, tile)) # leaf
<1>1. Unused(ts) # {}
  <2>1. Cardinality({}) = 0
    BY FS_EmptySet
  <2>2. QED
    BY <2>1
<1>2. leaf \in Unused(ts) /\ Unused(ts) \subseteq TileIds \ DOMAIN ts
  BY <1>1, FreshUnused
<1>3. Unused(Plus(ts, leaf, tile)) = Unused(ts) \ {leaf}
  BY <1>2 DEF Unused, Plus
<1>4. Unused(ts) # {leaf}
  <2>1. Cardinality({leaf}) = 1
    BY FS_Singleton
  <2>2. QED
    BY <2>1
<1>5. Unused(Plus(ts, leaf, tile)) # {}
  BY <1>2, <1>3, <1>4
<1>6. Fresh(Plus(ts, leaf, tile)) \in Unused(Plus(ts, leaf, tile))
  BY <1>5, FreshUnused
<1>7. QED
  BY <1>2, <1>3, <1>6

\* Tiles go, with all below them.
LEMMA TreeGone ==
  ASSUME TreeOK, NEW gone, gone \subseteq TileIds, tiles' = Minus(tiles, gone),
         root' = IF root \in gone THEN None ELSE root
  PROVE  TreeOK'
BY MinusTree DEF TreeOK

LEMMA CloseTilesOK ==
  ASSUME TreeOK, LiveOK, NEW gone, gone \subseteq TileIds, CloseTiles(gone)
  PROVE  TreeOK' /\ LiveOK'
<1> DEFINE closed == UNION {Sessions(tiles, t) : t \in gone}
<1>1. /\ tiles' = Minus(tiles, gone) /\ root' = IF root \in gone THEN None ELSE root
      /\ live' = Restrict(live, DOMAIN live \ closed) /\ sources' = sources \ closed
  BY DEF CloseTiles
<1>2. Tree(tiles') /\ Rooted(tiles', root')
  BY <1>1, MinusTree DEF TreeOK
<1>3. DOMAIN live' = DOMAIN live \ closed /\ \A s \in DOMAIN live' : live'[s] = live[s]
  BY <1>1 DEF Restrict
<1> HIDE DEF closed
<1>4. QED
  BY <1>1, <1>2, <1>3 DEF TreeOK, LiveOK

\* A session that opens.
LEMMA OpenSourceOK ==
  ASSUME LiveOK, NEW s \in Instances, OpenSource(s)
  PROVE  LiveOK'
<1>1. /\ DOMAIN live' = DOMAIN live \cup {s} /\ sources' = sources \cup {s}
      /\ \A x \in DOMAIN live' :
           live'[x] = IF x = s THEN [state |-> "running", forwards |-> FALSE] ELSE live[x]
  BY DEF OpenSource
<1>2. [state |-> "running", forwards |-> FALSE] \in LivePane
  BY DEF LivePane
<1>3. QED
  BY <1>1, <1>2 DEF LiveOK

LEMMA ValidFocusOK ==
  ASSUME TreeOK', NEW f, ValidFocus(f)
  PROVE  focused' \in TileIds \cup {None}
BY DEF TreeOK, Tree, ValidFocus, Panes

\* Tiles that go and have nothing below them.
LEMMA LeavesGone ==
  ASSUME TreeOK, NEW gone, gone \subseteq TileIds, \A t \in gone : t \in DOMAIN tiles => tiles[t].kids = {},
         tiles' = Minus(tiles, gone), root' = IF root \in gone THEN None ELSE root
  PROVE  /\ TreeOK' /\ Panes(tiles') = Panes(tiles) \ gone
         /\ \A t \in Panes(tiles') : tiles'[t].pane = tiles[t].pane
<1>1. /\ Tree(tiles') /\ Rooted(tiles', root')
      /\ Panes(tiles') = Panes(tiles) \ UNION {Within(tiles, t) : t \in gone}
      /\ \A t \in Panes(tiles') : tiles'[t].pane = tiles[t].pane
  BY MinusTree DEF TreeOK
<1>2. \A t \in gone : Within(tiles, t) = {t}
  BY TreeKids, WithinLeaf DEF TreeOK
<1>3. UNION {Within(tiles, t) : t \in gone} = gone
  BY <1>2
<1>4. QED
  BY <1>1, <1>3 DEF TreeOK

LEMMA AddTabBesideOK ==
  ASSUME TreeOK, NEW s \in Instances, FreshInstance(s), Cardinality(Unused(tiles)) >= 2,
         NEW at, at \in Panes(tiles) \cup {None}, AddTabBeside(at, Fresh(tiles), s)
  PROVE  TreeOK' /\ Shown(tiles') = Shown(tiles) \cup {s}
<1> DEFINE leaf == Fresh(tiles)
           ts   == Plus(tiles, leaf, Pane(s))
           g    == Fresh(ts)
<1>1. /\ Tree(tiles) /\ Rooted(tiles, root) /\ s \in Instances \ Shown(tiles)
      /\ leaf \in TileIds \ DOMAIN tiles /\ g \in TileIds \ DOMAIN tiles /\ g # leaf
  BY FreshAgain DEF TreeOK, FreshInstance, Shown
<1>2. CASE at = None
  <2>1. CASE root = None
    <3>1. tiles' = Plus(<<>>, leaf, Pane(s)) /\ root' = leaf /\ tiles = <<>>
      BY <1>1, <1>2, <2>1 DEF AddTabBeside, Rooted
    <3>2. Shown(tiles) = {}
      BY <3>1 DEF Shown, Panes
    <3> HIDE DEF leaf
    <3>3. QED
      BY <1>1, <3>1, <3>2, FirstPane DEF TreeOK
  <2>2. CASE root # None /\ tiles[root].kind = "tabs"
    <3>1. tiles' = WithLeaf(tiles, root, leaf, s) /\ root' = root /\ root \in DOMAIN tiles
      BY <1>1, <1>2, <2>2 DEF AddTabBeside, WithLeaf, Rooted
    <3> HIDE DEF leaf, ts, g
    <3>2. QED
      BY <1>1, <2>2, <3>1, AddLeaf DEF TreeOK
  <2>3. CASE root # None /\ tiles[root].kind # "tabs"
    <3>1. tiles' = UnderGroup(tiles, root, g, leaf, s) /\ root' = g
      BY <1>2, <2>3 DEF AddTabBeside, UnderGroup
    <3> HIDE DEF leaf, ts, g
    <3>2. QED
      BY <1>1, <2>3, <3>1, NewRoot DEF TreeOK
  <2>4. QED
    BY <2>1, <2>2, <2>3
<1>3. CASE at # None
  <2>1. at \in Panes(tiles) /\ root' = root
    BY <1>3 DEF AddTabBeside
  <2>2. ASSUME NEW p \in Parents(tiles, at), tiles[p].kind = "tabs",
               tiles' = [ts EXCEPT ![p].kids = @ \cup {leaf}]
        PROVE  TreeOK' /\ Shown(tiles') = Shown(tiles) \cup {s}
    <3>1. tiles' = WithLeaf(tiles, p, leaf, s) /\ p \in DOMAIN tiles /\ tiles[p].kind # "pane"
      BY <2>2 DEF WithLeaf, Parents
    <3> HIDE DEF leaf, ts, g
    <3>2. QED
      BY <1>1, <2>1, <3>1, AddLeaf DEF TreeOK
  <2>3. ASSUME tiles' = Plus(Plus(ts, g, tiles[at]), at, Group("tabs", {g, leaf}))
        PROVE  TreeOK' /\ Shown(tiles') = Shown(tiles) \cup {s}
    <3>1. at \in DOMAIN tiles
      BY <2>1 DEF Panes
    <3> HIDE DEF leaf, g
    <3>2. tiles' = Shared(tiles, at, g, leaf, s, "tabs")
      BY <1>1, <2>3, <3>1 DEF Shared, Plus
    <3> HIDE DEF ts
    <3>3. QED
      BY <1>1, <2>1, <3>2, WrapWithLeaf DEF TreeOK
  <2>4. QED
    BY <1>3, <2>2, <2>3 DEF AddTabBeside
<1>4. QED
  BY <1>2, <1>3

LEMMA SplitOK ==
  ASSUME TreeOK, NEW s \in Instances, FreshInstance(s), Cardinality(Unused(tiles)) >= 2,
         NEW t, t \in Panes(tiles), NEW moved, moved = Fresh(tiles),
         SplitTile(t, moved, Fresh(Plus(tiles, moved, Pane(s))), s)
  PROVE  TreeOK' /\ Shown(tiles') = Shown(tiles) \cup {s}
<1>1. PICK leaf : leaf = Fresh(Plus(tiles, moved, Pane(s)))
  OBVIOUS
<1>2. /\ Tree(tiles) /\ Rooted(tiles, root) /\ s \in Instances \ Shown(tiles)
      /\ moved \in TileIds \ DOMAIN tiles /\ leaf \in TileIds \ DOMAIN tiles /\ moved # leaf
  BY <1>1, FreshAgain DEF TreeOK, FreshInstance, Shown
<1>3. t \in DOMAIN tiles
  BY DEF Panes
<1>4. tiles' = Shared(tiles, t, moved, leaf, s, "linear") /\ root' = root
  BY <1>1, <1>2, <1>3 DEF SplitTile, Shared, Plus
<1>5. QED
  BY <1>2, <1>4, WrapWithLeaf DEF TreeOK

LEMMA TidyOK ==
  ASSUME TreeOK, NEW t \in TileIds, Tidy(t)
  PROVE  TreeOK'
<1>1. Tree(tiles) /\ Rooted(tiles, root) /\ DOMAIN tiles \subseteq TileIds /\ t \in DOMAIN tiles
      /\ KidsOK(tiles) /\ \A p \in Parents(tiles, t) : p \in DOMAIN tiles /\ t \in tiles[p].kids
  BY TreeKids DEF TreeOK, Tree, Tidy, Parents
<1>2. CASE Empty(t) /\ tiles' = Minus(tiles, {t}) /\ root' = IF root = t THEN None ELSE root
  <2>1. {t} \subseteq TileIds /\ root' = IF root \in {t} THEN None ELSE root
    BY <1>2
  <2>2. QED
    BY <1>1, <1>2, <2>1, MinusTree DEF TreeOK
<1>3. ASSUME NEW kid, Alone(t), tiles[t].kids = {kid}, tiles' = Dissolved(tiles, t),
             root' = IF root = t THEN kid ELSE root
      PROVE  TreeOK'
  <2>1. tiles[t].kind # "pane" /\ IF root = t THEN tiles[t].kids = {root'} ELSE root' = root
    BY <1>3 DEF Alone
  <2>2. QED
    BY <1>1, <1>3, <2>1, Dissolve DEF TreeOK
<1>4. ASSUME NEW p \in Parents(tiles, t), tiles[t].kind = "linear",
             tiles' = Dissolved(tiles, t), root' = root
      PROVE  TreeOK'
  <2>1. root # t /\ tiles[t].kind # "pane"
    BY <1>1, <1>4 DEF Rooted
  <2>2. QED
    BY <1>1, <1>4, <2>1, Dissolve DEF TreeOK
<1>5. CASE Bare(t) /\ tiles' = Wrapped(tiles, t, "tabs") /\ root' = root
  <2>1. Fresh(tiles) \in TileIds \ DOMAIN tiles
    BY <1>5, FreshUnused DEF Bare
  <2>2. tiles' = WrappedAs(tiles, t, Fresh(tiles), "tabs")
    BY <1>5 DEF Wrapped, WrappedAs
  <2>3. QED
    BY <1>1, <1>5, <2>1, <2>2, WrapTile DEF TreeOK
<1>6. QED
  BY <1>2, <1>3, <1>4, <1>5 DEF Tidy

\* A tab that is dropped somewhere.
LEMMA DragOK ==
  ASSUME TreeOK, NEW t, NEW at, Drag(t, at)
  PROVE  TreeOK'
<1>1. /\ Tree(tiles) /\ Rooted(tiles, root) /\ KidsOK(tiles) /\ DOMAIN tiles \subseteq TileIds
      /\ t \in DOMAIN tiles /\ t # root /\ at \in DOMAIN tiles \ Within(tiles, t) /\ root' = root
  BY TreeKids DEF TreeOK, Tree, Drag
<1>2. CASE tiles[at].kind # "pane" /\ tiles' = Moved(tiles, t, at)
  BY <1>1, <1>2, MoveTile DEF TreeOK
<1>3. ASSUME Unused(tiles) # {}, NEW kind \in {"tabs", "linear"}, tiles' = Moved(Wrapped(tiles, at, kind), t, at)
      PROVE  TreeOK'
  <2>1. PICK moved : moved = Fresh(tiles) /\ moved \in TileIds \ DOMAIN tiles
    BY <1>3, FreshUnused
  <2>2. PICK ts : ts = WrappedAs(tiles, at, moved, kind) /\ tiles' = Moved(ts, t, at)
    BY <1>3, <2>1 DEF Wrapped, WrappedAs
  <2>3. Tree(ts) /\ Rooted(ts, root)
    BY <1>1, <2>1, <2>2, WrapTile
  <2>4. /\ DOMAIN ts = DOMAIN tiles \cup {moved} /\ ts[at] = Group(kind, {moved})
        /\ \A u \in DOMAIN tiles \ {at} : ts[u] = tiles[u]
    BY <1>1, <2>1, <2>2 DEF WrappedAs, Plus
  <2>5. PICK W : W = Within(tiles, t)
    OBVIOUS
  <2>6. t \in W /\ at \notin W /\ Closed(tiles, W)
    BY <1>1, <2>5, WithinClosed
  <2>7. W \subseteq DOMAIN tiles
    <3>1. Closed(tiles, DOMAIN tiles)
      BY <1>1 DEF Tree, Closed
    <3>2. QED
      BY <1>1, <2>5, <3>1, WithinLeast
  <2>8. Closed(ts, W)
    BY <2>4, <2>6, <2>7 DEF Closed
  <2>9. at \notin Within(ts, t)
    BY <2>6, <2>8, WithinLeast
  <2>10. ts[at].kind # "pane" /\ at \in DOMAIN ts /\ t \in DOMAIN ts
    BY <1>1, <1>3, <2>4 DEF Group
  <2>11. QED
    BY <1>1, <2>2, <2>3, <2>9, <2>10, MoveTile DEF TreeOK
<1>4. QED
  BY <1>2, <1>3 DEF Drag

LEMMA InitInv == Init => Inv
<1> SUFFICES ASSUME Init PROVE Inv
  OBVIOUS
<1>1. tiles = <<>> /\ root = None /\ live = <<>> /\ DOMAIN tiles = {} /\ DOMAIN live = {}
  BY DEF Init
<1>2. Tree(tiles) /\ Rooted(tiles, root)
  BY <1>1 DEF Tree, OneParent, Apart, Panes, Rooted
<1>3. QED
  BY <1>1, <1>2 DEF Init, Inv, TreeOK, LiveOK, FocusOK

\* A start with the window of the last save.
LEMMA RelaunchInv ==
  ASSUME Inv, Relaunch
  PROVE  Inv'
<1>1. PICK opened \in SUBSET Restored :
        LET gone == {t \in Panes(tiles) : Session(t) \notin opened} IN
        /\ tiles' = Minus(tiles, gone) /\ root' = IF root \in gone THEN None ELSE root
        /\ live' = [s \in opened |-> [state |-> "running", forwards |-> FALSE]] /\ sources' = opened
  BY DEF Relaunch
<1> DEFINE gone == {t \in Panes(tiles) : Session(t) \notin opened}
<1>2. /\ gone \subseteq Panes(tiles) /\ \A t \in Panes(tiles) : t \notin gone => Session(t) \in opened
      /\ \A t \in gone : Session(t) \notin opened
  OBVIOUS
<1>3. tiles' = Minus(tiles, gone) /\ root' = IF root \in gone THEN None ELSE root
  BY <1>1
<1> HIDE DEF gone
<1>4. gone \subseteq TileIds /\ \A t \in gone : t \in DOMAIN tiles => tiles[t].kids = {}
  BY <1>2 DEF Inv, TreeOK, Tree, TileOK, Panes
<1>5. /\ TreeOK' /\ Panes(tiles') = Panes(tiles) \ gone
      /\ \A t \in Panes(tiles') : tiles'[t].pane = tiles[t].pane
  BY <1>3, <1>4, LeavesGone DEF Inv
<1>6. LiveOK'
  <2>1. DOMAIN live' = opened /\ sources' = opened /\ \A s \in opened : live'[s] \in LivePane
    BY <1>1 DEF LivePane
  <2>2. opened \subseteq Instances
    <3>1. opened \subseteq Shown(tiles)
      BY DEF Restored, Session, Shown
    <3>2. QED
      BY <3>1, ShownInstances DEF Inv, TreeOK
  <2>3. QED
    BY <2>1, <2>2 DEF LiveOK
<1>7. FocusOK'
  BY <1>5, ValidFocusOK DEF Relaunch, Inv, FocusOK
<1>8. QED
  BY <1>5, <1>6, <1>7 DEF Inv

\* The top of a frame.
LEMMA PumpInv ==
  ASSUME Inv
  PROVE  (\E s \in DOMAIN live : Pumped(s)) \/ PumpDone => Inv'
<1>1. ASSUME NEW s \in DOMAIN live, Pumped(s) PROVE Inv'
  <2>1. TreeOK' /\ FocusOK'
    BY <1>1 DEF Pumped, Inv, TreeOK, FocusOK
  <2>2. live[s] \in LivePane /\ DOMAIN live \subseteq Instances /\ sources = DOMAIN live
        /\ \A x \in DOMAIN live : live[x] \in LivePane
    BY DEF Inv, LiveOK
  <2>3. ASSUME NEW how \in {"over", "closing"}, live' = [live EXCEPT ![s].state = how] PROVE LiveOK'
    <3>1. [live[s] EXCEPT !.state = how] \in LivePane
      BY <2>2 DEF LivePane
    <3>2. QED
      BY <1>1, <2>2, <2>3, <3>1 DEF Pumped, LiveOK
  <2>4. ASSUME live' = [live EXCEPT ![s].forwards = ~@] PROVE LiveOK'
    <3>1. [live[s] EXCEPT !.forwards = ~@] \in LivePane
      BY <2>2 DEF LivePane
    <3>2. DOMAIN live' = DOMAIN live /\ live'[s] = [live[s] EXCEPT !.forwards = ~@]
          /\ \A x \in DOMAIN live \ {s} : live'[x] = live[x]
      BY <2>4
    <3>3. QED
      BY <1>1, <2>2, <3>1, <3>2 DEF Pumped, LiveOK
  <2>5. QED
    BY <1>1, <2>1, <2>3, <2>4 DEF Pumped, Inv
<1>2. ASSUME PumpDone PROVE Inv'
  <2>1. PICK gone : gone = {t \in Panes(tiles) : Ended(t)} /\ CloseTiles(gone)
    BY <1>2 DEF PumpDone
  <2>2. gone \subseteq TileIds
    BY <2>1 DEF Inv, TreeOK, Tree, Panes
  <2>3. TreeOK' /\ LiveOK'
    BY <2>1, <2>2, CloseTilesOK DEF Inv
  <2>4. FocusOK'
    BY <1>2, <2>3, ValidFocusOK DEF PumpDone, Inv, FocusOK
  <2>5. QED
    BY <2>3, <2>4 DEF Inv
<1>3. QED
  BY <1>1, <1>2

\* The keyboard and the session panel.
LEMMA InputInv ==
  ASSUME Inv
  PROVE  \/ Idle \/ RestartPane \/ CloseEnded
         \/ \E f \in TileIds, moved \in {"before", "after"} : Typed(f, moved)
         \/ \E s \in Instances : OpenInActiveTile(s)
         => Inv'
<1>1. TreeOK /\ LiveOK /\ FocusOK /\ Tree(tiles)
  BY DEF Inv, TreeOK
<1>2. ASSUME Idle PROVE Inv'
  BY <1>1, <1>2 DEF Idle, Inv, TreeOK, LiveOK, FocusOK
<1>3. ASSUME RestartPane PROVE Inv'
  <2>1. TreeOK' /\ FocusOK'
    BY <1>1, <1>3 DEF RestartPane, Routed, TreeOK, FocusOK
  <2>2. LiveOK'
    <3>1. Session(focused) \in Instances /\ OpenSource(Session(focused))
      BY <1>1, <1>3 DEF RestartPane, LiveOK
    <3>2. QED
      BY <1>1, <3>1, OpenSourceOK
  <2>3. QED
    BY <2>1, <2>2 DEF Inv
<1>4. ASSUME CloseEnded PROVE Inv'
  <2>1. CloseTiles({focused}) /\ {focused} \subseteq TileIds
    BY <1>1, <1>4 DEF CloseEnded, Routed, FocusOK
  <2>2. TreeOK' /\ LiveOK'
    BY <1>1, <2>1, CloseTilesOK
  <2>3. FocusOK'
    BY <1>1, <1>4 DEF CloseEnded, Routed, FocusOK
  <2>4. QED
    BY <2>2, <2>3 DEF Inv
<1>5. ASSUME NEW f \in TileIds, NEW moved, Typed(f, moved) PROVE Inv'
  <2>1. astray' \in BOOLEAN
    BY <1>5 DEF Typed
  <2>2. TreeOK' /\ LiveOK' /\ FocusOK'
    BY <1>1, <1>5, <2>1 DEF Typed, Routed, TreeOK, LiveOK, FocusOK
  <2>3. QED
    BY <2>2 DEF Inv
<1>6. ASSUME NEW s \in Instances, OpenInActiveTile(s) PROVE Inv'
  <2>1. PICK at : at = IF focused \in Panes(tiles) THEN focused ELSE None
    OBVIOUS
  <2>2. at \in Panes(tiles) \cup {None} /\ (at = focused \/ at = None)
    BY <2>1
  <2>3. CASE at # None /\ Session(at) \notin DOMAIN live
    <3>1. s = Session(at) /\ OpenSource(s) /\ UNCHANGED <<tree, focused>> /\ at \in Panes(tiles)
      BY <1>6, <2>1, <2>3 DEF OpenInActiveTile
    <3>2. LiveOK'
      BY <1>1, <3>1, OpenSourceOK
    <3>3. TreeOK' /\ FocusOK'
      BY <1>1, <1>6, <3>1 DEF OpenInActiveTile, TreeOK, FocusOK
    <3>4. QED
      BY <3>2, <3>3 DEF Inv
  <2>4. CASE ~(at # None /\ Session(at) \notin DOMAIN live)
    <3>1. /\ FreshInstance(s) /\ Cardinality(Unused(tiles)) >= 2 /\ OpenSource(s)
          /\ AddTabBeside(at, Fresh(tiles), s) /\ focused' = Fresh(tiles)
      BY <1>6, <2>1, <2>4 DEF OpenInActiveTile
    <3>2. TreeOK'
      BY <1>1, <2>1, <3>1, AddTabBesideOK
    <3>3. LiveOK'
      BY <1>1, <3>1, OpenSourceOK
    <3>4. Fresh(tiles) \in TileIds
      BY <3>1, FreshAgain
    <3>5. FocusOK'
      BY <1>1, <1>6, <3>1, <3>4 DEF OpenInActiveTile, FocusOK
    <3>6. QED
      BY <3>2, <3>3, <3>5 DEF Inv
  <2>5. QED
    BY <2>3, <2>4
<1>7. QED
  BY <1>2, <1>3, <1>4, <1>5, <1>6

LEMMA DrawnOK ==
  ASSUME FocusOK, TreeOK', NEW enabled, NEW f, Drawn(enabled, f), confirm_close' \in TileIds \cup {None}
  PROVE  FocusOK'
<1>1. DOMAIN tiles' \subseteq TileIds
  BY DEF TreeOK, Tree
<1>2. focused' \in TileIds \cup {None}
  BY ValidFocusOK DEF Drawn
<1>3. QED
  BY <1>1, <1>2 DEF Drawn, FocusOK

\* Drawing, and the menu of a pane.
LEMMA DrawInv ==
  ASSUME Inv
  PROVE  \/ \E f \in Panes(tiles) \cup {focused} : Draw(f)
         \/ \E t \in TileIds : Tidy(t) \/ PaneMenu(t) \/ CloseGroup(t) \/ \E at \in TileIds : Drag(t, at)
         => Inv'
<1>1. TreeOK /\ LiveOK /\ FocusOK /\ Tree(tiles) /\ confirm_close \in TileIds \cup {None}
  BY DEF Inv, TreeOK, FocusOK
<1>2. ASSUME NEW t \in TileIds, Tidy(t) PROVE Inv'
  <2>1. TreeOK'
    BY <1>1, <1>2, TidyOK
  <2>2. LiveOK' /\ FocusOK'
    BY <1>1, <1>2, <2>1 DEF Tidy, LiveOK, FocusOK
  <2>3. QED
    BY <2>1, <2>2 DEF Inv
<1>3. ASSUME live' = live, Kept PROVE LiveOK'
  BY <1>1, <1>3 DEF Kept, LiveOK
<1>4. ASSUME NEW f, Draw(f) PROVE Inv'
  <2>1. TreeOK' /\ LiveOK' /\ Drawn(multi_exec, f) /\ confirm_close' = confirm_close
    BY <1>1, <1>3, <1>4 DEF Draw, TreeOK
  <2>2. QED
    BY <1>1, <2>1, DrawnOK DEF Inv
<1>5. ASSUME NEW t \in TileIds, OpenHere(t) PROVE Inv'
  <2>1. /\ t \in Panes(tiles) /\ OpenSource(Session(t)) /\ tiles' = tiles /\ root' = root
        /\ confirm_close' = confirm_close /\ Drawn(multi_exec, t)
    BY <1>5 DEF OpenHere
  <2>2. TreeOK' /\ Session(t) \in Instances
    BY <1>1, <2>1 DEF TreeOK, Session, Tree, TileOK, Panes
  <2>3. LiveOK'
    BY <1>1, <2>1, <2>2, OpenSourceOK
  <2>4. QED
    BY <1>1, <2>1, <2>2, <2>3, DrawnOK DEF Inv
<1>6. ASSUME NEW t \in TileIds, Broadcast(t) PROVE Inv'
  <2>1. TreeOK' /\ LiveOK' /\ confirm_close' = confirm_close
    BY <1>1, <1>3, <1>6 DEF Broadcast, TreeOK
  <2>2. PICK enabled : Drawn(enabled, focused)
    BY <1>6 DEF Broadcast
  <2>3. QED
    BY <1>1, <2>1, <2>2, DrawnOK DEF Inv
<1>7. ASSUME NEW t \in TileIds, RequestClose(t) PROVE Inv'
  <2>1. t \in Panes(tiles) /\ Drawn(multi_exec, focused)
    BY <1>7 DEF RequestClose
  <2>2. TreeOK' /\ LiveOK' /\ confirm_close' \in TileIds \cup {None}
    <3>1. CASE HasForwards(t)
      BY <1>1, <1>3, <1>7, <3>1 DEF RequestClose, TreeOK, Panes, Tree
    <3>2. CASE ~HasForwards(t)
      <4>1. CloseTiles({t}) /\ {t} \subseteq TileIds /\ confirm_close' = confirm_close
        BY <1>7, <3>2 DEF RequestClose
      <4>2. QED
        BY <1>1, <4>1, CloseTilesOK
    <3>3. QED
      BY <3>1, <3>2
  <2>3. QED
    BY <1>1, <2>1, <2>2, DrawnOK DEF Inv
<1>8. ASSUME NEW t \in TileIds, NEW s \in Instances, Split(t, s) PROVE Inv'
  <2>1. PICK moved : moved = Fresh(tiles)
    OBVIOUS
  <2>2. PICK leaf : leaf = Fresh(Plus(tiles, moved, Pane(s)))
    OBVIOUS
  <2>3. /\ t \in Panes(tiles) /\ FreshInstance(s) /\ Cardinality(Unused(tiles)) >= 2
        /\ SplitTile(t, moved, leaf, s) /\ live' = live /\ confirm_close' = confirm_close
        /\ Kept /\ Drawn(multi_exec, leaf)
    BY <1>8, <2>1, <2>2 DEF Split
  <2>4. TreeOK'
    BY <1>1, <2>1, <2>2, <2>3, SplitOK
  <2>5. LiveOK'
    BY <1>3, <2>3
  <2>6. QED
    BY <1>1, <2>3, <2>4, <2>5, DrawnOK DEF Inv
<1>9. ASSUME NEW g \in TileIds, CloseGroup(g) PROVE Inv'
  <2>1. /\ tiles' = Minus(tiles, {g}) /\ root' = root /\ live' = live /\ confirm_close' = confirm_close
        /\ Kept /\ Drawn(multi_exec, focused)
    BY <1>9 DEF CloseGroup
  <2>2. {g} \subseteq TileIds /\ root' = IF root \in {g} THEN None ELSE root
    <3>1. root # g
      BY <1>1, <1>9 DEF CloseGroup, Parents, TreeOK, Rooted
    <3>2. QED
      BY <2>1, <3>1
  <2>3. TreeOK'
    <3>1. PICK gone : gone = {g}
      OBVIOUS
    <3>2. tiles' = Minus(tiles, gone)
      BY <2>1, <3>1
    <3>3. gone \subseteq TileIds /\ root' = IF root \in gone THEN None ELSE root
      BY <2>2, <3>1
    <3>4. QED
      BY <1>1, <3>2, <3>3, TreeGone
  <2>4. LiveOK'
    BY <1>3, <2>1
  <2>5. QED
    BY <1>1, <2>1, <2>3, <2>4, DrawnOK DEF Inv
<1>10. ASSUME NEW t, NEW at, Drag(t, at) PROVE Inv'
  <2>1. live' = live /\ confirm_close' = confirm_close /\ Kept /\ Drawn(multi_exec, focused)
    BY <1>10 DEF Drag
  <2>2. TreeOK'
    BY <1>1, <1>10, DragOK
  <2>3. LiveOK'
    BY <1>3, <2>1
  <2>4. QED
    BY <1>1, <2>1, <2>2, <2>3, DrawnOK DEF Inv
<1>11. QED
  BY <1>2, <1>4, <1>5, <1>6, <1>7, <1>8, <1>9, <1>10 DEF PaneMenu

LEMMA DialogsInv ==
  ASSUME Inv, Dialogs
  PROVE  Inv'
<1>1. TreeOK /\ LiveOK /\ FocusOK /\ Tree(tiles)
  BY DEF Inv, TreeOK
<1>2. ASSUME KeepOpen PROVE TreeOK' /\ LiveOK' /\ confirm_close' \in TileIds \cup {None}
  BY <1>1, <1>2 DEF KeepOpen, TreeOK, LiveOK, FocusOK
<1>3. ASSUME CloseAnyway PROVE TreeOK' /\ LiveOK' /\ confirm_close' \in TileIds \cup {None}
  <2>1. PICK gone : gone = {confirm_close} \cap DOMAIN tiles /\ CloseTiles(gone) /\ confirm_close' = None
    BY <1>3 DEF CloseAnyway
  <2>2. gone \subseteq TileIds
    BY <1>1, <2>1 DEF Tree
  <2>3. QED
    BY <1>1, <2>1, <2>2, CloseTilesOK
<1>4. TreeOK' /\ LiveOK' /\ confirm_close' \in TileIds \cup {None}
  BY <1>2, <1>3 DEF Dialogs
<1>5. FocusOK'
  BY <1>1, <1>4 DEF Dialogs, FocusOK
<1>6. QED
  BY <1>4, <1>5 DEF Inv

\* The invariant is inductive.
THEOREM Invariant == Spec => []Inv
<1>1. Init => Inv
  BY InitInv
<1>2. Inv /\ [Next]_vars => Inv'
  <2> SUFFICES ASSUME Inv, [Next]_vars PROVE Inv'
    OBVIOUS
  <2>1. CASE Next
    BY <2>1, RelaunchInv, PumpInv, InputInv, DrawInv, DialogsInv DEF Next
  <2>2. CASE UNCHANGED vars
    BY <2>2 DEF vars, Inv, TreeOK, LiveOK, FocusOK
  <2>3. QED
    BY <2>1, <2>2
<1>3. QED
  BY <1>1, <1>2, PTL DEF Spec

--------------------------------------------------------------------------------
(* The theorems.                                                             *)

\* However tiles are opened, split, moved and closed, the variables keep their types.
THEOREM TypeCorrect == Spec => []TypeOK
<1>1. Inv => TypeOK
  <2> SUFFICES ASSUME Inv PROVE TypeOK
    OBVIOUS
  <2>1. DOMAIN tiles \subseteq TileIds /\ \A t \in DOMAIN tiles : tiles[t] \in Tile
    BY DEF Inv, TreeOK, Tree, TileOK
  <2>2. root \in DOMAIN tiles \cup {None}
    BY DEF Inv, TreeOK, Rooted
  <2>3. DOMAIN live \subseteq Instances /\ sources = DOMAIN live /\ \A s \in DOMAIN live : live[s] \in LivePane
    BY DEF Inv, LiveOK
  <2>4. QED
    BY <2>1, <2>2, <2>3 DEF TypeOK, Inv, FocusOK
<1>2. QED
  BY <1>1, Invariant, PTL

\* FR-87: after any sequence of tabs, splits, drags and closings the tiles are one
\* tree, with no hole and nothing hanging off it, and what is written to be reopened
\* is what is open.
THEOREM TreesAreSound == Spec => []TreeIsSound
<1>1. Inv => TreeIsSound
  <2> SUFFICES ASSUME Inv PROVE TreeIsSound
    OBVIOUS
  <2>1. Tree(tiles) /\ Rooted(tiles, root) /\ KidsOK(tiles) /\ OneParent(tiles)
    BY TreeKids DEF Inv, TreeOK
  <2>2. ASSUME NEW t \in DOMAIN tiles
        PROVE  Cardinality(Parents(tiles, t)) = IF t = root THEN 0 ELSE 1
    <3>1. CASE t = root
      <4>1. Parents(tiles, t) = {}
        BY <2>1, <3>1 DEF Parents, Rooted
      <4>2. QED
        BY <3>1, <4>1, FS_EmptySet
    <3>2. CASE t # root
      <4>1. root \in TileIds /\ t \in Within(tiles, root)
        BY <2>1 DEF Rooted, Tree
      <4>2. PICK u \in DOMAIN tiles : t \in tiles[u].kids
        BY <2>1, <3>2, <4>1, WithinParent
      <4>3. Parents(tiles, t) = {u}
        BY <2>1, <4>2 DEF Parents, OneParent
      <4>4. QED
        BY <3>2, <4>3, FS_Singleton
    <3>3. QED
      BY <3>1, <3>2
  <2>3. \A t \in DOMAIN tiles : tiles[t].kids \subseteq DOMAIN tiles
    BY <2>1 DEF Tree
  <2>4. \A t, u \in Panes(tiles) : tiles[t].pane = tiles[u].pane => t = u
    BY <2>1 DEF Tree, Apart
  <2>5. (root = None => tiles = <<>>) /\ (root # None => DOMAIN tiles = Within(tiles, root))
    BY <2>1 DEF Rooted
  <2>6. sources = DOMAIN live
    BY DEF Inv, LiveOK
  <2>7. QED
    BY <2>2, <2>3, <2>4, <2>5, <2>6 DEF TreeIsSound
<1>2. QED
  BY <1>1, Invariant, PTL

\* The sessions below a tile.
LEMMA SessionsFinite ==
  ASSUME NEW ts, NEW t, KidsOK(ts), t \in TileIds
  PROVE  IsFiniteSet(Sessions(ts, t)) /\ Cardinality(Sessions(ts, t)) \in Nat
<1> DEFINE P == Within(ts, t) \cap Panes(ts)
           f == [u \in P |-> ts[u].pane]
<1>1. P \subseteq TileIds
  BY WithinClosed
<1>2. IsFiniteSet(P)
  BY <1>1, TilesFinite, FS_Subset
<1>3. f \in Surjection(P, Sessions(ts, t))
  BY DEF Surjection, Sessions
<1>4. IsFiniteSet(Sessions(ts, t))
  BY <1>2, <1>3, FS_Surjection
<1>5. QED
  BY <1>4, FS_CardinalityType

LEMMA SessionsOfPane ==
  ASSUME NEW ts, NEW t, Tree(ts), t \in Panes(ts)
  PROVE  Sessions(ts, t) = {ts[t].pane}
<1>1. KidsOK(ts) /\ t \in TileIds /\ ts[t].kids = {}
  BY TreeKids DEF Tree, TileOK, Panes
<1>2. Within(ts, t) = {t}
  BY <1>1, WithinLeaf
<1>3. QED
  BY <1>2 DEF Sessions

LEMMA SessionsMonotone ==
  ASSUME NEW ts, NEW t, NEW u, KidsOK(ts), t \in TileIds, u \in Within(ts, t)
  PROVE  Sessions(ts, u) \subseteq Sessions(ts, t)
<1>1. Within(ts, u) \subseteq Within(ts, t)
  BY WithinMonotone
<1>2. QED
  BY <1>1 DEF Sessions

\* FR-90, FR-91, FR-93: whatever is typed into a pane reaches it, stays inside every
\* broadcast group around it, however the groups are nested, and is shown.
THEOREM InputStaysPut == Spec => []InputStays
<1>1. Inv => InputStays
  <2> SUFFICES ASSUME Inv, NEW f \in Panes(tiles)
               PROVE  LET enabled == {t \in multi_exec : f \in Within(tiles, t)} IN
                      /\ Session(f) \in Recipients(f)
                      /\ enabled = {} => Recipients(f) = {Session(f)}
                      /\ \A t \in enabled : Recipients(f) \subseteq Sessions(tiles, t)
                      /\ Recipients(f) \ {Session(f)} \subseteq Receiving
    BY DEF InputStays
  <2> DEFINE enabled == {t \in multi_exec : f \in Within(tiles, t)}
             Size(t) == Cardinality(Sessions(tiles, t))
  <2>1. Tree(tiles) /\ KidsOK(tiles) /\ OneParent(tiles) /\ multi_exec \subseteq TileIds
    BY TreeKids DEF Inv, TreeOK, FocusOK
  <2>2. CASE enabled = {}
    <3>1. Recipients(f) = Sessions(tiles, f)
      BY <2>2 DEF Recipients
    <3>2. Recipients(f) = {Session(f)}
      BY <2>1, <3>1, SessionsOfPane DEF Session
    <3>3. QED
      BY <2>2, <3>2
  <2>3. CASE enabled # {}
    <3> DEFINE best == CHOOSE t \in enabled : \A u \in enabled : Size(t) <= Size(u)
    <3>1. \E t \in enabled : \A u \in enabled : Size(t) <= Size(u)
      <4> DEFINE sizes == {Size(t) : t \in enabled}
      <4>1. sizes \subseteq Nat /\ sizes # {}
        BY <2>1, <2>3, SessionsFinite
      <4>2. PICK m \in sizes : \A k \in sizes : m <= k
        BY <4>1, LeastOf
      <4>3. QED
        BY <4>2
    <3>2. best \in enabled /\ \A u \in enabled : Size(best) <= Size(u)
      BY <3>1
    <3>3. Recipients(f) = Sessions(tiles, best)
      BY <2>3 DEF Recipients
    <3> HIDE DEF best
    <3>4. best \in multi_exec /\ best \in TileIds /\ f \in Within(tiles, best)
      BY <2>1, <3>2
    <3>5. Session(f) \in Sessions(tiles, best)
      BY <3>4 DEF Session, Sessions
    <3>6. ASSUME NEW t \in enabled PROVE Sessions(tiles, best) \subseteq Sessions(tiles, t)
      <4>1. t \in TileIds /\ f \in Within(tiles, t)
        BY <2>1
      <4>2. CASE best \in Within(tiles, t)
        BY <2>1, <4>1, <4>2, SessionsMonotone
      <4>3. CASE t \in Within(tiles, best)
        <5>1. Sessions(tiles, t) \subseteq Sessions(tiles, best)
          BY <2>1, <3>4, <4>3, SessionsMonotone
        <5>2. IsFiniteSet(Sessions(tiles, best)) /\ Size(best) \in Nat /\ Size(t) \in Nat
          BY <2>1, <3>4, <4>1, SessionsFinite
        <5>3. Size(t) <= Size(best) /\ Size(best) <= Size(t)
          BY <3>2, <5>1, <5>2, FS_Subset
        <5>4. Size(best) = Size(t)
          BY <5>2, <5>3
        <5>5. QED
          BY <5>1, <5>2, <5>4, FS_Subset
      <4>4. QED
        BY <2>1, <3>4, <4>1, <4>2, <4>3, Nested
    <3>7. Sessions(tiles, best) \subseteq Receiving
      BY <3>4 DEF Receiving
    <3>8. QED
      BY <2>3, <3>3, <3>5, <3>6, <3>7
  <2>4. QED
    BY <2>2, <2>3
<1>2. QED
  BY <1>1, Invariant, PTL

--------------------------------------------------------------------------------
(* Sessions with forwards.                                                   *)

LEMMA ClosedSessions ==
  ASSUME NEW gone, CloseTiles(gone), NEW s \in DOMAIN live \ DOMAIN live'
  PROVE  \E t \in gone : s \in Sessions(tiles, t)
BY DEF CloseTiles, Restrict

Asked(s) == live[s].forwards /\ live[s].state = "running" => step = "dialogs" \/ Relaunch

LEMMA AskedInv ==
  ASSUME Inv, [Next]_vars, NEW s \in DOMAIN live \ DOMAIN live'
  PROVE  Asked(s)
<1>1. Tree(tiles) /\ KidsOK(tiles) /\ DOMAIN live \subseteq Instances /\ focused \in TileIds \cup {None}
  BY TreeKids DEF Inv, TreeOK, LiveOK, FocusOK
<1>2. ASSUME NEW r, OpenSource(r) PROVE FALSE
  BY <1>2 DEF OpenSource
<1>3. ASSUME live' = live PROVE FALSE
  BY <1>3
<1>4. ASSUME PumpDone PROVE Asked(s)
  <2>1. PICK t \in Panes(tiles) : Ended(t) /\ s \in Sessions(tiles, t)
    BY <1>4, ClosedSessions DEF PumpDone
  <2>2. s = Session(t)
    BY <1>1, <2>1, SessionsOfPane DEF Session
  <2>3. QED
    BY <2>1, <2>2 DEF Ended, Asked
<1>5. ASSUME CloseEnded PROVE Asked(s)
  <2>1. IsOver(focused) /\ s \in Sessions(tiles, focused) /\ focused \in TileIds
    BY <1>1, <1>5, ClosedSessions DEF CloseEnded, Routed
  <2>2. CASE focused \in Panes(tiles)
    <3>1. s = Session(focused)
      BY <1>1, <2>1, <2>2, SessionsOfPane DEF Session
    <3>2. QED
      BY <2>1, <3>1 DEF IsOver, Asked
  <2>3. CASE focused \in DOMAIN tiles \ Panes(tiles)
    <3>1. Session(focused) = None
      BY <1>1, <2>3 DEF Tree, TileOK, Panes, Session
    <3>2. QED
      BY <1>1, <2>1, <3>1, TilesFinite DEF IsOver
  <2>4. CASE focused \notin DOMAIN tiles
    <3>1. Within(tiles, focused) = {focused}
      BY <1>1, <2>1, <2>4, WithinLeaf
    <3>2. QED
      BY <2>1, <2>4, <3>1 DEF Sessions, Panes
  <2>5. QED
    BY <2>2, <2>3, <2>4
<1>6. ASSUME NEW t, RequestClose(t) PROVE Asked(s)
  <2>1. t \in Panes(tiles) /\ ~HasForwards(t) /\ CloseTiles({t})
    BY <1>3, <1>6 DEF RequestClose
  <2>2. s \in Sessions(tiles, t)
    BY <2>1, ClosedSessions
  <2>3. s = Session(t)
    BY <1>1, <2>1, <2>2, SessionsOfPane DEF Session
  <2>4. QED
    BY <2>1, <2>3 DEF HasForwards, Asked
<1>7. ASSUME NEW x \in DOMAIN live, Pumped(x) PROVE FALSE
  <2>1. DOMAIN live' = DOMAIN live
    BY <1>7 DEF Pumped
  <2>2. QED
    BY <2>1
<1>8. ASSUME NEW x, OpenInActiveTile(x) PROVE FALSE
  BY <1>2, <1>8 DEF OpenInActiveTile
<1>9. ASSUME RestartPane \/ \E t \in TileIds : OpenHere(t) PROVE FALSE
  BY <1>2, <1>9 DEF RestartPane, OpenHere
<1>10. ASSUME \/ Idle \/ \E f : Draw(f)
              \/ \E t : Tidy(t) \/ Broadcast(t) \/ CloseGroup(t) \/ \E x : Split(t, x) \/ Drag(t, x)
              \/ \E f, moved : Typed(f, moved)
       PROVE  FALSE
  BY <1>3, <1>10 DEF Idle, Tidy, Draw, Broadcast, CloseGroup, Split, Drag, Typed
<1>11. ASSUME Dialogs \/ Relaunch PROVE Asked(s)
  BY <1>11 DEF Dialogs, Asked
<1>12. ASSUME UNCHANGED vars PROVE FALSE
  BY <1>3, <1>12 DEF vars
<1>13. QED
  BY <1>4, <1>5, <1>6, <1>7, <1>8, <1>9, <1>10, <1>11, <1>12 DEF Next, PaneMenu

\* No step of any frame but the answer to the dialog closes a running session with
\* forwards; a crash or an exit does.
THEOREM ForwardsAreAskedFor == Spec => ForwardsAreAsked
<1>1. Inv /\ [Next]_vars =>
        [\A s \in DOMAIN live \ DOMAIN live' :
           live[s].forwards /\ live[s].state = "running" => step = "dialogs" \/ Relaunch]_vars
  BY AskedInv DEF Asked
<1>2. QED
  BY <1>1, Invariant, PTL DEF Spec, ForwardsAreAsked
================================================================================
