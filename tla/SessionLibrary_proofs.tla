------------------------- MODULE SessionLibrary_proofs -------------------------
(***************************************************************************)
(* Theorems about SessionLibrary, for every set of sessions, files, folders *)
(* and names, every index found on disk, and any number of operations,     *)
(* failed writes and restarts.                                             *)
(***************************************************************************)
EXTENDS SessionLibrary, TLAPS

USE DEF files

LEMMA AppendFits ==
  ASSUME NEW S, NEW q \in Seq(S), NEW e \in S
  PROVE  /\ Append(q, e) \in Seq(S) /\ Len(q) \in Nat /\ DOMAIN q = 1..Len(q)
         /\ DOMAIN Append(q, e) = 1..(Len(q) + 1)
         /\ \A i \in 1..Len(q) : Append(q, e)[i] = q[i]
         /\ Append(q, e)[Len(q) + 1] = e
  OBVIOUS

LEMMA TailFits ==
  ASSUME NEW S, NEW q \in Seq(S), q # <<>>
  PROVE  Tail(q) \in Seq(S) /\ Head(q) \in S
  OBVIOUS

\* Changing each element.
LEMMA MapFits ==
  ASSUME NEW S, NEW T, NEW q \in Seq(S), NEW q2 \in [DOMAIN q -> T]
  PROVE  q2 \in Seq(T) /\ DOMAIN q2 = DOMAIN q /\ DOMAIN q = 1..Len(q) /\ Len(q) \in Nat
  OBVIOUS

LEMMA ConcatSecond ==
  ASSUME NEW S, NEW a \in Seq(S), NEW b \in Seq(S)
  PROVE  \A k \in (Len(a) + 1)..(Len(a) + Len(b)) : (a \o b)[k] = b[k - Len(a)]
  OBVIOUS

LEMMA SubSeqFits ==
  ASSUME NEW S, NEW q \in Seq(S), NEW m \in 1..(Len(q) + 1), NEW n \in (m - 1)..Len(q)
  PROVE  /\ SubSeq(q, m, n) \in Seq(S) /\ Len(SubSeq(q, m, n)) = n - m + 1
         /\ \A j \in 1..(n - m + 1) : SubSeq(q, m, n)[j] = q[m + j - 1]
<1>1. \A j \in m..n : j \in 1..Len(q)
  OBVIOUS
<1>2. QED
  BY <1>1

\* Taking one out.
Cut(q, i) == SubSeq(q, 1, i - 1) \o SubSeq(q, i + 1, Len(q))

LEMMA RemoveFits ==
  ASSUME NEW S, NEW q \in Seq(S), NEW i \in DOMAIN q
  PROVE  /\ Cut(q, i) \in Seq(S) /\ DOMAIN Cut(q, i) = 1..(Len(q) - 1)
         /\ Len(q) \in Nat /\ DOMAIN q = 1..Len(q)
         /\ \A j \in DOMAIN Cut(q, i) : Cut(q, i)[j] = q[IF j < i THEN j ELSE j + 1]
<1> DEFINE q2 == Cut(q, i)
           a == SubSeq(q, 1, i - 1)
           b == SubSeq(q, i + 1, Len(q))
<1>1. Len(q) \in Nat /\ i \in 1..Len(q) /\ DOMAIN q = 1..Len(q)
  OBVIOUS
<1>2. a \in Seq(S) /\ Len(a) = i - 1 /\ \A j \in 1..(i - 1) : a[j] = q[j]
  <2>1. 1 \in 1..(Len(q) + 1) /\ i - 1 \in (1 - 1)..Len(q)
    BY <1>1
  <2>2. /\ a \in Seq(S) /\ Len(a) = (i - 1) - 1 + 1
        /\ \A j \in 1..((i - 1) - 1 + 1) : a[j] = q[1 + j - 1]
    BY <2>1, SubSeqFits, Zenon
  <2> HIDE DEF a
  <2>3. (i - 1) - 1 + 1 = i - 1 /\ \A j \in 1..(i - 1) : 1 + j - 1 = j
    BY <1>1
  <2>4. QED
    BY <2>2, <2>3
<1>3. b \in Seq(S) /\ Len(b) = Len(q) - i /\ \A j \in 1..(Len(q) - i) : b[j] = q[i + j]
  <2>1. i + 1 \in 1..(Len(q) + 1) /\ Len(q) \in (i + 1 - 1)..Len(q)
    BY <1>1
  <2>2. /\ b \in Seq(S) /\ Len(b) = Len(q) - (i + 1) + 1
        /\ \A j \in 1..(Len(q) - (i + 1) + 1) : b[j] = q[i + 1 + j - 1]
    BY <2>1, SubSeqFits
  <2> HIDE DEF b
  <2>3. Len(q) - (i + 1) + 1 = Len(q) - i /\ \A j \in 1..(Len(q) - i) : i + 1 + j - 1 = i + j
    BY <1>1
  <2>4. QED
    BY <2>2, <2>3
<1>4. q2 = a \o b
  BY DEF Cut
<1> HIDE DEF q2, a, b
<1>5. q2 \in Seq(S) /\ Len(q2) = Len(q) - 1 /\ DOMAIN q2 = 1..(Len(q) - 1)
  <2>1. q2 \in Seq(S) /\ Len(q2) = Len(a) + Len(b)
    <3>1. a \in Seq(S) /\ b \in Seq(S)
      BY <1>2, <1>3
    <3>2. QED
      BY <1>4, <3>1
  <2>2. Len(a) + Len(b) = Len(q) - 1
    BY <1>1, <1>2, <1>3
  <2>3. DOMAIN q2 = 1..Len(q2)
    BY <2>1
  <2>4. QED
    BY <2>1, <2>2, <2>3
<1>6. ASSUME NEW j \in 1..(Len(q) - 1) PROVE q2[j] = q[IF j < i THEN j ELSE j + 1]
  <2>1. CASE j < i
    <3>1. j \in 1..Len(a) /\ q2[j] = a[j]
      BY <1>1, <1>2, <1>3, <1>4, <2>1
    <3>2. QED
      BY <1>1, <1>2, <2>1, <3>1
  <2>2. CASE ~(j < i)
    <3>1. j - (i - 1) \in 1..(Len(q) - i) /\ i + (j - (i - 1)) = j + 1 /\ ~(j <= i - 1)
      <4>1. \A n \in Nat : \A k \in 1..n : \A l \in 1..(n - 1) : ~(l < k) =>
              l - (k - 1) \in 1..(n - k) /\ k + (l - (k - 1)) = l + 1 /\ ~(l <= k - 1)
        OBVIOUS
      <4>2. QED
        BY <1>1, <2>2, <4>1
    <3>2. b[j - (i - 1)] = q[j + 1]
      BY <1>3, <3>1
    <3>3. q2[j] = b[j - (i - 1)]
      <4>1. \A k \in (Len(a) + 1)..(Len(a) + Len(b)) : q2[k] = b[k - Len(a)]
        <5>1. a \in Seq(S) /\ b \in Seq(S)
          BY <1>2, <1>3
        <5>2. \A k \in (Len(a) + 1)..(Len(a) + Len(b)) : (a \o b)[k] = b[k - Len(a)]
          BY <5>1, ConcatSecond
        <5>3. QED
          BY <1>4, <5>2, Zenon
      <4>2. j \in (Len(a) + 1)..(Len(a) + Len(b)) /\ Len(a) = i - 1
        BY <1>1, <1>2, <1>3, <2>2
      <4>3. QED
        BY <4>1, <4>2
    <3>4. QED
      BY <2>2, <3>2, <3>3
  <2>3. QED
    BY <2>1, <2>2
<1>7. QED
  BY <1>1, <1>5, <1>6 DEF q2

--------------------------------------------------------------------------------
(* Types.                                                                    *)

LEMMA DataFits ==
  ASSUME NEW data \in Data, NEW id \in Ids, NEW rel \in Folders
  PROVE  /\ Without(data, id) \in Data /\ With(data, id, rel) \in Data /\ Empty \in Data
         /\ Without(data, id).folders = data.folders /\ With(data, id, rel).folders = data.folders
         /\ IdsOf(Without(data, id)) = IdsOf(data) \ {id}
         /\ IdsOf(With(data, id, rel)) = IdsOf(data) \cup {id}
         /\ id \notin IdsOf(data) => Without(data, id) = data
<1>1. /\ Without(data, id) \in Data /\ Without(data, id).folders = data.folders
      /\ Without(data, id).sessions = {s \in data.sessions : s.id # id}
  BY DEF Data, Without
<1>2. /\ With(data, id, rel).folders = data.folders
      /\ With(data, id, rel).sessions = Without(data, id).sessions \cup {[id |-> id, folder |-> rel]}
      /\ With(data, id, rel) \in Data
  BY <1>1 DEF Data, With
<1>3. IdsOf(Without(data, id)) = IdsOf(data) \ {id}
  BY <1>1 DEF IdsOf
<1>4. IdsOf(With(data, id, rel)) = IdsOf(data) \cup {id}
  <2> DEFINE new == [id |-> id, folder |-> rel]
             others == Without(data, id).sessions
  <2>1. new.id = id /\ With(data, id, rel).sessions = others \cup {new}
    BY <1>2
  <2> HIDE DEF new, others
  <2>2. {s.id : s \in others \cup {new}} = {s.id : s \in others} \cup {id}
    BY <2>1
  <2>3. IdsOf(With(data, id, rel)) = IdsOf(Without(data, id)) \cup {id}
    BY <2>1, <2>2 DEF IdsOf, others
  <2>4. QED
    BY <1>3, <2>3
<1>5. ASSUME id \notin IdsOf(data) PROVE Without(data, id) = data
  <2>1. Without(data, id).sessions = data.sessions
    BY <1>1, <1>5 DEF IdsOf
  <2>2. QED
    BY <1>1, <2>1 DEF Data, Without
<1>6. QED
  BY <1>1, <1>2, <1>3, <1>4, <1>5 DEF Empty, Data

LEMMA TopFits ==
  ASSUME NEW top \in Tops
  PROVE  /\ top.data \in Data /\ top.name \in Names /\ top.path \in Paths /\ top.writable \in BOOLEAN
         /\ Entry(top) \in Entries
         /\ \A data \in Data : [top EXCEPT !.data = data] \in Tops
  BY DEF Tops, Entry, Entries

LEMMA LoadedFits ==
  ASSUME TypeOK, NEW name \in Names, NEW path \in Paths, NEW readable \in BOOLEAN
  PROVE  /\ Loaded(name, path, readable) \in Tops
         /\ Loaded(name, path, readable).name = name /\ Loaded(name, path, readable).path = path
         /\ Loaded(name, path, readable).data = Contents(path, readable)
         /\ Loaded(name, path, readable).writable = Writable(path, readable)
<1>1. Contents(path, readable) \in Data /\ Writable(path, readable) \in BOOLEAN
  BY DEF Contents, Writable, Empty, Data
<1>2. QED
  BY <1>1 DEF Loaded, Tops

\* What an operation may do to the tree's top-level folders: change what is in them.
SameTops ==
  /\ tops' \in Seq(Tops) /\ DOMAIN tops' = DOMAIN tops
  /\ \A i \in DOMAIN tops : /\ tops'[i].name = tops[i].name /\ tops'[i].path = tops[i].path
                            /\ tops'[i].writable = tops[i].writable

LEMMA Upserted ==
  ASSUME TypeOK, NEW id \in Ids, NEW name \in Names, NEW rel \in Folders, Upsert(id, name, rel)
  PROVE  \E i \in Home(name) :
           /\ SameTops /\ todo' = Affected(id) \cup {tops[i].path}
           /\ \A j \in DOMAIN tops :
                tops'[j].data = IF j = i THEN With(tops[j].data, id, rel) ELSE Without(tops[j].data, id)
           /\ UNCHANGED <<phase, loading, files, saved, failed>>
<1>1. PICK i \in Home(name) :
        /\ tops' = [j \in DOMAIN tops |->
                     [tops[j] EXCEPT !.data = IF j = i THEN With(@, id, rel) ELSE Without(@, id)]]
        /\ todo' = Affected(id) \cup {tops[i].path}
        /\ UNCHANGED <<phase, loading, files, saved, failed>>
  BY DEF Upsert
<1>2. \A j \in DOMAIN tops : tops[j] \in Tops
  BY DEF TypeOK
<1>3. \A j \in DOMAIN tops : tops'[j] \in Tops
  BY <1>1, <1>2, DataFits, TopFits
<1>4. tops' \in [DOMAIN tops -> Tops]
  BY <1>1, <1>3
<1>5. tops' \in Seq(Tops) /\ DOMAIN tops' = DOMAIN tops
  BY <1>4, MapFits DEF TypeOK
<1>6. \A j \in DOMAIN tops :
        /\ tops'[j].name = tops[j].name /\ tops'[j].path = tops[j].path
        /\ tops'[j].writable = tops[j].writable
        /\ tops'[j].data = IF j = i THEN With(tops[j].data, id, rel) ELSE Without(tops[j].data, id)
  BY <1>1, <1>2 DEF Tops
<1>7. QED
  BY <1>1, <1>5, <1>6 DEF SameTops

LEMMA SessionDeleted ==
  ASSUME TypeOK, NEW id \in Ids, DeleteSession(id)
  PROVE  SameTops /\ \A j \in DOMAIN tops : tops'[j].data = Without(tops[j].data, id)
<1>1. \A j \in DOMAIN tops : tops[j] \in Tops
  BY DEF TypeOK
<1>2. PICK rel : rel \in Folders
  BY LibraryAssumption
<1>3. \A j \in DOMAIN tops : tops'[j] \in Tops
  BY <1>1, <1>2, DataFits, TopFits DEF DeleteSession
<1>4. tops' \in [DOMAIN tops -> Tops]
  BY <1>3 DEF DeleteSession
<1>5. tops' \in Seq(Tops) /\ DOMAIN tops' = DOMAIN tops
  BY <1>4, MapFits DEF TypeOK
<1>6. QED
  BY <1>1, <1>5 DEF DeleteSession, SameTops, Tops

\* A change to one file's folders, and to its sessions.
LEMMA OneChanged ==
  ASSUME TypeOK, NEW i \in DOMAIN tops, NEW data \in Data, tops' = [tops EXCEPT ![i].data = data]
  PROVE  SameTops /\ tops'[i].data = data /\ \A j \in DOMAIN tops \ {i} : tops'[j] = tops[j]
<1>1. \A j \in DOMAIN tops : tops[j] \in Tops
  BY DEF TypeOK
<1>2. tops' = [tops EXCEPT ![i] = [@ EXCEPT !.data = data]]
  OBVIOUS
<1>3. [tops[i] EXCEPT !.data = data] \in Tops
  BY <1>1, TopFits
<1>4. tops' \in Seq(Tops) /\ DOMAIN tops' = DOMAIN tops
  BY <1>2, <1>3 DEF TypeOK
<1>5. tops'[i] = [tops[i] EXCEPT !.data = data] /\ \A j \in DOMAIN tops \ {i} : tops'[j] = tops[j]
  BY <1>2 DEF TypeOK
<1>6. QED
  BY <1>1, <1>4, <1>5 DEF SameTops, Tops

LEMMA FolderDeleted ==
  ASSUME TypeOK, NEW name \in Names, NEW rel \in Folders, DeleteFolder(name, rel)
  PROVE  \E i \in Home(name) : \E data \in Data :
           /\ SameTops /\ tops'[i].data = data /\ \A j \in DOMAIN tops \ {i} : tops'[j] = tops[j]
           /\ todo' = {tops[i].path}
           /\ IdsOf(tops[i].data) \subseteq IdsOf(data) \cup (saved \ saved')
                                             \cup {id \in Ids : id \notin saved}
           /\ saved' \subseteq saved
<1>1. PICK i \in Home(name) :
        LET gone == {s \in tops[i].data.sessions : IsWithin(rel, s.folder)} IN
        /\ tops' = [tops EXCEPT ![i].data =
                     [folders |-> {f \in @.folders : ~IsWithin(rel, f)}, sessions |-> @.sessions \ gone]]
        /\ todo' = {tops[i].path} /\ saved' = saved \ {s.id : s \in gone}
  BY DEF DeleteFolder
<1> DEFINE old  == tops[i].data
           gone == {s \in old.sessions : IsWithin(rel, s.folder)}
           data == [folders |-> {f \in old.folders : ~IsWithin(rel, f)}, sessions |-> old.sessions \ gone]
<1>2. i \in DOMAIN tops /\ tops[i] \in Tops
  BY <1>1 DEF Home, TypeOK
<1>3. old \in Data
  BY <1>2, TopFits
<1>4. data \in Data /\ data.sessions = old.sessions \ gone
  BY <1>3 DEF Data
<1>5. tops' = [tops EXCEPT ![i].data = data] /\ saved' = saved \ {s.id : s \in gone}
  BY <1>1, <1>2
<1>6. IdsOf(old) \subseteq IdsOf(data) \cup {s.id : s \in gone} /\ {s.id : s \in gone} \subseteq Ids
  <2>1. \A s \in old.sessions : s.id \in Ids /\ (s \in data.sessions \/ s \in gone)
    BY <1>3, <1>4 DEF Data
  <2>2. QED
    BY <2>1 DEF IdsOf
<1> HIDE DEF data, gone
<1>7. SameTops /\ tops'[i].data = data /\ \A j \in DOMAIN tops \ {i} : tops'[j] = tops[j]
  BY <1>2, <1>4, <1>5, OneChanged
<1>8. QED
  BY <1>1, <1>4, <1>5, <1>6, <1>7

LEMMA FolderCreated ==
  ASSUME TypeOK, NEW name \in Names, NEW rel \in Folders, CreateFolder(name, rel)
  PROVE  \E i \in Home(name) : \E data \in Data :
           /\ SameTops /\ tops'[i].data = data /\ \A j \in DOMAIN tops \ {i} : tops'[j] = tops[j]
           /\ todo' = {tops[i].path} /\ IdsOf(data) = IdsOf(tops[i].data)
<1>1. PICK i \in Home(name) :
        tops' = [tops EXCEPT ![i].data.folders = @ \cup {rel}] /\ todo' = {tops[i].path}
  BY DEF CreateFolder
<1> DEFINE data == [tops[i].data EXCEPT !.folders = @ \cup {rel}]
<1>2. i \in DOMAIN tops /\ tops[i] \in Tops
  BY <1>1 DEF Home, TypeOK
<1>3. tops[i].data \in Data
  BY <1>2, TopFits
<1>4. rel # <<>>
  BY DEF CreateFolder
<1>5. data \in Data /\ data.sessions = tops[i].data.sessions
  BY <1>3, <1>4 DEF Data
<1>6. tops' = [tops EXCEPT ![i].data = data]
  BY <1>1, <1>2
<1> HIDE DEF data
<1>7. SameTops /\ tops'[i].data = data /\ \A j \in DOMAIN tops \ {i} : tops'[j] = tops[j]
  BY <1>2, <1>5, <1>6, OneChanged
<1>8. QED
  BY <1>1, <1>5, <1>7 DEF IdsOf

LEMMA EntryAdded ==
  ASSUME TypeOK, NEW name \in Names, NEW path \in Paths, NEW readable \in BOOLEAN,
         tops' = Append(tops, Loaded(name, path, readable))
  PROVE  /\ tops' \in Seq(Tops) /\ Len(tops) \in Nat /\ DOMAIN tops = 1..Len(tops)
         /\ DOMAIN tops' = 1..(Len(tops) + 1)
         /\ \A i \in DOMAIN tops : tops'[i] = tops[i]
         /\ tops'[Len(tops) + 1] = Loaded(name, path, readable)
BY LoadedFits, AppendFits DEF TypeOK

LEMMA OpenedTops ==
  ASSUME TypeOK, Opened
  PROVE  /\ tops' \in Seq(Tops) /\ DOMAIN tops' = DOMAIN tops /\ DOMAIN tops = 1..Len(tops)
         /\ \A i \in DOMAIN tops : /\ tops'[i].name = Migrated(i) /\ tops'[i].path = tops[i].path
                                   /\ tops'[i].writable = tops[i].writable
                                   /\ tops'[i].data = tops[i].data
<1>1. \A i \in DOMAIN tops : tops[i] \in Tops
  BY DEF TypeOK
<1>2. \A i \in DOMAIN tops : Migrated(i) \in Names
  BY <1>1, LibraryAssumption DEF Migrated, Tops
<1>3. \A i \in DOMAIN tops : tops'[i] = [tops[i] EXCEPT !.name = Migrated(i)]
  BY DEF Opened
<1>4. tops' \in [DOMAIN tops -> Tops]
  BY <1>1, <1>2 DEF Opened, Tops
<1>5. QED
  BY <1>1, <1>3, <1>4, MapFits DEF TypeOK, Tops

LEMMA InitTypes == Init => TypeOK
<1> SUFFICES ASSUME Init PROVE TypeOK
  OBVIOUS
<1>1. index \in Seq(Entries)
  <2>1. PICK n \in 0..MaxEntries : index \in [1..n -> Entries]
    BY DEF Init
  <2>2. n \in Nat
    BY LibraryAssumption
  <2>3. QED
    BY <2>1, <2>2
<1>2. saved \subseteq Ids
  <2>1. \A p \in Paths : IdsIn(p) \subseteq Ids
    BY DEF IdsIn, IdsOf, Data
  <2>2. QED
    BY <2>1 DEF Init, OnDisk
<1>3. loading \in Seq(Entries) /\ tops \in Seq(Tops)
  BY DEF Init
<1>4. QED
  BY <1>1, <1>2, <1>3 DEF Init, TypeOK

\* The index as the program would write it.
LEMMA IndexFits ==
  ASSUME TypeOK, NEW q, q = [i \in DOMAIN tops |-> Entry(tops[i])]
  PROVE  q \in Seq(Entries)
<1>1. \A i \in DOMAIN tops : tops[i] \in Tops
  BY DEF TypeOK
<1>2. q \in [DOMAIN tops -> Entries]
  BY <1>1, TopFits
<1>3. QED
  BY <1>2, MapFits DEF TypeOK

LEMMA HolderIds == ASSUME TypeOK, NEW i \in DOMAIN tops PROVE IdsOf(tops[i].data) \subseteq Ids
<1>1. tops[i] \in Tops
  BY DEF TypeOK
<1>2. tops[i].data \in Data
  BY <1>1, TopFits
<1>3. QED
  BY <1>2 DEF IdsOf, Data

LEMMA TypesStep == TypeOK /\ [Next]_vars => TypeOK'
<1> SUFFICES ASSUME TypeOK, [Next]_vars PROVE TypeOK'
  OBVIOUS
<1>1. \A i \in DOMAIN tops : tops[i] \in Tops /\ tops[i].path \in Paths
  BY TopFits DEF TypeOK
<1>2. CASE Start
  <2>1. <<[name |-> General, path |-> DefaultPath]>> \in Seq(Entries)
    BY LibraryAssumption DEF Entries
  <2>2. loading' \in Seq(Entries)
    BY <1>2, <2>1 DEF Start, TypeOK
  <2>3. QED
    BY <1>2, <2>2 DEF Start, TypeOK
<1>3. CASE LoadEntry
  <2>1. loading' \in Seq(Entries) /\ Head(loading).name \in Names /\ Head(loading).path \in Paths
    <3>1. loading' \in Seq(Entries) /\ Head(loading) \in Entries
      BY <1>3, TailFits DEF LoadEntry, TypeOK
    <3>2. QED
      BY <3>1 DEF Entries
  <2>2. tops' \in Seq(Tops)
    <3>1. CASE UNCHANGED tops
      BY <3>1 DEF TypeOK
    <3>2. ASSUME NEW readable \in BOOLEAN,
                 tops' = Append(tops, Loaded(Head(loading).name, Head(loading).path, readable))
          PROVE  tops' \in Seq(Tops)
      BY <2>1, <3>2, EntryAdded
    <3>3. QED
      BY <1>3, <3>1, <3>2 DEF LoadEntry
  <2>3. QED
    BY <1>3, <2>1, <2>2 DEF LoadEntry, TypeOK
<1>4. CASE Opened
  <2>1. todo' \subseteq Paths \cup {Index}
    BY <1>1, <1>4 DEF Opened
  <2>2. QED
    BY <1>4, <2>1, OpenedTops DEF Opened, TypeOK
<1>5. ASSUME NEW p \in Paths \cup {Index}, Write(p) PROVE TypeOK'
  <2>1. CASE p = Index
    <3>1. index' \in Seq(Entries)
      BY <1>5, <2>1, IndexFits DEF Write
    <3>2. QED
      BY <1>5, <2>1, <3>1 DEF Write, TypeOK
  <2>2. CASE p # Index
    <3>1. PICK i \in DOMAIN tops : /\ tops[i].path = p /\ disk' = [disk EXCEPT ![p] = tops[i].data]
                                   /\ saved' = saved \cup IdsOf(tops[i].data) /\ UNCHANGED index
      BY <1>5, <2>2 DEF Write
    <3>2. tops[i].data \in Data
      BY <1>1, TopFits
    <3>3. disk' \in [Paths -> Data \cup {Missing, Corrupt}]
      BY <3>1, <3>2 DEF TypeOK
    <3>4. saved' \subseteq Ids
      BY <3>1, HolderIds DEF TypeOK
    <3>5. QED
      BY <1>5, <2>2, <3>1, <3>3, <3>4 DEF Write, TypeOK
  <2>3. QED
    BY <2>1, <2>2
<1>6. CASE WriteFails
  BY <1>6 DEF WriteFails, TypeOK
<1>7. ASSUME NEW id \in Ids, NEW name \in Names, NEW rel \in Folders, Upsert(id, name, rel),
             ops' = ops + 1, editor' \in {editor, None}
      PROVE  TypeOK'
  <2>1. Affected(id) \subseteq Paths
    BY <1>1 DEF Affected, Holders
  <2>2. QED
    BY <1>1, <1>7, <2>1, Upserted DEF SameTops, Home, TypeOK
<1>8. CASE OpenEditor
  <2>1. editor' \in Ids
    BY <1>8 DEF OpenEditor, Listed
  <2>2. QED
    BY <1>8, <2>1 DEF OpenEditor, TypeOK
<1>9. ASSUME NEW name \in Names, NEW rel \in Folders, SaveSession(name, rel) PROVE TypeOK'
  <2>1. editor \in Ids /\ ops' = ops + 1 /\ editor' = None
    BY <1>9 DEF SaveSession, Ready, TypeOK
  <2>2. CASE Upsert(editor, name, rel)
    BY <1>7, <2>1, <2>2
  <2>3. CASE ~Upsert(editor, name, rel)
    BY <1>9, <2>1, <2>3 DEF SaveSession, TypeOK
  <2>4. QED
    BY <2>2, <2>3
<1>10. ASSUME NEW id \in Ids, NEW name \in Names, NEW rel \in Folders, MoveSession(id, name, rel)
       PROVE  TypeOK'
  BY <1>7, <1>10 DEF MoveSession, Ready
<1>11. ASSUME NEW id \in Ids, NEW new \in Ids, DuplicateSession(id, new) PROVE TypeOK'
  <2>1. PICK i \in DOMAIN tops : \E s \in tops[i].data.sessions : Upsert(new, tops[i].name, s.folder)
    BY <1>11 DEF DuplicateSession, Holders
  <2>2. PICK s \in tops[i].data.sessions : Upsert(new, tops[i].name, s.folder)
    BY <2>1
  <2>3. tops[i].name \in Names /\ tops[i].data \in Data
    BY <1>1, TopFits
  <2>4. s.folder \in Folders
    BY <2>3 DEF Data
  <2>5. QED
    BY <1>7, <1>11, <2>2, <2>3, <2>4 DEF DuplicateSession, Ready
<1>12. ASSUME NEW id \in Ids, DeleteSession(id) PROVE TypeOK'
  <2>1. todo' \subseteq Paths
    BY <1>1, <1>12 DEF DeleteSession, Affected, Holders
  <2>2. tops' \in Seq(Tops)
    BY <1>12, SessionDeleted DEF SameTops
  <2>3. QED
    BY <1>12, <2>1, <2>2 DEF DeleteSession, Ready, TypeOK
<1>13. ASSUME NEW name \in Names, NEW rel \in Folders, CreateFolder(name, rel) PROVE TypeOK'
  <2>1. tops' \in Seq(Tops) /\ todo' \subseteq Paths
    BY <1>1, <1>13, FolderCreated DEF SameTops, Home
  <2>2. QED
    BY <1>13, <2>1 DEF CreateFolder, Ready, TypeOK
<1>14. ASSUME NEW name \in Names, NEW rel \in Folders, DeleteFolder(name, rel) PROVE TypeOK'
  <2>1. tops' \in Seq(Tops) /\ todo' \subseteq Paths /\ saved' \subseteq saved
    BY <1>1, <1>14, FolderDeleted DEF SameTops, Home
  <2>2. QED
    BY <1>14, <2>1 DEF DeleteFolder, Ready, TypeOK
<1>15. ASSUME NEW name \in Names, NEW p \in Paths, AddFile(name, p) PROVE TypeOK'
  <2>1. PICK readable \in BOOLEAN : tops' = Append(tops, Loaded(name, p, readable))
    BY <1>15 DEF AddFile
  <2>2. tops' \in Seq(Tops)
    BY <2>1, EntryAdded
  <2>3. disk' \in [Paths -> Data \cup {Missing, Corrupt}]
    BY <1>15 DEF AddFile, TypeOK, Empty, Data
  <2>4. QED
    BY <1>15, <2>2, <2>3 DEF AddFile, Ready, TypeOK
<1>16. ASSUME NEW name \in Names, RemoveTopFolder(name) PROVE TypeOK'
  <2>1. tops' \in Seq(Tops)
    BY <1>16, RemoveFits DEF RemoveTopFolder, Cut, TypeOK
  <2>2. QED
    BY <1>16, <2>1 DEF RemoveTopFolder, Ready, TypeOK
<1>17. CASE Stop
  <2>1. loading' \in Seq(Entries) /\ tops' \in Seq(Tops)
    BY <1>17 DEF Stop
  <2>2. QED
    BY <1>17, <2>1 DEF Stop, TypeOK
<1>18. CASE UNCHANGED vars
  BY <1>18 DEF vars, TypeOK
<1>19. QED
  BY <1>2, <1>3, <1>4, <1>5, <1>6, <1>8, <1>9, <1>10, <1>11, <1>12, <1>13, <1>14, <1>15, <1>16, <1>17,
     <1>18
     DEF Next, Opening, PanelActions, AddFolder, ConfirmDelete

\* Every variable keeps its type, and nothing but the user's files and the index
\* is ever due to be written.
THEOREM TypeCorrect == Spec => []TypeOK
  BY InitTypes, TypesStep, PTL DEF Spec
--------------------------------------------------------------------------------
(* No two top-level folders have one name or one file.                       *)

\* Changing what is in the folders changes neither.
LEMMA SameTopsDiffer == ASSUME TypeOK, TopsDiffer, SameTops PROVE TopsDiffer'
BY DEF SameTops, TopsDiffer

LEMMA AddedDiffers ==
  ASSUME TypeOK, TopsDiffer, NEW name \in Names, NEW path \in Paths, NEW readable \in BOOLEAN,
         ~Taken(name, path), tops' = Append(tops, Loaded(name, path, readable))
  PROVE  TopsDiffer'
<1> DEFINE new == Len(tops) + 1
<1>1. /\ DOMAIN tops' = DOMAIN tops \cup {new}
      /\ \A i \in DOMAIN tops : tops'[i] = tops[i]
      /\ tops'[new].name = name /\ tops'[new].path = path
  BY EntryAdded, LoadedFits
<1>2. \A i \in DOMAIN tops : tops[i].name # name /\ tops[i].path # path
  BY DEF Taken
<1> HIDE DEF new
<1>3. QED
  BY <1>1, <1>2 DEF TopsDiffer

LEMMA MigratedDiffer == ASSUME TypeOK, TopsDiffer, Opened PROVE TopsDiffer'
<1>1. ASSUME NEW i \in DOMAIN tops, NEW j \in DOMAIN tops, i # j PROVE Migrated(i) # Migrated(j)
  BY <1>1 DEF Migrated, TopsDiffer
<1>2. QED
  BY <1>1, OpenedTops DEF TopsDiffer

LEMMA RemovedDiffer ==
  ASSUME TypeOK, TopsDiffer, NEW name \in Names, RemoveTopFolder(name) PROVE TopsDiffer'
<1>1. PICK i \in DOMAIN tops : tops' = Cut(tops, i)
  BY DEF RemoveTopFolder, Cut
<1> DEFINE old(j) == IF j < i THEN j ELSE j + 1
<1>2. /\ DOMAIN tops' = 1..(Len(tops) - 1) /\ Len(tops) \in Nat /\ DOMAIN tops = 1..Len(tops)
      /\ \A j \in DOMAIN tops' : tops'[j] = tops[old(j)]
  <2>1. tops \in Seq(Tops)
    BY DEF TypeOK
  <2> HIDE DEF old
  <2>2. \A j \in DOMAIN tops' : tops'[j] = tops[IF j < i THEN j ELSE j + 1]
    BY <1>1, <2>1, RemoveFits
  <2>3. DOMAIN tops' = 1..(Len(tops) - 1) /\ Len(tops) \in Nat /\ DOMAIN tops = 1..Len(tops)
    BY <1>1, <2>1, RemoveFits
  <2>4. QED
    BY <2>2, <2>3, Zenon DEF old
<1>3. /\ \A j \in DOMAIN tops' : old(j) \in DOMAIN tops
      /\ \A j, k \in DOMAIN tops' : j # k => old(j) # old(k)
  BY <1>2
<1> HIDE DEF old
<1>4. QED
  BY <1>2, <1>3 DEF TopsDiffer

LEMMA DifferStep == TypeOK /\ TopsDiffer /\ [Next]_vars => TopsDiffer'
<1> SUFFICES ASSUME TypeOK, TopsDiffer, [Next]_vars PROVE TopsDiffer'
  OBVIOUS
<1>1. CASE UNCHANGED tops
  BY <1>1 DEF TopsDiffer
<1>2. CASE SameTops
  BY <1>2, SameTopsDiffer
<1>3. CASE LoadEntry
  <2>1. Head(loading).name \in Names /\ Head(loading).path \in Paths
    <3>1. Head(loading) \in Entries
      BY <1>3, TailFits DEF LoadEntry, TypeOK
    <3>2. QED
      BY <3>1 DEF Entries
  <2>2. QED
    BY <1>1, <1>3, <2>1, AddedDiffers DEF LoadEntry
<1>4. CASE Opened
  BY <1>4, MigratedDiffer
<1>5. ASSUME NEW id \in Ids, NEW name \in Names, NEW rel \in Folders, Upsert(id, name, rel)
      PROVE  TopsDiffer'
  BY <1>2, <1>5, Upserted
<1>6. ASSUME NEW name \in Names, NEW rel \in Folders, SaveSession(name, rel) PROVE TopsDiffer'
  <2>1. editor \in Ids
    BY <1>6 DEF SaveSession, TypeOK
  <2>2. QED
    BY <1>1, <1>5, <1>6, <2>1 DEF SaveSession
<1>7. ASSUME NEW id \in Ids, NEW new \in Ids, DuplicateSession(id, new) PROVE TopsDiffer'
  <2>1. PICK i \in DOMAIN tops : \E s \in tops[i].data.sessions : Upsert(new, tops[i].name, s.folder)
    BY <1>7 DEF DuplicateSession, Holders
  <2>2. PICK s \in tops[i].data.sessions : Upsert(new, tops[i].name, s.folder)
    BY <2>1
  <2>3. tops[i].name \in Names /\ tops[i].data \in Data
    <3>1. tops[i] \in Tops
      BY DEF TypeOK
    <3>2. QED
      BY <3>1, TopFits
  <2>4. s.folder \in Folders
    BY <2>3 DEF Data
  <2>5. QED
    BY <1>5, <2>2, <2>3, <2>4
<1>8. ASSUME NEW name \in Names, NEW rel \in Folders, CreateFolder(name, rel) \/ DeleteFolder(name, rel)
      PROVE  TopsDiffer'
  BY <1>2, <1>8, FolderCreated, FolderDeleted
<1>9. ASSUME NEW name \in Names, NEW p \in Paths, AddFile(name, p) PROVE TopsDiffer'
  BY <1>9, AddedDiffers DEF AddFile
<1>10. CASE Stop
  BY <1>10 DEF Stop, TopsDiffer
<1>11. CASE Start \/ OpenEditor \/ WriteFails \/ (\E p \in Paths \cup {Index} : Write(p)) \/ UNCHANGED vars
  BY <1>1, <1>11 DEF Start, OpenEditor, WriteFails, Write, vars
<1>12. CASE \E id \in Ids : DeleteSession(id)
  BY <1>2, <1>12, SessionDeleted
<1>13. CASE \E id \in Ids, name \in Names, rel \in Folders : MoveSession(id, name, rel)
  BY <1>5, <1>13 DEF MoveSession
<1>14. QED
  BY <1>3, <1>4, <1>6, <1>7, <1>8, <1>9, <1>10, <1>11, <1>12, <1>13, RemovedDiffer
     DEF Next, Opening, PanelActions, AddFolder, ConfirmDelete

\* The migration of the old default folder, an index that was edited by hand,
\* added and removed files never give two top-level folders one name or one path.
THEOREM TopFoldersDiffer == Spec => []TopsDiffer
<1>1. Init => TopsDiffer
  BY DEF Init, TopsDiffer
<1>2. TypeOK /\ TopsDiffer /\ [Next]_vars => TypeOK' /\ TopsDiffer'
  BY TypesStep, DifferStep
<1>3. QED
  BY <1>1, <1>2, InitTypes, PTL DEF Spec
--------------------------------------------------------------------------------
(* The files.  What the tree shows is in them and nothing is lost in writing  *)
(* them, because a folder that is read-only is empty and never due, so that   *)
(* no file that could not be read is written, and because a folder's file     *)
(* holds no session, of those not deleted, that memory has lost.              *)

Quiet == (phase = "down" => tops = <<>>) /\ (phase \notin {"opening", "up"} => todo = {})

ReadOnly ==
  \A i \in DOMAIN tops :
    /\ ~tops[i].writable => /\ tops[i].data = Empty /\ tops[i].path \notin todo
                            /\ disk[tops[i].path] # Missing
    /\ tops[i].writable => disk[tops[i].path] # Corrupt

JustRead ==
  phase = "loading" => \A i \in DOMAIN tops : tops[i].writable =>
    disk[tops[i].path] = tops[i].data \/ disk[tops[i].path] = Missing

Kept ==
  ~failed => \A i \in DOMAIN tops : tops[i].writable =>
    \A id \in IdsIn(tops[i].path) \cap saved : Holders(id) # {}

LibInv == TypeOK /\ TopsDiffer /\ Quiet /\ ReadOnly /\ JustRead /\ FilesAgree /\ Kept

\* What the operations on what is in the folders have in common.
Edited ==
  /\ SameTops /\ phase = "up" /\ todo = {} /\ UNCHANGED <<phase, files, failed>>
  /\ saved' \subseteq saved
  /\ \A p \in todo' : \E i \in DOMAIN tops : tops[i].writable /\ tops[i].path = p
  /\ \A i \in DOMAIN tops : tops'[i].data # tops[i].data => tops[i].writable /\ tops[i].path \in todo'
  /\ \A id \in saved' : Holders(id) # {} => Holders(id)' # {}

LEMMA NobodyInEmpty == IdsOf(Empty) = {}
BY DEF IdsOf, Empty

\* Who holds a session can be written.
LEMMA HoldersWritable ==
  ASSUME LibInv, NEW id \in Ids, NEW i \in Holders(id) PROVE i \in DOMAIN tops /\ tops[i].writable
BY NobodyInEmpty DEF Holders, LibInv, ReadOnly

LEMMA UpsertEdits ==
  ASSUME LibInv, Ready, NEW id \in Ids, NEW name \in Names, NEW rel \in Folders, Upsert(id, name, rel)
  PROVE  Edited
<1>1. TypeOK /\ phase = "up" /\ todo = {}
  BY DEF LibInv, Ready
<1>2. PICK i \in Home(name) :
           /\ SameTops /\ todo' = Affected(id) \cup {tops[i].path}
           /\ \A j \in DOMAIN tops :
                tops'[j].data = IF j = i THEN With(tops[j].data, id, rel) ELSE Without(tops[j].data, id)
           /\ UNCHANGED <<phase, loading, files, saved, failed>>
  BY <1>1, Upserted
<1>3. i \in DOMAIN tops /\ tops[i].writable
  BY DEF Home
<1>4. \A j \in DOMAIN tops : tops[j].data \in Data
  BY <1>1, TopFits DEF TypeOK
<1>5. \A p \in todo' : \E j \in DOMAIN tops : tops[j].writable /\ tops[j].path = p
  BY <1>2, <1>3, HoldersWritable DEF Affected
<1>6. ASSUME NEW j \in DOMAIN tops, tops'[j].data # tops[j].data
      PROVE  tops[j].writable /\ tops[j].path \in todo'
  <2>1. CASE j = i
    BY <1>2, <1>3, <2>1
  <2>2. CASE j # i
    <3>1. tops'[j].data = Without(tops[j].data, id)
      BY <1>2, <2>2
    <3>2. j \in Holders(id)
      BY <1>4, <1>6, <3>1, DataFits DEF Holders
    <3>3. QED
      BY <1>2, <3>2, HoldersWritable DEF Affected
  <2>3. QED
    BY <2>1, <2>2
<1>7. ASSUME NEW other \in saved', Holders(other) # {} PROVE Holders(other)' # {}
  <2>1. CASE other = id
    <3>1. id \in IdsOf(tops'[i].data)
      BY <1>2, <1>3, <1>4, DataFits
    <3>2. QED
      BY <1>2, <1>3, <2>1, <3>1 DEF Holders, SameTops
  <2>2. CASE other # id
    <3>1. PICK j \in DOMAIN tops : other \in IdsOf(tops[j].data)
      BY <1>7 DEF Holders
    <3>2. other \in IdsOf(tops'[j].data)
      BY <1>2, <1>4, <2>2, <3>1, DataFits
    <3>3. QED
      BY <1>2, <3>2 DEF Holders, SameTops
  <2>3. QED
    BY <2>1, <2>2
<1>8. QED
  BY <1>1, <1>2, <1>5, <1>6, <1>7 DEF Edited

LEMMA DeleteEdits ==
  ASSUME LibInv, NEW id \in Ids, DeleteSession(id)
  PROVE  Edited
<1>1. TypeOK /\ phase = "up" /\ todo = {} /\ todo' = Affected(id) /\ saved' = saved \ {id}
      /\ UNCHANGED <<phase, files, failed>>
  BY DEF LibInv, DeleteSession, Ready
<1>2. SameTops /\ \A j \in DOMAIN tops : tops'[j].data = Without(tops[j].data, id)
  BY <1>1, SessionDeleted
<1>3. \A j \in DOMAIN tops : tops[j].data \in Data
  BY <1>1, TopFits DEF TypeOK
<1>4. PICK rel : rel \in Folders
  BY LibraryAssumption
<1>5. \A p \in todo' : \E j \in DOMAIN tops : tops[j].writable /\ tops[j].path = p
  BY <1>1, HoldersWritable DEF Affected
<1>6. ASSUME NEW j \in DOMAIN tops, tops'[j].data # tops[j].data
      PROVE  tops[j].writable /\ tops[j].path \in todo'
  <2>1. j \in Holders(id)
    BY <1>2, <1>3, <1>4, <1>6, DataFits DEF Holders
  <2>2. QED
    BY <1>1, <2>1, HoldersWritable DEF Affected
<1>7. ASSUME NEW other \in saved', Holders(other) # {} PROVE Holders(other)' # {}
  <2>1. PICK j \in DOMAIN tops : other \in IdsOf(tops[j].data)
    BY <1>7 DEF Holders
  <2>2. other \in IdsOf(tops'[j].data)
    BY <1>1, <1>2, <1>3, <1>4, <2>1, DataFits
  <2>3. QED
    BY <1>2, <2>2 DEF Holders, SameTops
<1>8. QED
  BY <1>1, <1>2, <1>5, <1>6, <1>7 DEF Edited

LEMMA FolderEdits ==
  ASSUME LibInv, NEW name \in Names, NEW rel \in Folders, CreateFolder(name, rel) \/ DeleteFolder(name, rel)
  PROVE  Edited
<1>1. TypeOK /\ phase = "up" /\ todo = {} /\ UNCHANGED <<phase, files, failed>>
  BY DEF LibInv, CreateFolder, DeleteFolder, Ready
<1>2. \E i \in Home(name) : \E data \in Data :
           /\ SameTops /\ tops'[i].data = data /\ \A j \in DOMAIN tops \ {i} : tops'[j] = tops[j]
           /\ todo' = {tops[i].path} /\ saved' \subseteq saved
           /\ IdsOf(tops[i].data) \cap saved' \subseteq IdsOf(data)
  <2>1. CASE CreateFolder(name, rel)
    BY <1>1, <2>1, FolderCreated DEF CreateFolder
  <2>2. CASE DeleteFolder(name, rel)
    <3>1. PICK i \in Home(name), data \in Data :
            /\ SameTops /\ tops'[i].data = data /\ \A j \in DOMAIN tops \ {i} : tops'[j] = tops[j]
            /\ todo' = {tops[i].path}
            /\ IdsOf(tops[i].data) \subseteq IdsOf(data) \cup (saved \ saved')
                                              \cup {id \in Ids : id \notin saved}
            /\ saved' \subseteq saved
      BY <1>1, <2>2, FolderDeleted
    <3>2. IdsOf(tops[i].data) \cap saved' \subseteq IdsOf(data)
      BY <3>1
    <3>3. QED
      BY <3>1, <3>2
  <2>3. QED
    BY <2>1, <2>2
<1>3. PICK i \in Home(name) :
           /\ SameTops /\ \A j \in DOMAIN tops \ {i} : tops'[j] = tops[j]
           /\ todo' = {tops[i].path} /\ saved' \subseteq saved
           /\ IdsOf(tops[i].data) \cap saved' \subseteq IdsOf(tops'[i].data)
  BY <1>2
<1>4. i \in DOMAIN tops /\ tops[i].writable
  BY DEF Home
<1>5. ASSUME NEW id \in saved', Holders(id) # {} PROVE Holders(id)' # {}
  <2>1. PICK j \in DOMAIN tops : id \in IdsOf(tops[j].data)
    BY <1>5 DEF Holders
  <2>2. id \in IdsOf(tops'[j].data)
    BY <1>3, <2>1
  <2>3. QED
    BY <1>3, <2>2 DEF Holders, SameTops
<1>6. QED
  BY <1>1, <1>3, <1>4, <1>5 DEF Edited

LEMMA EditedKeeps == ASSUME LibInv, TypeOK', Edited PROVE LibInv'
<1>1. TypeOK /\ DOMAIN tops' = DOMAIN tops /\ UNCHANGED <<phase, disk, index, failed>>
      /\ phase = "up" /\ todo = {}
  BY DEF LibInv, Edited, SameTops
<1>2. \A i \in DOMAIN tops : /\ tops'[i].name = tops[i].name /\ tops'[i].path = tops[i].path
                             /\ tops'[i].writable = tops[i].writable
  BY DEF Edited, SameTops
<1>3. TopsDiffer'
  BY SameTopsDiffer DEF LibInv, Edited
<1>4. Quiet' /\ JustRead'
  BY <1>1 DEF Quiet, JustRead
<1>5. ReadOnly'
  BY <1>1, <1>2 DEF LibInv, ReadOnly, TopsDiffer, Edited
<1>6. FilesAgree'
  <2>1. [i \in DOMAIN tops' |-> Entry(tops'[i])] = [i \in DOMAIN tops |-> Entry(tops[i])]
    BY <1>1, <1>2 DEF Entry
  <2>2. \A i \in DOMAIN tops' : tops'[i].writable /\ tops'[i].path \notin todo' /\ ~failed =>
          disk'[tops'[i].path] = tops'[i].data
    BY <1>1, <1>2 DEF LibInv, FilesAgree, Edited
  <2>3. ~failed => index' = [i \in DOMAIN tops |-> Entry(tops[i])]
    BY <1>1 DEF LibInv, FilesAgree
  <2>4. QED
    BY <1>1, <2>1, <2>2, <2>3 DEF FilesAgree
<1>7. Kept'
  <2>1. ASSUME ~failed, NEW i \in DOMAIN tops, tops[i].writable,
               NEW id \in IdsIn(tops[i].path) \cap saved'
        PROVE  Holders(id)' # {}
    <3>1. Holders(id) # {}
      BY <2>1 DEF LibInv, Kept, Edited
    <3>2. QED
      BY <2>1, <3>1 DEF Edited
  <2>2. \A p \in Paths : IdsIn(p)' = IdsIn(p)
    BY <1>1 DEF IdsIn
  <2>3. \A i \in DOMAIN tops : tops[i].path \in Paths
    BY <1>1, TopFits DEF TypeOK
  <2>4. QED
    BY <1>1, <1>2, <2>1, <2>2, <2>3 DEF Kept
<1>8. QED
  BY <1>3, <1>4, <1>5, <1>6, <1>7 DEF LibInv
\* Reading one more file, or adding one.
LEMMA AddedKeeps ==
  ASSUME LibInv, NEW name \in Names, NEW path \in Paths, NEW readable \in BOOLEAN, ~Taken(name, path),
         tops' = Append(tops, Loaded(name, path, readable)), TypeOK', TopsDiffer', Quiet',
         UNCHANGED <<saved, failed, index>>,
         \/ phase' = "loading" /\ phase = "loading" /\ todo' = {} /\ UNCHANGED disk
         \/ /\ phase' = "up" /\ phase = "up" /\ todo = {} /\ todo' = {Index}
            /\ disk' = [disk EXCEPT ![path] = IF @ = Missing THEN Empty ELSE @]
  PROVE  LibInv'
<1> DEFINE new == Len(tops) + 1
<1>1. /\ DOMAIN tops' = DOMAIN tops \cup {new}
      /\ \A i \in DOMAIN tops : tops'[i] = tops[i]
      /\ tops'[new].path = path /\ tops'[new].data = Contents(path, readable)
      /\ tops'[new].writable = Writable(path, readable)
  BY EntryAdded, LoadedFits DEF LibInv
<1>2. \A i \in DOMAIN tops : tops[i].path # path /\ tops[i].path \in Paths
  BY TopFits DEF Taken, LibInv, TypeOK
<1> HIDE DEF new
<1>3. Missing # Corrupt /\ Missing \notin Data /\ Corrupt \notin Data /\ Empty \in Data /\ Index \notin Paths
  BY LibraryAssumption DEF Empty, Data
<1>4. /\ \A p \in Paths \ {path} : disk'[p] = disk[p]
      /\ disk'[path] = disk[path] \/ (disk[path] = Missing /\ disk'[path] = Empty)
      /\ disk \in [Paths -> Data \cup {Missing, Corrupt}]
      /\ phase' = "up" => disk'[path] # Missing
  BY <1>3 DEF LibInv, TypeOK
<1>5. todo' \subseteq {Index} /\ (phase = "loading" => todo = {})
  BY DEF LibInv, Quiet
<1>6. /\ ~Writable(path, readable) => Contents(path, readable) = Empty /\ disk[path] # Missing
      /\ Writable(path, readable) => /\ disk[path] # Corrupt
                                     /\ disk[path] = Contents(path, readable)
                                          \/ (disk[path] = Missing /\ Contents(path, readable) = Empty)
      /\ Contents(path, readable) # Missing
  BY <1>3, <1>4 DEF Writable, Contents
<1>7. ReadOnly'
  <2>1. ASSUME NEW i \in DOMAIN tops
        PROVE  /\ ~tops[i].writable => /\ tops[i].data = Empty /\ tops[i].path \notin todo'
                                       /\ disk'[tops[i].path] # Missing
               /\ tops[i].writable => disk'[tops[i].path] # Corrupt
    BY <1>2, <1>3, <1>4, <1>5 DEF LibInv, ReadOnly
  <2>2. /\ ~tops'[new].writable => /\ tops'[new].data = Empty /\ path \notin todo' /\ disk'[path] # Missing
        /\ tops'[new].writable => disk'[path] # Corrupt
    BY <1>1, <1>3, <1>4, <1>5, <1>6
  <2>3. QED
    BY <1>1, <2>1, <2>2 DEF ReadOnly
<1>8. JustRead'
  BY <1>1, <1>2, <1>4, <1>6 DEF LibInv, JustRead
<1>9. FilesAgree'
  <2>1. CASE phase' = "loading"
    BY <2>1 DEF FilesAgree
  <2>2. CASE phase' = "up"
    <3>1. ASSUME NEW i \in DOMAIN tops, tops[i].writable, ~failed PROVE disk'[tops[i].path] = tops[i].data
      BY <1>2, <1>4, <2>2, <3>1 DEF LibInv, FilesAgree
    <3>2. Writable(path, readable) => disk'[path] = Contents(path, readable)
      BY <1>3, <1>4, <1>6, <2>2
    <3>3. todo' = {Index}
      BY <2>2
    <3>4. QED
      BY <1>1, <3>1, <3>2, <3>3 DEF FilesAgree
  <2>3. QED
    BY <2>1, <2>2
<1>10. Kept'
  <2>1. \A id : Holders(id) \subseteq Holders(id)'
    BY <1>1 DEF Holders
  <2>2. ASSUME ~failed, NEW i \in DOMAIN tops, tops[i].writable,
               NEW id \in IdsIn(tops[i].path)' \cap saved
        PROVE  Holders(id)' # {}
    <3>1. id \in IdsIn(tops[i].path)
      BY <1>2, <1>4, <2>2 DEF IdsIn
    <3>2. QED
      BY <2>1, <2>2, <3>1 DEF LibInv, Kept
  <2>3. ASSUME Writable(path, readable), NEW id \in IdsIn(path)' PROVE Holders(id)' # {}
    <3>1. id \in IdsOf(Contents(path, readable))
      BY <1>3, <1>4, <1>6, <2>3, NobodyInEmpty DEF IdsIn
    <3>2. new \in Holders(id)'
      BY <1>1, <3>1 DEF Holders
    <3>3. QED
      BY <3>2
  <2>4. QED
    BY <1>1, <2>2, <2>3 DEF Kept
<1>11. QED
  BY <1>7, <1>8, <1>9, <1>10 DEF LibInv

LEMMA OpenedKeeps == ASSUME LibInv, TypeOK', Opened PROVE LibInv'
<1>1. /\ DOMAIN tops' = DOMAIN tops /\ UNCHANGED <<disk, index, saved, failed>>
      /\ \A i \in DOMAIN tops : /\ tops'[i].path = tops[i].path /\ tops'[i].writable = tops[i].writable
                                /\ tops'[i].data = tops[i].data
      /\ phase = "loading" /\ phase' = "opening"
      /\ todo' = {Index} \cup {p \in {tops[i].path : i \in DOMAIN tops} : disk[p] = Missing}
  BY OpenedTops DEF Opened, LibInv
<1>2. \A i \in DOMAIN tops : tops[i].path \in Paths
  BY TopFits DEF LibInv, TypeOK
<1>3. Index \notin Paths
  BY LibraryAssumption
<1>4. TopsDiffer' /\ Quiet' /\ JustRead'
  BY <1>1, MigratedDiffer DEF LibInv, Quiet, JustRead
<1>5. ReadOnly'
  BY <1>1, <1>2, <1>3 DEF LibInv, ReadOnly
<1>6. FilesAgree'
  BY <1>1 DEF LibInv, JustRead, FilesAgree
<1>7. Kept'
  <2>1. \A id : Holders(id)' = Holders(id) /\ \A p \in Paths : IdsIn(p)' = IdsIn(p)
    BY <1>1 DEF Holders, IdsIn
  <2>2. QED
    BY <1>1, <1>2, <2>1 DEF LibInv, Kept
<1>8. QED
  BY <1>4, <1>5, <1>6, <1>7 DEF LibInv

\* The file of a folder is written: what is in memory, and it was no corrupt file.
LEMMA WriteKeeps ==
  ASSUME LibInv, TypeOK', NEW p \in Paths \cup {Index}, Write(p) PROVE LibInv'
<1>1. /\ p \in todo /\ todo' = todo \ {p} /\ UNCHANGED <<tops, failed>> /\ phase \in {"opening", "up"}
      /\ phase' \in {"opening", "up"}
  BY DEF Write, Due, LibInv, Quiet
<1>2. \A i \in DOMAIN tops : tops[i].path \in Paths /\ tops[i].data \in Data
  BY TopFits DEF LibInv, TypeOK
<1>3. Index \notin Paths /\ Missing \notin Data /\ Corrupt \notin Data
  BY LibraryAssumption
<1>4. TopsDiffer' /\ Quiet' /\ JustRead'
  BY <1>1 DEF LibInv, TopsDiffer, Quiet, JustRead
<1>5. \A id : Holders(id)' = Holders(id)
  BY <1>1 DEF Holders
<1>6. CASE p = Index
  <2>1. index' = [i \in DOMAIN tops |-> Entry(tops[i])] /\ UNCHANGED <<disk, saved>>
    BY <1>6 DEF Write
  <2>2. ReadOnly'
    BY <1>1, <2>1 DEF LibInv, ReadOnly
  <2>3. FilesAgree'
    BY <1>1, <1>2, <1>3, <1>6, <2>1 DEF LibInv, FilesAgree
  <2>4. Kept'
    <3>1. \A q \in Paths : IdsIn(q)' = IdsIn(q)
      BY <2>1 DEF IdsIn
    <3>2. QED
      BY <1>1, <1>2, <1>5, <2>1, <3>1 DEF LibInv, Kept
  <2>5. QED
    BY <1>4, <2>2, <2>3, <2>4 DEF LibInv
<1>7. CASE p # Index
  <2>1. PICK i \in DOMAIN tops : /\ tops[i].path = p /\ disk' = [disk EXCEPT ![p] = tops[i].data]
                                 /\ saved' = saved \cup IdsOf(tops[i].data) /\ UNCHANGED index
    BY <1>7 DEF Write
  <2>2. disk'[p] = tops[i].data /\ \A q \in Paths \ {p} : disk'[q] = disk[q]
    BY <1>7, <2>1 DEF LibInv, TypeOK
  <2>3. ReadOnly'
    BY <1>1, <1>2, <1>3, <2>1, <2>2 DEF LibInv, ReadOnly
  <2>4. FilesAgree'
    <3>1. ASSUME ~failed, NEW j \in DOMAIN tops, tops[j].writable, tops[j].path \notin todo'
          PROVE  disk'[tops[j].path] = tops[j].data
      <4>1. CASE j = i
        BY <2>1, <2>2, <4>1
      <4>2. CASE j # i
        <5>1. tops[j].path # p
          BY <2>1, <4>2 DEF LibInv, TopsDiffer
        <5>2. QED
          BY <1>1, <1>2, <2>2, <3>1, <5>1 DEF LibInv, FilesAgree
      <4>3. QED
        BY <4>1, <4>2
    <3>2. Index \notin todo' /\ ~failed => index' = [j \in DOMAIN tops |-> Entry(tops[j])]
      BY <1>1, <1>7, <2>1 DEF LibInv, FilesAgree
    <3>3. QED
      BY <1>1, <3>1, <3>2 DEF FilesAgree
  <2>5. Kept'
    <3>1. ASSUME ~failed, NEW j \in DOMAIN tops, tops[j].writable,
                 NEW id \in IdsIn(tops[j].path)' \cap saved'
          PROVE  Holders(id) # {}
      <4>1. CASE id \in IdsOf(tops[i].data)
        BY <4>1 DEF Holders
      <4>2. CASE id \notin IdsOf(tops[i].data)
        <5>1. tops[j].path # p
          BY <1>1, <1>2, <2>2, <3>1, <4>2 DEF IdsIn
        <5>2. id \in IdsIn(tops[j].path) \cap saved
          BY <1>1, <1>2, <2>1, <2>2, <3>1, <4>2, <5>1 DEF IdsIn
        <5>3. QED
          BY <3>1, <5>2 DEF LibInv, Kept
      <4>3. QED
        BY <4>1, <4>2
    <3>2. QED
      BY <1>1, <1>5, <3>1 DEF Kept
  <2>6. QED
    BY <1>4, <2>3, <2>4, <2>5 DEF LibInv
<1>8. QED
  BY <1>6, <1>7

LEMMA RemovedKeeps ==
  ASSUME LibInv, TypeOK', NEW name \in Names, RemoveTopFolder(name) PROVE LibInv'
<1>1. PICK i \in DOMAIN tops : tops' = Cut(tops, i)
  BY DEF RemoveTopFolder, Cut
<1>2. /\ phase = "up" /\ todo = {} /\ todo' = {Index} /\ UNCHANGED <<phase, disk, saved, failed>>
      /\ TypeOK /\ tops \in Seq(Tops)
  BY DEF RemoveTopFolder, Ready, LibInv, TypeOK
<1>3. \A j \in DOMAIN tops' : \E k \in DOMAIN tops : tops'[j] = tops[k]
  <2>1. /\ DOMAIN tops' = 1..(Len(tops) - 1) /\ Len(tops) \in Nat /\ DOMAIN tops = 1..Len(tops)
        /\ \A j \in DOMAIN tops' : tops'[j] = tops[IF j < i THEN j ELSE j + 1]
    <3>1. DOMAIN tops' = 1..(Len(tops) - 1) /\ Len(tops) \in Nat /\ DOMAIN tops = 1..Len(tops)
      BY <1>1, <1>2, RemoveFits
    <3>2. \A j \in DOMAIN tops' : tops'[j] = tops[IF j < i THEN j ELSE j + 1]
      BY <1>1, <1>2, RemoveFits
    <3>3. QED
      BY <3>1, <3>2, Zenon
  <2>2. \A j \in 1..(Len(tops) - 1) : (IF j < i THEN j ELSE j + 1) \in 1..Len(tops)
    BY <2>1
  <2>3. QED
    BY <2>1, <2>2, Zenon
<1>4. \A k \in DOMAIN tops : tops[k].path \in Paths
  BY <1>2, TopFits
<1>5. Index \notin Paths
  BY LibraryAssumption
<1>6. TopsDiffer' /\ Quiet' /\ JustRead'
  BY <1>2, RemovedDiffer DEF LibInv, Quiet, JustRead
<1>7. ReadOnly'
  BY <1>2, <1>3, <1>4, <1>5 DEF LibInv, ReadOnly
<1>8. ~failed => \A j \in DOMAIN tops' : tops'[j].writable => disk[tops'[j].path] = tops'[j].data
  BY <1>2, <1>3 DEF LibInv, FilesAgree
<1>9. FilesAgree'
  BY <1>2, <1>8 DEF FilesAgree
<1>10. Kept'
  <2>1. ASSUME ~failed, NEW j \in DOMAIN tops', tops'[j].writable, NEW id,
               id \in (IF disk[tops'[j].path] \in Data THEN IdsOf(disk[tops'[j].path]) ELSE {})
        PROVE  j \in {k \in DOMAIN tops' : id \in IdsOf(tops'[k].data)}
    BY <1>8, <2>1
  <2>2. QED
    BY <1>2, <2>1 DEF Kept, IdsIn, Holders
<1>11. QED
  BY <1>6, <1>7, <1>9, <1>10 DEF LibInv
LEMMA InitLib == Init => LibInv
<1> SUFFICES ASSUME Init PROVE LibInv
  OBVIOUS
<1>1. DOMAIN tops = {}
  BY DEF Init
<1>2. QED
  BY <1>1, InitTypes DEF Init, LibInv, TopsDiffer, Quiet, ReadOnly, JustRead, FilesAgree, Kept

LEMMA LibStep == LibInv /\ [Next]_vars => LibInv'
<1> SUFFICES ASSUME LibInv, [Next]_vars PROVE LibInv'
  OBVIOUS
<1>1. TypeOK' /\ TopsDiffer'
  BY TypesStep, DifferStep DEF LibInv
<1>2. CASE UNCHANGED <<tops, todo, phase, disk, index, saved, failed>>
  <2>1. \A id : Holders(id)' = Holders(id) /\ \A p \in Paths : IdsIn(p)' = IdsIn(p)
    BY <1>2 DEF Holders, IdsIn
  <2>2. \A i \in DOMAIN tops : tops[i].path \in Paths
    BY TopFits DEF LibInv, TypeOK
  <2>3. Kept'
    BY <1>2, <2>1, <2>2 DEF LibInv, Kept
  <2>4. Quiet' /\ ReadOnly' /\ JustRead' /\ FilesAgree'
    BY <1>2 DEF LibInv, Quiet, ReadOnly, JustRead, FilesAgree
  <2>5. QED
    BY <1>1, <2>3, <2>4 DEF LibInv
<1>3. ASSUME tops' = <<>>, todo' = {} , phase' \notin {"opening", "up"} PROVE LibInv'
  <2>1. DOMAIN tops' = {}
    BY <1>3
  <2>2. QED
    BY <1>1, <1>3, <2>1 DEF LibInv, Quiet, ReadOnly, JustRead, FilesAgree, Kept
<1>4. CASE Start \/ Stop
  <2>1. tops' = <<>> /\ todo' = {} /\ phase' \notin {"opening", "up"}
    BY <1>4 DEF Start, Stop, LibInv, Quiet
  <2>2. QED
    BY <1>3, <2>1
<1>5. CASE LoadEntry
  <2>1. Head(loading).name \in Names /\ Head(loading).path \in Paths
    <3>1. Head(loading) \in Entries
      BY <1>5, TailFits DEF LoadEntry, LibInv, TypeOK
    <3>2. QED
      BY <3>1 DEF Entries
  <2>2. phase = "loading" /\ todo = {} /\ UNCHANGED <<phase, todo, disk, index, saved, failed>> /\ Quiet'
    BY <1>5 DEF LoadEntry, LibInv, Quiet
  <2>3. CASE UNCHANGED tops
    BY <1>2, <2>2, <2>3
  <2>4. CASE ~UNCHANGED tops
    <3>1. ~Taken(Head(loading).name, Head(loading).path)
      BY <1>5, <2>4 DEF LoadEntry
    <3>2. PICK readable \in BOOLEAN :
            tops' = Append(tops, Loaded(Head(loading).name, Head(loading).path, readable))
      BY <1>5, <2>4 DEF LoadEntry
    <3>3. QED
      BY <1>1, <2>1, <2>2, <3>1, <3>2, AddedKeeps
  <2>5. QED
    BY <2>3, <2>4
<1>6. CASE Opened
  BY <1>1, <1>6, OpenedKeeps
<1>7. CASE \E p \in Paths \cup {Index} : Write(p)
  BY <1>1, <1>7, WriteKeeps
<1>8. CASE WriteFails
  <2>1. ReadOnly' /\ JustRead'
    BY <1>8 DEF WriteFails, LibInv, ReadOnly, JustRead
  <2>2. Quiet'
    BY <1>8 DEF WriteFails, LibInv, Quiet
  <2>3. QED
    BY <1>1, <1>8, <2>1, <2>2 DEF WriteFails, LibInv, FilesAgree, Kept
<1>9. ASSUME Edited PROVE LibInv'
  BY <1>1, <1>9, EditedKeeps
<1>10. CASE OpenEditor
  BY <1>2, <1>10 DEF OpenEditor
<1>11. ASSUME NEW name \in Names, NEW rel \in Folders, SaveSession(name, rel) PROVE LibInv'
  <2>1. editor \in Ids /\ Ready
    BY <1>11 DEF SaveSession, LibInv, TypeOK
  <2>2. CASE Upsert(editor, name, rel)
    BY <1>9, <2>1, <2>2, UpsertEdits
  <2>3. CASE ~Upsert(editor, name, rel)
    BY <1>2, <1>11, <2>3 DEF SaveSession
  <2>4. QED
    BY <2>2, <2>3
<1>12. ASSUME NEW id \in Ids, NEW new \in Ids, DuplicateSession(id, new) PROVE LibInv'
  <2>1. PICK i \in DOMAIN tops : \E s \in tops[i].data.sessions : Upsert(new, tops[i].name, s.folder)
    BY <1>12 DEF DuplicateSession, Holders
  <2>2. PICK s \in tops[i].data.sessions : Upsert(new, tops[i].name, s.folder)
    BY <2>1
  <2>3. tops[i].name \in Names /\ tops[i].data \in Data
    <3>1. tops[i] \in Tops
      BY DEF LibInv, TypeOK
    <3>2. QED
      BY <3>1, TopFits
  <2>4. s.folder \in Folders
    BY <2>3 DEF Data
  <2>5. QED
    BY <1>9, <1>12, <2>2, <2>3, <2>4, UpsertEdits DEF DuplicateSession
<1>13. ASSUME NEW name \in Names, NEW p \in Paths, AddFile(name, p) PROVE LibInv'
  <2>1. PICK readable \in BOOLEAN : tops' = Append(tops, Loaded(name, p, readable))
    BY <1>13 DEF AddFile
  <2>2. /\ ~Taken(name, p) /\ phase = "up" /\ phase' = "up" /\ todo = {} /\ todo' = {Index}
        /\ disk' = [disk EXCEPT ![p] = IF @ = Missing THEN Empty ELSE @]
        /\ UNCHANGED <<index, saved, failed>>
    BY <1>13 DEF AddFile, Ready
  <2>3. Quiet'
    BY <2>2 DEF Quiet
  <2>4. QED
    BY <1>1, <2>1, <2>2, <2>3, AddedKeeps
<1>14. ASSUME NEW id \in Ids, NEW name \in Names, NEW rel \in Folders, MoveSession(id, name, rel)
       PROVE  LibInv'
  BY <1>9, <1>14, UpsertEdits DEF MoveSession
<1>15. CASE UNCHANGED vars
  BY <1>2, <1>15 DEF vars
<1>16. QED
  BY <1>1, <1>4, <1>5, <1>6, <1>7, <1>8, <1>9, <1>10, <1>11, <1>12, <1>13, <1>14, <1>15,
     DeleteEdits, FolderEdits, RemovedKeeps
     DEF Next, Opening, PanelActions, AddFolder, ConfirmDelete

\* A step that changes a file leaves a corrupt one alone and costs no session
\* that memory has not.
LEMMA StepClobbersNothing ==
  ASSUME LibInv, [Next]_vars, NEW p \in Paths
  PROVE  /\ disk[p] = Corrupt => disk'[p] = Corrupt
         /\ \A id \in IdsIn(p) \ IdsIn(p)' : failed \/ id \notin saved \/ Holders(id) # {}
<1>1. CASE disk' = disk
  BY <1>1 DEF IdsIn
<1>2. CASE \E q \in Paths \cup {Index} : Write(q)
  <2>1. PICK q \in Paths \cup {Index} : Write(q)
    BY <1>2
  <2>2. CASE q = Index
    BY <1>1, <2>1, <2>2 DEF Write
  <2>3. CASE q # Index
    <3>1. PICK i \in DOMAIN tops : tops[i].path = q /\ disk' = [disk EXCEPT ![q] = tops[i].data] /\ q \in todo
      BY <2>1, <2>3 DEF Write, Due
    <3>2. tops[i].writable /\ disk[q] # Corrupt
      <4>1. tops[i].writable \in BOOLEAN
        BY TopFits DEF LibInv, TypeOK
      <4>2. QED
        BY <3>1, <4>1 DEF LibInv, ReadOnly
    <3>3. \A r \in Paths \ {q} : disk'[r] = disk[r]
      BY <3>1 DEF LibInv, TypeOK
    <3>4. CASE p = q
      BY <3>1, <3>2, <3>4 DEF LibInv, Kept
    <3>5. CASE p # q
      BY <3>3, <3>5 DEF IdsIn
    <3>6. QED
      BY <3>4, <3>5
  <2>4. QED
    BY <2>2, <2>3
<1>3. ASSUME NEW name \in Names, NEW q \in Paths, AddFile(name, q)
      PROVE  disk'[p] = disk[p] \/ disk[p] = Missing
  BY <1>3 DEF AddFile, LibInv, TypeOK
<1>4. ASSUME disk'[p] = disk[p] \/ disk[p] = Missing
      PROVE  (disk[p] = Corrupt => disk'[p] = Corrupt) /\ IdsIn(p) \subseteq IdsIn(p)'
  BY <1>4, LibraryAssumption DEF IdsIn
<1>5. CASE \E name \in Names, q \in Paths : AddFile(name, q)
  BY <1>3, <1>4, <1>5
<1>6. CASE Start \/ LoadEntry \/ Opened \/ WriteFails \/ Stop \/ OpenEditor \/ UNCHANGED vars
  BY <1>1, <1>6 DEF Start, LoadEntry, Opened, WriteFails, Stop, OpenEditor, vars
<1>7. \A id, name, rel : Upsert(id, name, rel) => disk' = disk
  BY DEF Upsert
<1>8. CASE \/ \E id \in Ids : DeleteSession(id) \/ \E new \in Ids : DuplicateSession(id, new)
           \/ \E id \in Ids, name \in Names, rel \in Folders : MoveSession(id, name, rel)
           \/ \E name \in Names, rel \in Folders : SaveSession(name, rel)
  BY <1>1, <1>7, <1>8 DEF DeleteSession, DuplicateSession, MoveSession, SaveSession
<1>9. CASE \/ ConfirmDelete \/ \E name \in Names, rel \in Folders : CreateFolder(name, rel)
  BY <1>1, <1>9 DEF ConfirmDelete, RemoveTopFolder, DeleteFolder, CreateFolder
<1>10. QED
  BY <1>2, <1>5, <1>6, <1>8, <1>9 DEF Next, Opening, PanelActions, AddFolder

\* What the tree shows is what the files hold, apart from what the running
\* operation has still to write, until a write fails.
THEOREM TreeShowsFiles == Spec => []FilesAgree
<1>1. LibInv => FilesAgree
  BY DEF LibInv
<1>2. QED
  BY <1>1, InitLib, LibStep, PTL DEF Spec

\* No step writes over a file that could not be parsed, and none takes a session
\* out of a file that the user has not deleted and memory has lost.
THEOREM NothingIsClobbered == Spec => NothingClobbered
<1>1. LibInv /\ [Next]_vars =>
        [\A p \in Paths :
           /\ disk[p] = Corrupt => disk'[p] = Corrupt
           /\ \A id \in IdsIn(p) \ IdsIn(p)' : failed \/ id \notin saved \/ Holders(id) # {}]_vars
  BY StepClobbersNothing
<1>2. QED
  BY <1>1, InitLib, LibStep, PTL DEF Spec, NothingClobbered
================================================================================
