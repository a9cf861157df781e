---------------------------- MODULE SessionLibrary ----------------------------
(***************************************************************************)
(* The saved sessions: one JSON file per top-level folder behind the index *)
(* `library.json', the copy of all of it in memory, and the window's       *)
(* operations on them.  The window's thread runs an operation to its end,  *)
(* but each file is written by itself: a write may fail, which skips the   *)
(* rest, and the program may stop before, between and after them.          *)
(*                                                                         *)
(* Of a session the model keeps its id and its folder in the file.  A      *)
(* folder is the name of its top-level folder and the segments below it.   *)
(***************************************************************************)
EXTENDS Integers, Sequences, FiniteSets

CONSTANTS
  Ids,                \* SessionIds
  Paths, DefaultPath, \* files; sessions.json
  Folders,            \* folders within a file: sequences of segments, <<>> the root
  Names,              \* of top-level folders
  General, Legacy,    \* DEFAULT_TOP_FOLDER, LEGACY_DEFAULT_TOP_FOLDER
  Index,              \* library.json
  None, Missing, Corrupt,
  MaxEntries,         \* bound: entries of the index the program finds
  MaxOps              \* bound: operations of the window, over all runs

Data    == [folders : SUBSET (Folders \ {<<>>}), sessions : SUBSET [id : Ids, folder : Folders]]
Entries == [name : Names, path : Paths]
Tops    == [name : Names, path : Paths, data : Data, writable : BOOLEAN]

ASSUME LibraryAssumption ==
  /\ DefaultPath \in Paths /\ {General, Legacy} \subseteq Names /\ General # Legacy
  /\ Index \notin Paths /\ None \notin Ids
  /\ \A f \in Folders : f \in Seq(STRING)
  /\ <<>> \in Folders
  /\ MaxEntries \in Nat /\ MaxOps \in Nat
  /\ Missing # Corrupt /\ {Missing, Corrupt} \cap Data = {}

VARIABLES
  phase,    \* "down", "loading", "opening", "up", or "without": open_in failed
  loading,  \* the index's entries still to be loaded
  tops,     \* self.tops
  todo,     \* what the running operation has still to write
  editor,   \* the session the editor is open on
  disk, index,      \* the files
  ops,
  saved,    \* history: the sessions ever in a file that the user did not delete
  failed    \* history: a write of this run failed

files == <<disk, index>>
vars  == <<phase, loading, tops, todo, editor, files, ops, saved, failed>>

Empty == [folders |-> {}, sessions |-> {}]
IdsOf(data) == {s.id : s \in data.sessions}
IdsIn(p)    == IF disk[p] \in Data THEN IdsOf(disk[p]) ELSE {}
OnDisk      == UNION {IdsIn(p) : p \in Paths}
Holders(id) == {i \in DOMAIN tops : id \in IdsOf(tops[i].data)}
Listed      == {id \in Ids : Holders(id) # {}}
Entry(top)  == [name |-> top.name, path |-> top.path]

\* The Mutant definitions of this module are wrong variants of what they precede.
\* load_entry: a missing file is an empty folder; one that cannot be read or
\* parsed looks empty as well, and is read-only.
ContentsMutant(path, readable) == IF disk[path] = Missing \/ ~readable THEN Empty ELSE disk[path]
Contents(path, readable) == IF disk[path] \in Data /\ readable THEN disk[path] ELSE Empty
WritableMutant(path, readable) == TRUE
Writable(path, readable) == disk[path] = Missing \/ (disk[path] \in Data /\ readable)
Loaded(name, path, readable) ==
  [name |-> name, path |-> path, data |-> Contents(path, readable), writable |-> Writable(path, readable)]

\* The files of an earlier run, or of other people, edited or copied by hand: an id
\* may be in two of them, the index may name a file or a folder twice.
Init ==
  /\ phase = "down" /\ loading = <<>> /\ tops = <<>> /\ todo = {} /\ editor = None
  /\ disk \in [Paths -> Data \cup {Missing, Corrupt}]
  /\ \A p \in Paths : disk[p] \in Data =>
       \A s, t \in disk[p].sessions : s.id = t.id => s = t
  /\ index \in UNION {[1..n -> Entries] : n \in 0..MaxEntries}
  /\ saved = OnDisk /\ failed = FALSE /\ ops = 0

--------------------------------------------------------------------------------
(* open_in                                                                   *)

Start ==
  /\ phase = "down" /\ failed' = FALSE
  /\ \/ phase' = "loading"
        /\ loading' = IF index = <<>> THEN <<[name |-> General, path |-> DefaultPath]>> ELSE index
     \/ phase' = "without" /\ UNCHANGED loading    \* library.json cannot be read
  /\ UNCHANGED <<tops, todo, editor, files, ops, saved>>

Taken(name, path) == \E i \in DOMAIN tops : tops[i].name = name \/ tops[i].path = path

LoadEntry ==
  /\ phase = "loading" /\ loading # <<>> /\ loading' = Tail(loading)
  /\ LET e == Head(loading) IN
     IF Taken(e.name, e.path) THEN UNCHANGED tops
     ELSE \E readable \in BOOLEAN : tops' = Append(tops, Loaded(e.name, e.path, readable))
  /\ UNCHANGED <<phase, todo, editor, files, ops, saved, failed>>

\* migrate_legacy_default: the name of the i-th top-level folder.
MigratedMutant(i) ==
  IF tops[i].name = Legacy /\ tops[i].data = Empty THEN General ELSE tops[i].name
Migrated(i) ==
  IF tops[i].name = Legacy /\ tops[i].data = Empty /\ \A j \in DOMAIN tops : tops[j].name # General
  THEN General ELSE tops[i].name

Opened ==
  /\ phase = "loading" /\ loading = <<>> /\ phase' = "opening"
  /\ tops' = [i \in DOMAIN tops |-> [tops[i] EXCEPT !.name = Migrated(i)]]
  /\ todo' = {Index} \cup {p \in {tops[i].path : i \in DOMAIN tops} : disk[p] = Missing}
  /\ UNCHANGED <<loading, editor, files, ops, saved, failed>>

--------------------------------------------------------------------------------
(* save_index, save_top: the index first, then the files in the tree's order. *)

Due(p) ==
  /\ p \in todo
  /\ p # Index => /\ Index \notin todo
                  /\ \E i \in DOMAIN tops : tops[i].path = p /\ \A j \in 1..(i-1) : tops[j].path \notin todo

Write(p) ==
  /\ Due(p) /\ todo' = todo \ {p}
  /\ phase' = IF todo' = {} /\ phase = "opening" THEN "up" ELSE phase
  /\ IF p = Index
     THEN index' = [i \in DOMAIN tops |-> Entry(tops[i])] /\ UNCHANGED <<disk, saved>>
     ELSE \E i \in DOMAIN tops :
            /\ tops[i].path = p /\ disk' = [disk EXCEPT ![p] = tops[i].data]
            /\ saved' = saved \cup IdsOf(tops[i].data) /\ UNCHANGED index
  /\ UNCHANGED <<loading, tops, editor, ops, failed>>

\* The temporary file cannot be written or renamed: the old file stays, and `?'
\* ends the operation, its change to memory made.
WriteFails ==
  /\ todo # {} /\ todo' = {} /\ failed' = TRUE
  /\ phase' = IF phase = "opening" THEN "without" ELSE phase
  /\ UNCHANGED <<loading, tops, editor, files, ops, saved>>

--------------------------------------------------------------------------------
(* The operations.                                                           *)

Ready == phase = "up" /\ todo = {} /\ ops < MaxOps /\ ops' = ops + 1
\* locate and ensure_writable
Home(name) == {i \in DOMAIN tops : tops[i].name = name /\ tops[i].writable}

Without(data, id) == [data EXCEPT !.sessions = {s \in @ : s.id # id}]
With(data, id, rel) == [Without(data, id) EXCEPT !.sessions = @ \cup {[id |-> id, folder |-> rel]}]

AffectedMutant(id) == {}
Affected(id) == {tops[i].path : i \in Holders(id)}

\* upsert_session, where there is a place to put it; else nothing changes.
Upsert(id, name, rel) ==
  \E i \in Home(name) :
    /\ tops' = [j \in DOMAIN tops |->
                 [tops[j] EXCEPT !.data = IF j = i THEN With(@, id, rel) ELSE Without(@, id)]]
    /\ todo' = Affected(id) \cup {tops[i].path}
    /\ UNCHANGED <<phase, loading, files, saved, failed>>

\* NewSession and EditSession; the tree can be used while the editor is open.
OpenEditor ==
  /\ phase = "up" /\ todo = {} /\ editor = None /\ UNCHANGED ops
  /\ \E id \in (Ids \ (saved \cup OnDisk)) \cup Listed : editor' = id
  /\ UNCHANGED <<phase, loading, tops, todo, files, saved, failed>>
\* The editor closes whether or not the session could be saved.
SaveSession(name, rel) ==
  /\ Ready /\ editor # None /\ editor' = None
  /\ \/ Upsert(editor, name, rel)
     \/ Home(name) = {} /\ UNCHANGED <<phase, loading, tops, todo, files, saved, failed>>

MoveSession(id, name, rel) == Ready /\ id \in Listed /\ Upsert(id, name, rel) /\ UNCHANGED editor

\* get_session finds the first.
DuplicateSession(id, new) ==
  /\ Ready /\ id \in Listed /\ new \notin Listed \cup saved \cup OnDisk /\ new # editor
  /\ \E i \in Holders(id) : \E s \in tops[i].data.sessions :
       /\ \A j \in Holders(id) : i <= j
       /\ s.id = id /\ Upsert(new, tops[i].name, s.folder)
  /\ UNCHANGED editor

DeleteSession(id) ==
  /\ Ready /\ id \in Listed
  /\ tops' = [i \in DOMAIN tops |-> [tops[i] EXCEPT !.data = Without(@, id)]]
  /\ todo' = Affected(id) /\ saved' = saved \ {id}
  /\ UNCHANGED <<phase, loading, editor, files, failed>>

CreateFolder(name, rel) ==
  /\ Ready /\ rel # <<>>
  /\ \E i \in Home(name) :
       /\ rel \notin tops[i].data.folders
       /\ tops' = [tops EXCEPT ![i].data.folders = @ \cup {rel}] /\ todo' = {tops[i].path}
  /\ UNCHANGED <<phase, loading, editor, files, saved, failed>>

IsWithin(base, folder) == Len(folder) >= Len(base) /\ SubSeq(folder, 1, Len(base)) = base

DeleteFolder(name, rel) ==
  /\ Ready /\ rel # <<>>
  /\ \E i \in Home(name) :
       LET gone == {s \in tops[i].data.sessions : IsWithin(rel, s.folder)} IN
       /\ tops' = [tops EXCEPT ![i].data =
                    [folders |-> {f \in @.folders : ~IsWithin(rel, f)}, sessions |-> @.sessions \ gone]]
       /\ todo' = {tops[i].path} /\ saved' = saved \ {s.id : s \in gone}
  /\ UNCHANGED <<phase, loading, editor, files, failed>>

\* A file that does not exist is created first; if that fails nothing changes.
AddFile(name, path) ==
  /\ Ready /\ ~Taken(name, path)
  /\ disk' = [disk EXCEPT ![path] = IF @ = Missing THEN Empty ELSE @]
  /\ \E readable \in BOOLEAN : tops' = Append(tops, Loaded(name, path, readable))
  /\ todo' = {Index}
  /\ UNCHANGED <<phase, loading, editor, index, saved, failed>>

RemoveTopFolder(name) ==
  /\ Ready
  /\ \E i \in DOMAIN tops :
       /\ tops[i].name = name
       /\ tops' = SubSeq(tops, 1, i - 1) \o SubSeq(tops, i + 1, Len(tops))
  /\ todo' = {Index}
  /\ UNCHANGED <<phase, loading, editor, files, saved, failed>>

\* The window closes, or the program or the machine dies.
Stop ==
  /\ phase # "down" /\ phase' = "down"
  /\ loading' = <<>> /\ tops' = <<>> /\ todo' = {} /\ editor' = None
  /\ UNCHANGED <<files, ops, saved, failed>>

\* What the session panel asks for, the "new folder" dialog, the "delete" dialog.
PanelActions ==
  \/ OpenEditor \/ \E id \in Ids : DeleteSession(id) \/ \E new \in Ids : DuplicateSession(id, new)
  \/ \E id \in Ids, name \in Names, rel \in Folders : MoveSession(id, name, rel)
AddFolder == \E name \in Names, p \in Paths : AddFile(name, p)
ConfirmDelete ==
  \E name \in Names : RemoveTopFolder(name) \/ \E rel \in Folders : DeleteFolder(name, rel)

Opening == Start \/ LoadEntry \/ Opened
Next ==
  \/ Opening \/ WriteFails \/ Stop \/ PanelActions \/ AddFolder \/ ConfirmDelete
  \/ \E p \in Paths \cup {Index} : Write(p)
  \/ \E name \in Names, rel \in Folders : SaveSession(name, rel) \/ CreateFolder(name, rel)

Spec == Init /\ [][Next]_vars

--------------------------------------------------------------------------------
(* Properties.                                                               *)

TypeOK ==
  /\ phase \in {"down", "loading", "opening", "up", "without"}
  /\ loading \in Seq(Entries) /\ tops \in Seq(Tops)
  /\ todo \subseteq Paths \cup {Index} /\ editor \in Ids \cup {None}
  /\ disk \in [Paths -> Data \cup {Missing, Corrupt}] /\ index \in Seq(Entries)
  /\ ops \in Nat /\ saved \subseteq Ids /\ failed \in BOOLEAN

\* No two top-level folders have one name or one path: not after a migration,
\* an index somebody edited, or a long sequence of additions and removals.  (Two
\* spellings of one file are two paths, for `load_entry' and `add_file' as here.)
TopsDiffer ==
  \A i, j \in DOMAIN tops : i # j => tops[i].name # tops[j].name /\ tops[i].path # tops[j].path

\* Unless a write failed, what the tree shows is what the files hold, apart
\* from the files the running operation has still to write.
FilesAgree ==
  phase \in {"opening", "up"} /\ ~failed =>
    /\ Index \notin todo => index = [i \in DOMAIN tops |-> Entry(tops[i])]
    /\ \A i \in DOMAIN tops :
         tops[i].writable /\ tops[i].path \notin todo => disk[tops[i].path] = tops[i].data

\* What cannot be parsed is never written over, and unless a write failed before, a
\* session leaves a file only if the user deleted it or memory has it still: no
\* failed read, removed folder or restart costs a session.
NothingClobbered ==
  [][\A p \in Paths :
       /\ disk[p] = Corrupt => disk'[p] = Corrupt
       /\ \A id \in IdsIn(p) \ IdsIn(p)' : failed \/ id \notin saved \/ Holders(id) # {}]_vars

\* When the program is not running, every saved session that the user did not
\* delete is in some file.
SavedStay == phase = "down" => saved \subseteq OnDisk
================================================================================
