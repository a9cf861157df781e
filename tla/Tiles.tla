--------------------------------- MODULE Tiles ---------------------------------
(***************************************************************************)
(* The window: the tree of tiles, the live sessions in its panes, the      *)
(* focus, broadcast groups, and what closes a session.  One turn of `ui()' *)
(* is a frame; `step' is where in it the program is: "pump", "input" (the  *)
(* keyboard, then the session panel), "draw", and "dialogs" if a close is  *)
(* to be confirmed.  In one frame the user does one thing at most in each, *)
(* and types and uses the panel in different ones.  The dialogs that close *)
(* nothing only matter for keeping the keyboard, which any frame may do    *)
(* here.  A group has its children as a set: their order, the rectangles,  *)
(* which way a split goes, and which tab is visible are left out.          *)
(***************************************************************************)
EXTENDS Integers, FiniteSets, Functions

CONSTANTS
  Instances,    \* pane instance ids
  MaxTiles,     \* bound: tiles at one time
  None

TileIds == 1..MaxTiles
ASSUME TilesAssumption ==
  MaxTiles \in Nat /\ None \notin Instances \cup TileIds

VARIABLES
  step,
  tiles, root,  \* self.tree
  live,         \* self.live: see LivePane
  sources,      \* the keys of self.sources
  focused, multi_exec,
  confirm_close,    \* a tile, or None
  astray        \* history: keys typed in this frame went where they were not meant for

tree == <<tiles, root>>
vars == <<step, tree, live, sources, focused, multi_exec, confirm_close, astray>>

\* "closing": it has ended, and its exit action is to close the tab.
LivePane == [state : {"running", "over", "closing"}, forwards : BOOLEAN]
Kinds == {"pane", "tabs", "linear"}
Tile  == [kind : Kinds, pane : Instances \cup {None}, kids : SUBSET TileIds]
Pane(s)           == [kind |-> "pane", pane |-> s, kids |-> {}]
Group(kind, kids) == [kind |-> kind, pane |-> None, kids |-> kids]
Panes(ts)         == {t \in DOMAIN ts : ts[t].kind = "pane"}
Session(t)        == tiles[t].pane
Parents(ts, t)    == {u \in DOMAIN ts : t \in ts[u].kids}

\* A tile and all below it: subtree_contains.
Further(ts, S) == S \cup UNION {ts[u].kids : u \in S \cap DOMAIN ts}
Within(ts, t) ==
  LET down[n \in 0..MaxTiles] == IF n = 0 THEN {t} ELSE Further(ts, down[n - 1])
  IN  down[MaxTiles]
\* collect_session_ids
Sessions(ts, t) == {ts[u].pane : u \in Within(ts, t) \cap Panes(ts)}

\* The Mutant definitions of this module are wrong variants of what they precede.
\* resolve_recipients: the enabled tile around the focus with the fewest sessions.
RecipientsMutant(f) ==
  LET enabled == {t \in multi_exec : f \in Within(tiles, t)} IN
  IF enabled = {} THEN Sessions(tiles, f)
  ELSE Sessions(tiles, CHOOSE t \in enabled : \A u \in enabled :
         Cardinality(Sessions(tiles, t)) >= Cardinality(Sessions(tiles, u)))
Recipients(f) ==
  LET enabled == {t \in multi_exec : f \in Within(tiles, t)} IN
  IF enabled = {} THEN Sessions(tiles, f)
  ELSE Sessions(tiles, CHOOSE t \in enabled : \A u \in enabled :
         Cardinality(Sessions(tiles, t)) <= Cardinality(Sessions(tiles, u)))
\* receiving_sessions
Receiving == UNION {Sessions(tiles, t) : t \in multi_exec}

Init ==
  /\ step = "pump" /\ tiles = <<>> /\ root = None /\ live = <<>> /\ sources = {}
  /\ focused = None /\ multi_exec = {} /\ confirm_close = None
  /\ astray = FALSE

--------------------------------------------------------------------------------
(* The tree's operations; `ts' is the tree they work on.                     *)

\* Tile ids that nothing refers to; egui_tiles never uses one twice.
Unused(ts) == TileIds \ (DOMAIN ts \cup multi_exec \cup {focused, confirm_close})
Fresh(ts)  == CHOOSE t \in Unused(ts) : \A u \in Unused(ts) : t <= u
FreshInstance(s) ==
  s \notin {tiles[t].pane : t \in Panes(tiles)} \cup DOMAIN live

Plus(ts, t, tile) == [u \in DOMAIN ts \cup {t} |-> IF u = t THEN tile ELSE ts[u]]
\* remove_recursively
MinusMutant(ts, gone) == [u \in DOMAIN ts \ gone |-> ts[u]]
Minus(ts, gone) ==
  [u \in DOMAIN ts \ UNION {Within(ts, t) : t \in gone} |-> [ts[u] EXCEPT !.kids = @ \ gone]]

\* attach_pane and add_tab_beside, which turns a bare pane into a group in place.
AddTabBeside(at, leaf, s) ==
  LET ts == Plus(tiles, leaf, Pane(s)) IN
  IF at = None
  THEN IF root = None THEN tiles' = ts /\ root' = leaf
       ELSE IF tiles[root].kind = "tabs"
       THEN tiles' = [ts EXCEPT ![root].kids = @ \cup {leaf}] /\ UNCHANGED root
       ELSE LET g == Fresh(ts) IN tiles' = Plus(ts, g, Group("tabs", {root, leaf})) /\ root' = g
  ELSE /\ UNCHANGED root
       /\ \/ \E p \in Parents(tiles, at) :
               tiles[p].kind = "tabs" /\ tiles' = [ts EXCEPT ![p].kids = @ \cup {leaf}]
          \/ /\ \A p \in Parents(tiles, at) : tiles[p].kind # "tabs"
             /\ LET moved == Fresh(ts) IN
                tiles' = Plus(Plus(ts, moved, tiles[at]), at, Group("tabs", {moved, leaf}))

\* split_tile: the pane moves to a tile of its own, and its old tile becomes the split.
SplitTile(at, moved, leaf, s) ==
  /\ tiles' = Plus(Plus(Plus(tiles, moved, tiles[at]), leaf, Pane(s)), at, Group("linear", {moved, leaf}))
  /\ UNCHANGED root

\* close_tile, of each of a set of tiles.
CloseTilesMutant(gone) ==
  LET closed == UNION {Sessions(tiles, t) : t \in gone} IN
  /\ tiles' = Minus(tiles, gone) /\ root' = IF root \in gone THEN None ELSE root
  /\ sources' = sources \ closed /\ UNCHANGED live
CloseTiles(gone) ==
  LET closed == UNION {Sessions(tiles, t) : t \in gone} IN
  /\ tiles' = Minus(tiles, gone) /\ root' = IF root \in gone THEN None ELSE root
  /\ live' = Restrict(live, DOMAIN live \ closed) /\ sources' = sources \ closed

\* validate_focus: a visible pane, if there is one.
ValidFocus(f) ==
  IF f \in Panes(tiles') THEN focused' = f ELSE focused' \in Panes(tiles') \cup {None}

\* open_source, where the session could be opened.
OpenSource(s) ==
  /\ live' = [x \in DOMAIN live \cup {s} |->
               IF x = s THEN [state |-> "running", forwards |-> FALSE] ELSE live[x]]
  /\ sources' = sources \cup {s}

--------------------------------------------------------------------------------
(* The end of the program and the next start.                                *)

\* save and restore: of the window's state only the tree, the sources and the
\* focus are written, between frames, so that a crash is an exit at the last
\* save.  A pane whose session cannot be opened again is dropped.  Without
\* restore the program is back in Init.
Restored == {Session(t) : t \in Panes(tiles)} \cap sources

Relaunch ==
  /\ step = "pump" /\ UNCHANGED step
  /\ \E opened \in SUBSET Restored :
       LET gone == {t \in Panes(tiles) : Session(t) \notin opened} IN
       /\ tiles' = Minus(tiles, gone) /\ root' = IF root \in gone THEN None ELSE root
       /\ live' = [s \in opened |-> [state |-> "running", forwards |-> FALSE]] /\ sources' = opened
  /\ ValidFocus(focused)
  /\ multi_exec' = {} /\ confirm_close' = None /\ astray' = FALSE

--------------------------------------------------------------------------------
(* The top of a frame.                                                       *)

\* What a pump finds: the session ended; its forwards started or went.
Pumped(s) ==
  /\ step = "pump"
  /\ \/ live[s].state = "running" /\ \E how \in {"over", "closing"} : live' = [live EXCEPT ![s].state = how]
     \/ live' = [live EXCEPT ![s].forwards = ~@]
  /\ UNCHANGED <<step, tree, sources, focused, multi_exec, confirm_close, astray>>

\* close_finished_panes, validate_focus
Ended(t) ==
  Session(t) \in DOMAIN live /\ live[Session(t)].state = "closing"
PumpDone ==
  /\ step = "pump" /\ step' = "input"
  /\ CloseTiles({t \in Panes(tiles) : Ended(t)}) /\ ValidFocus(focused)
  /\ UNCHANGED <<multi_exec, confirm_close, astray>>

--------------------------------------------------------------------------------
(* route_keyboard and the session panel.                                     *)

\* No key was pressed, or a dialog or a text field has the keyboard.
Idle ==
  /\ step = "input" /\ step' = "draw"
  /\ UNCHANGED <<tree, live, sources, focused, multi_exec, confirm_close, astray>>

Routed ==
  /\ step = "input" /\ step' = "draw"
  /\ confirm_close = None /\ focused # None
IsOver(t)  == Session(t) \in DOMAIN live /\ live[Session(t)].state = "over"

\* R in the menu of a session that ended.
RestartPane ==
  /\ Routed /\ IsOver(focused) /\ Session(focused) \in sources /\ OpenSource(Session(focused))
  /\ UNCHANGED <<tree, focused, multi_exec, confirm_close, astray>>
\* Enter in it.
CloseEnded ==
  /\ Routed /\ IsOver(focused) /\ CloseTiles({focused})
  /\ UNCHANGED <<focused, multi_exec, confirm_close, astray>>

\* Where a shortcut may move the focus: pick_neighbor finds another visible pane or none.
Candidates(from) == Panes(tiles) \ {from}
Neighbors(from)  == {from} \cup Candidates(from)

\* Text, keys and pastes, with a move of the focus before or after them in the
\* frame: they go out when all of its events have been read.
Typed(f, moved) ==
  /\ Routed /\ ~IsOver(focused) /\ f \in Neighbors(focused) /\ focused' = f
  /\ LET meant == Recipients(IF moved = "after" THEN focused ELSE f) IN
     astray' = ~(Recipients(f) \subseteq meant)
  /\ UNCHANGED <<tree, live, sources, multi_exec, confirm_close>>

\* open_in_active_tile: into an empty pane, or as a tab beside the focused one.
OpenInActiveTile(s) ==
  /\ step = "input" /\ step' = "draw"
  /\ LET at == IF focused \in Panes(tiles) THEN focused ELSE None IN
     IF at # None /\ Session(at) \notin DOMAIN live
     THEN s = Session(at) /\ OpenSource(s) /\ UNCHANGED <<tree, focused>>
     ELSE LET leaf == Fresh(tiles) IN
          /\ FreshInstance(s) /\ Cardinality(Unused(tiles)) >= 2
          /\ OpenSource(s) /\ AddTabBeside(at, leaf, s) /\ focused' = leaf
  /\ UNCHANGED <<multi_exec, confirm_close, astray>>

--------------------------------------------------------------------------------
(* draw_content                                                              *)

\* A group gives way to its children; a tile moves, with what it held, to a new
\* id, and a group takes its old one; a tile moves into a group.
Dissolved(ts, g) ==
  [u \in DOMAIN ts \ {g} |->
    [ts[u] EXCEPT !.kids = IF g \in @ THEN (@ \ {g}) \cup ts[g].kids ELSE @]]
Wrapped(ts, at, kind) == Plus(Plus(ts, Fresh(ts), ts[at]), at, Group(kind, {Fresh(ts)}))
Moved(ts, t, g) ==
  [u \in DOMAIN ts |-> [ts[u] EXCEPT !.kids = IF u = g THEN @ \cup {t} ELSE @ \ {t}]]

\* egui_tiles before it lays the tree out: empty groups go, a split with one child
\* gives way to it, a bare pane gets a tab bar (if MaxTiles leaves an id for it),
\* and of two nested splits the inner one gives way if both go the same way.
Empty(t) == tiles[t].kind # "pane" /\ tiles[t].kids = {}
Alone(t) == tiles[t].kind = "linear" /\ Cardinality(tiles[t].kids) = 1
Bare(t)  == tiles[t].kind = "pane" /\ Unused(tiles) # {} /\ \A p \in Parents(tiles, t) : tiles[p].kind # "tabs"
IsTidy   == \A t \in DOMAIN tiles : ~Empty(t) /\ ~Alone(t)
Tidy(t) ==
  /\ step = "draw" /\ t \in DOMAIN tiles
  /\ \/ Empty(t) /\ tiles' = Minus(tiles, {t}) /\ root' = IF root = t THEN None ELSE root
     \/ \E kid \in TileIds : /\ Alone(t) /\ tiles[t].kids = {kid}
                             /\ tiles' = Dissolved(tiles, t) /\ root' = IF root = t THEN kid ELSE root
     \/ \E p \in Parents(tiles, t) : /\ tiles[t].kind = "linear" /\ tiles[p].kind = "linear"
                                     /\ tiles' = Dissolved(tiles, t) /\ UNCHANGED root
     \/ Bare(t) /\ tiles' = Wrapped(tiles, t, "tabs") /\ UNCHANGED root
  /\ UNCHANGED <<step, live, sources, focused, multi_exec, confirm_close, astray>>

\* The end of draw_content; `enabled' and `f' are multi_exec and focused before it.
Drawn(enabled, f) ==
  /\ step = "draw" /\ IsTidy /\ step' = IF confirm_close' = None THEN "pump" ELSE "dialogs"
  /\ multi_exec' = enabled \cap DOMAIN tiles' /\ ValidFocus(f)
  /\ astray' = FALSE
Kept == sources' = sources \cap DOMAIN live'

\* Nothing was asked for, or a click focused a pane.
Draw(f) ==
  /\ UNCHANGED <<tree, live, confirm_close>> /\ Kept /\ Drawn(multi_exec, f)
\* A tab is dropped on a tab bar, into a split or at an edge (FR-88): the tab of
\* any tile, onto any tile that is not below it.
Drag(t, at) ==
  /\ t \in DOMAIN tiles \ {root} /\ at \in DOMAIN tiles \ Within(tiles, t)
  /\ \/ tiles[at].kind # "pane" /\ t \notin tiles[at].kids /\ tiles' = Moved(tiles, t, at)
     \/ /\ Unused(tiles) # {}
        /\ \E kind \in {"tabs", "linear"} \ ({"tabs"} \cap {tiles[at].kind}) :
             tiles' = Moved(Wrapped(tiles, at, kind), t, at)
  /\ UNCHANGED <<root, live, confirm_close>> /\ Kept /\ Drawn(multi_exec, focused)
\* apply_split
Split(t, s) ==
  /\ t \in Panes(tiles) /\ FreshInstance(s) /\ Cardinality(Unused(tiles)) >= 2
  /\ LET moved == Fresh(tiles)
         leaf  == Fresh(Plus(tiles, moved, Pane(s))) IN
     SplitTile(t, moved, leaf, s) /\ UNCHANGED <<live, confirm_close>> /\ Kept /\ Drawn(multi_exec, leaf)
OpenHere(t) ==
  /\ t \in Panes(tiles) /\ Session(t) \notin DOMAIN live
  /\ OpenSource(Session(t)) /\ UNCHANGED <<tree, confirm_close>> /\ Drawn(multi_exec, t)
\* "Broadcast input to group", on a pane's parent.
Broadcast(t) ==
  /\ t \in Panes(tiles) /\ UNCHANGED <<tree, live, confirm_close>> /\ Kept
  /\ \E g \in Parents(tiles, t) :
       Drawn(IF g \in multi_exec THEN multi_exec \ {g} ELSE multi_exec \cup {g}, focused)

HasForwardsMutant(t) == Session(t) \in DOMAIN live /\ live[Session(t)].state = "over" /\ live[Session(t)].forwards
HasForwards(t) == Session(t) \in DOMAIN live /\ live[Session(t)].forwards
\* The menu's "Close", and x on the tab of a pane: on_tab_close drops the session,
\* egui_tiles the tile.
RequestClose(t) ==
  /\ t \in Panes(tiles)
  /\ IF HasForwards(t)
     THEN confirm_close' = t /\ UNCHANGED <<tree, live>> /\ Kept
     ELSE CloseTiles({t}) /\ UNCHANGED confirm_close
  /\ Drawn(multi_exec, focused)

\* x on the tab of a group: on_tab_close looks at panes only and agrees, egui_tiles
\* takes the group away and then (here at once) what was below it, and the sessions
\* stay in `live'.
CloseGroup(g) ==
  /\ g \in DOMAIN tiles \ Panes(tiles) /\ \E p \in Parents(tiles, g) : tiles[p].kind = "tabs"
  /\ tiles' = Minus(tiles, {g}) /\ UNCHANGED <<root, live, confirm_close>> /\ Kept
  /\ Drawn(multi_exec, focused)

\* pane_ui and its menu
PaneMenu(t) == OpenHere(t) \/ Broadcast(t) \/ RequestClose(t) \/ \E s \in Instances : Split(t, s)

--------------------------------------------------------------------------------
(* The dialogs.                                                              *)

AskedHasForwards == confirm_close \in Panes(tiles) /\ HasForwards(confirm_close)
KeepOpen    == UNCHANGED <<tree, live, sources>> /\ confirm_close' \in {confirm_close, None}
CloseAnyway == CloseTiles({confirm_close} \cap DOMAIN tiles) /\ confirm_close' = None

\* show_confirm_close_dialog: without forwards, or a pane, the tile is closed unasked.
Dialogs ==
  /\ step = "dialogs" /\ step' = "pump"
  /\ CloseAnyway \/ (AskedHasForwards /\ KeepOpen)
  /\ UNCHANGED <<focused, multi_exec, astray>>

Next ==
  \/ \E s \in DOMAIN live : Pumped(s)
  \/ Relaunch \/ PumpDone \/ Idle \/ RestartPane \/ CloseEnded \/ Dialogs
  \/ \E f \in TileIds, moved \in {"before", "after"} : Typed(f, moved)
  \/ \E s \in Instances : OpenInActiveTile(s)
  \/ \E f \in Panes(tiles) \cup {focused} : Draw(f)
  \/ \E t \in TileIds : Tidy(t) \/ PaneMenu(t) \/ CloseGroup(t) \/ \E at \in TileIds : Drag(t, at)

Spec == Init /\ [][Next]_vars

--------------------------------------------------------------------------------
(* Properties.                                                               *)

TypeOK ==
  /\ step \in {"pump", "input", "draw", "dialogs"}
  /\ DOMAIN tiles \subseteq TileIds /\ \A t \in DOMAIN tiles : tiles[t] \in Tile
  /\ root \in DOMAIN tiles \cup {None}
  /\ DOMAIN live \subseteq Instances
  /\ \A s \in DOMAIN live : live[s] \in LivePane
  /\ sources \subseteq Instances /\ focused \in TileIds \cup {None} /\ multi_exec \subseteq TileIds
  /\ confirm_close \in TileIds \cup {None}
  /\ astray \in BOOLEAN

\* The tree has no hole and nothing hangs off it (FR-87), each instance has one
\* pane, and between frames the sessions that can be reopened are those that are
\* open, whatever is opened, split, dragged and closed.
TreeIsSound ==
  /\ root = None => tiles = <<>>
  /\ root # None => DOMAIN tiles = Within(tiles, root)
  /\ \A t \in DOMAIN tiles :
       /\ tiles[t].kids \subseteq DOMAIN tiles
       /\ Cardinality(Parents(tiles, t)) = (IF t = root THEN 0 ELSE 1)
  /\ \A t, u \in Panes(tiles) : tiles[t].pane = tiles[u].pane => t = u
  /\ step = "pump" => sources = DOMAIN live

\* Input isolation (FR-90, FR-91): what is typed into a pane reaches that pane,
\* stays inside every broadcast group around it, goes nowhere else if there is
\* none, and everyone it reaches besides is marked (FR-93).
InputStays ==
  \A f \in Panes(tiles) :
    LET enabled == {t \in multi_exec : f \in Within(tiles, t)} IN
    /\ Session(f) \in Recipients(f)
    /\ enabled = {} => Recipients(f) = {Session(f)}
    /\ \A t \in enabled : Recipients(f) \subseteq Sessions(tiles, t)
    /\ Recipients(f) \ {Session(f)} \subseteq Receiving

\* A running session with active forwards is closed only through the confirmation
\* dialog, or because the program is quit.  (NoneUnseen is about the sessions that
\* are not closed though their pane is.)
ForwardsAreAsked ==
  [][\A s \in DOMAIN live \ DOMAIN live' :
       live[s].forwards /\ live[s].state = "running" => step = "dialogs" \/ Relaunch]_vars

\* The dialog closes the session it asked about, and no other that has forwards.
NeverSilent ==
  [][\A s \in DOMAIN live \ DOMAIN live' :
       live[s].forwards /\ live[s].state = "running" =>
         (confirm_close \in Panes(tiles) /\ Session(confirm_close) = s) \/ Relaunch]_vars

\* A tab's x drops the live terminal: no session runs on without a pane.
NoneUnseen == DOMAIN live \subseteq {tiles[t].pane : t \in Panes(tiles)}

\* Nothing reaches a session that it was not typed for.
TypedAsMeant == ~astray
================================================================================
