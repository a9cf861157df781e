------------------------------ MODULE SshForwards ------------------------------
(***************************************************************************)
(* The port forwards of one SSH session: the rows a pane keeps of them,    *)
(* the messages it sends, the branches of `pump' that start and stop them, *)
(* the task each forward runs in, the map of remote targets, and the       *)
(* server's side of remote forwards.  SshSession has the rest of the       *)
(* session; here its task is either pumping, amid stopping a forward, or   *)
(* without a connection.                                                   *)
(***************************************************************************)
EXTENDS Integers, Sequences, FiniteSets

CONSTANTS
  Forwards,     \* ForwardIds, each used once
  Remote,       \* those of kind Remote; the others are Local or Dynamic
  Binds,        \* server-side (bind_host, bind_port)
  BindOf,       \* what each remote forward asks for
  None,         \* no target registered
  ControlCap, EventCap,
  MaxAsked,     \* bound on forwards asked for in one behaviour
  MaxDrops      \* bound on lost connections

ASSUME ForwardsAssumption ==
  /\ Remote \subseteq Forwards /\ BindOf \in [Remote -> Binds] /\ None \notin Forwards
ASSUME CapsAssumption ==
  /\ ControlCap \in Nat \ {0} /\ EventCap \in Nat \ {0}
  /\ MaxAsked \in Nat /\ MaxDrops \in Nat

VARIABLES
  rows,         \* LivePane::forwards, "none" where there is no entry
  asked,        \* ids add_forward has handed out
  removed,      \* ids the user removed
  control, events,    \* the channels, forward messages only
  pc, stopping,       \* where the session's task is; the forward it stops
  forwards,     \* the keys of pump's `forwards'
  task,         \* the task of each forward
  aborted,      \* tasks whose JoinHandle was aborted
  stale,        \* remote requests that hold an earlier connection's session
  targets,      \* RemoteForwards: whose target a bind has
  link, owner,  \* the connection is up; whose listen the server granted
  drops,
  clashed       \* history: remote forwards held together with another on their bind

pane    == <<rows, asked, removed>>
backend == <<pc, stopping, forwards, aborted, stale, targets>>
server  == <<link, owner>>
vars    == <<pane, control, events, backend, task, server, drops, clashed>>

Local  == Forwards \ Remote
States == {"Starting", "Active", "Failed"}

\* A task between its spawn and its end.  It runs from await to await, so an
\* abort stops a waiting or parked one, never one amid its report.
Waiting == {"binding", "requesting", "parkedActive", "parkedFailed", "listening"}
Running == {"tellActive", "tellFailed"}

Status(id, state) == [id |-> id, state |-> state]
Ask(kind, id)     == [kind |-> kind, id |-> id]

\* The Mutant definitions of this module are wrong variants of what they precede.
RoomMutant == Len(events) <= EventCap
Room == Len(events) < EventCap

Init ==
  /\ rows = [id \in Forwards |-> "none"] /\ asked = {} /\ removed = {}
  /\ control = <<>> /\ events = <<>>
  /\ pc = "pump" /\ stopping = None /\ forwards = {}
  /\ task = [id \in Forwards |-> "none"] /\ aborted = {} /\ stale = {}
  /\ targets = [b \in Binds |-> None]
  /\ link = TRUE /\ owner = [b \in Binds |-> None] /\ drops = 0
  /\ clashed = {}

--------------------------------------------------------------------------------
(* The pane.                                                                 *)

Send(m) == control' = IF Len(control) < ControlCap THEN Append(control, m) ELSE control

\* The row shows at once, whether the message got into the channel or not.
AddForward(id) ==
  /\ id \notin asked /\ Cardinality(asked) < MaxAsked /\ asked' = asked \cup {id}
  /\ rows' = [rows EXCEPT ![id] = "Starting"] /\ Send(Ask("Add", id))
  /\ UNCHANGED <<removed, events, backend, task, server, drops, clashed>>

\* The row goes at once, likewise.
RemoveForward(id) ==
  /\ rows[id] # "none" /\ removed' = removed \cup {id}
  /\ rows' = [rows EXCEPT ![id] = "none"] /\ Send(Ask("Remove", id))
  /\ UNCHANGED <<asked, events, backend, task, server, drops, clashed>>

\* LivePane::pump: a status sets the row of its id, known or not.
PaneHears ==
  /\ events # <<>> /\ events' = Tail(events)
  /\ LET status == Head(events) IN
       rows' = [rows EXCEPT ![status.id] =
                  IF status.state = "Closed" THEN "none" ELSE status.state]
  /\ UNCHANGED <<asked, removed, control, backend, task, server, drops, clashed>>

--------------------------------------------------------------------------------
(* pump: start, stop and abort_all.                                          *)

\* The remote forwards held on the bind that id asks for.
Rivals(id) == {q \in (forwards \cap Remote) \ {id} : id \in Remote /\ BindOf[q] = BindOf[id]}

\* A remote forward's target is registered before the server is asked.
PumpAdds ==
  /\ pc = "pump" /\ control # <<>> /\ Head(control).kind = "Add"
  /\ control' = Tail(control)
  /\ LET id == Head(control).id IN
       /\ forwards' = forwards \cup {id}
       /\ task' = [task EXCEPT ![id] = IF id \in Remote THEN "requesting" ELSE "binding"]
       /\ targets' = IF id \in Remote THEN [targets EXCEPT ![BindOf[id]] = id] ELSE targets
       /\ clashed' = clashed \cup Rivals(id) \cup {q \in {id} : Rivals(id) # {}}
  /\ UNCHANGED <<pane, events, pc, stopping, aborted, stale, server, drops>>

\* What is left of the targets when id stops.
WithoutMutant(id) == targets
Without(id) == IF id \in Remote THEN [targets EXCEPT ![BindOf[id]] = None] ELSE targets

PumpRemoves ==
  /\ pc = "pump" /\ control # <<>> /\ Head(control).kind = "Remove"
  /\ control' = Tail(control)
  /\ LET id == Head(control).id IN
       IF id \in forwards
         THEN /\ forwards' = forwards \ {id} /\ stopping' = id
              /\ targets' = Without(id)
              /\ aborted' = IF id \in Local THEN aborted \cup {id} ELSE aborted
              /\ pc' = IF id \in Remote THEN "cancelling" ELSE "closing"
         ELSE UNCHANGED <<forwards, stopping, targets, aborted, pc>>
  /\ UNCHANGED <<pane, events, task, stale, server, drops, clashed>>

\* cancel_tcpip_forward; the server stops listening, whoever asked for it.
Cancelled ==
  /\ pc = "cancelling" /\ pc' = "closing"
  /\ owner' = [owner EXCEPT ![BindOf[stopping]] = None]
  /\ UNCHANGED <<pane, control, events, stopping, forwards, aborted, stale, targets,
                 task, link, drops, clashed>>

Closed ==
  /\ pc = "closing" /\ Room /\ events' = Append(events, Status(stopping, "Closed"))
  /\ pc' = "pump" /\ stopping' = None
  /\ UNCHANGED <<pane, control, forwards, aborted, stale, targets, task, server, drops, clashed>>

\* The connection is lost, or closed behind a pump that has ended.
LinkLost ==
  /\ link /\ drops < MaxDrops /\ drops' = drops + 1
  /\ link' = FALSE /\ owner' = [b \in Binds |-> None]
  /\ UNCHANGED <<pane, control, events, backend, task, clashed>>

AbortedByAllMutant == {}
AbortedByAll == forwards \ Remote

\* The pump ends, for a lost connection or only a lost shell: it aborts the
\* listeners, says nothing of it, and leaves the targets as they are.
AbortAll ==
  /\ pc = "pump" /\ pc' = "down" /\ (link => drops < MaxDrops)
  /\ forwards' = {} /\ aborted' = aborted \cup AbortedByAll
  /\ UNCHANGED <<pane, control, events, stopping, stale, targets, task, server, drops, clashed>>

\* wait_backoff takes what is sent meanwhile, and forgets it.
Swallow ==
  /\ pc = "down" /\ control # <<>> /\ control' = Tail(control)
  /\ UNCHANGED <<pane, events, backend, task, server, drops, clashed>>

\* establish: a connection of its own, with a target map of its own.
Reconnected ==
  /\ pc = "down" /\ ~link /\ pc' = "pump" /\ link' = TRUE
  /\ targets' = [b \in Binds |-> None]
  /\ stale' = {id \in Remote : task[id] = "requesting"}
  /\ UNCHANGED <<pane, control, events, stopping, forwards, aborted, task, owner, drops, clashed>>

--------------------------------------------------------------------------------
(* The task of a forward: listen, or the remote request.                     *)

TaskMoves(id, to) ==
  /\ task' = [task EXCEPT ![id] = to]
  /\ UNCHANGED <<pane, control, backend, drops, clashed>>

\* The listener binds, or cannot.
BindEnds(id) ==
  /\ task[id] = "binding" /\ id \notin aborted
  /\ \E to \in Running : TaskMoves(id, to)
  /\ UNCHANGED <<events, server>>

\* The server grants a listen on a bind it does not listen on; it may refuse any,
\* and a request on a dead connection fails.
GrantedMutant == Running
Granted == {"tellActive"}

ServerGrants(id) ==
  /\ task[id] = "requesting" /\ link /\ id \notin stale /\ owner[BindOf[id]] = None
  /\ owner' = [owner EXCEPT ![BindOf[id]] = id]
  /\ \E to \in Granted : TaskMoves(id, to)
  /\ UNCHANGED <<events, link>>

ServerRefuses(id) ==
  task[id] = "requesting" /\ TaskMoves(id, "tellFailed") /\ UNCHANGED <<events, server>>

\* The report goes out at once if there is room ...
After(id) == IF task[id] \in {"tellActive", "parkedActive"} /\ id \in Local \ aborted
             THEN "listening" ELSE "gone"
Told(id)  == IF task[id] \in {"tellActive", "parkedActive"} THEN "Active" ELSE "Failed"

Tells(id) ==
  /\ task[id] \in Running \/ (task[id] \in {"parkedActive", "parkedFailed"} /\ id \notin aborted)
  /\ Room /\ events' = Append(events, Status(id, Told(id)))
  /\ TaskMoves(id, After(id)) /\ UNCHANGED server

\* ... or the task parks until there is.
ParkedMutant(id) == "gone"
Parked(id) == IF task[id] = "tellActive" THEN "parkedActive" ELSE "parkedFailed"

Parks(id) ==
  /\ task[id] \in Running /\ ~Room
  /\ TaskMoves(id, Parked(id)) /\ UNCHANGED <<events, server>>

AbortTakes(id) ==
  /\ id \in aborted /\ task[id] \in Waiting
  /\ TaskMoves(id, "gone") /\ UNCHANGED <<events, server>>

--------------------------------------------------------------------------------

\* The session's port-forward dialog.
ForwardsDialog == \E id \in Forwards : AddForward(id) \/ RemoveForward(id)

PumpStep == PumpAdds \/ PumpRemoves \/ Cancelled \/ Closed \/ AbortAll \/ Swallow \/ Reconnected

TaskStep(id) ==
  BindEnds(id) \/ (id \in Remote /\ (ServerGrants(id) \/ ServerRefuses(id)))
    \/ Tells(id) \/ Parks(id) \/ AbortTakes(id)

Next ==
  \/ PumpStep \/ PaneHears \/ LinkLost \/ ForwardsDialog
  \/ \E id \in Forwards : TaskStep(id)

Spec == Init /\ [][Next]_vars

\* The runtime runs what can run, sockets and the server answer, the pane pumps
\* every frame.
Fairness ==
  /\ WF_vars(PumpStep) /\ WF_vars(PaneHears)
  /\ \A id \in Forwards : WF_vars(TaskStep(id))

FairSpec == Spec /\ Fairness

--------------------------------------------------------------------------------
(* Properties.                                                               *)

\* Every variable holds a value of its type, the channels respect their bounds.
TypeOK ==
  /\ rows \in [Forwards -> States \cup {"none"}]
  /\ removed \subseteq asked /\ asked \subseteq Forwards
  /\ control \in Seq([kind : {"Add", "Remove"}, id : Forwards]) /\ Len(control) <= ControlCap
  /\ events \in Seq([id : Forwards, state : {"Active", "Failed", "Closed"}])
  /\ Len(events) <= EventCap
  /\ pc \in {"pump", "cancelling", "closing", "down"} /\ stopping \in Forwards \cup {None}
  /\ forwards \subseteq asked /\ task \in [Forwards -> {"none", "gone"} \cup Waiting \cup Running]
  /\ aborted \subseteq Local /\ stale \subseteq Remote
  /\ targets \in [Binds -> Remote \cup {None}] /\ owner \in [Binds -> Remote \cup {None}]
  /\ link \in BOOLEAN /\ drops \in 0..MaxDrops /\ clashed \subseteq Remote

\* A local listener never outlives what can stop it: a local task that is not
\* aborted is one the pump of the present connection has in its hands, through
\* every order of add, remove, bind, lost link and reconnect (FR-27).  What a
\* server goes on listening on is not in the program's hands.
NoOrphanListener ==
  \A id \in Local : task[id] \in Waiting \cup Running /\ id \notin aborted
                      => id \in forwards /\ pc # "down"

\* As long as the pump runs, the server cannot have a channel delivered to the
\* target of a forward that was stopped or belonged to an earlier connection.
DeliveryIsCurrent == pc # "down" => \A b \in Binds : targets[b] # None => targets[b] \in forwards

\* Nothing about forward id is on its way between pane, pump and task.
Settled(id) ==
  /\ \A i \in 1..Len(control) : control[i].id # id
  /\ \A i \in 1..Len(events) : events[i].id # id
  /\ task[id] \in {"listening", "gone"} /\ stopping # id

\* Its listener is up; or the server listens at its request, for its target.
Works(id) == IF id \in Local THEN task[id] = "listening" /\ id \notin aborted
             ELSE owner[BindOf[id]] = id /\ targets[BindOf[id]] = id

\* The list tells the truth (FR-27): while the link is up, the row of a forward
\* the pump holds says, once the messages about it have settled, whether it
\* works, also when it was started after any number of reconnects, or on a bind
\* that another forward was removed from.  It says nothing of two remote
\* forwards that were held on one bind: targets are kept by bind, and the later
\* takes over the connections of the earlier, whose row stays.
RowsTellTruth ==
  \A id \in forwards \ (removed \cup clashed) :
    link /\ Settled(id) => rows[id] = IF Works(id) THEN "Active" ELSE "Failed"

\* A forward the pump has taken does not stay `Starting': its row settles unless
\* it is removed or its connection ends, however full the events channel.
TakenForwardsReport ==
  \A id \in Forwards :
    id \in forwards /\ rows[id] = "Starting" ~> (rows[id] # "Starting" \/ id \notin forwards)
================================================================================
