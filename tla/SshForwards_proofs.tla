-------------------------- MODULE SshForwards_proofs --------------------------
(***************************************************************************)
(* What holds of the forwards of a session for every set of forwards,      *)
(* binds and channel capacities.                                           *)
(***************************************************************************)
EXTENDS SshForwards, TLAPS

USE DEF pane, backend, server

\* The tasks, and the targets with the forward each came from.
TargetsInv ==
  /\ task \in [Forwards -> {"none", "gone"} \cup Waiting \cup Running]
  /\ targets \in [Binds -> Remote \cup {None}]
  /\ \A b \in Binds : targets[b] # None =>
       (pc # "down" => targets[b] \in forwards) /\ BindOf[targets[b]] = b
  /\ control \in Seq([kind : {"Add", "Remove"}, id : Forwards])

\* Messages stay well typed in the control channel.
LEMMA ControlStep ==
  ASSUME control \in Seq([kind : {"Add", "Remove"}, id : Forwards]), [Next]_vars
  PROVE  control' \in Seq([kind : {"Add", "Remove"}, id : Forwards])
<1> DEFINE Asks == [kind : {"Add", "Remove"}, id : Forwards]
<1>1. \/ UNCHANGED control
      \/ control # <<>> /\ control' = Tail(control)
      \/ \E m \in Asks : control' = Append(control, m)
  <2>1. ASSUME NEW id \in Forwards, AddForward(id) \/ RemoveForward(id)
        PROVE  UNCHANGED control \/ \E m \in Asks : control' = Append(control, m)
    <3>1. Ask("Add", id) \in Asks /\ Ask("Remove", id) \in Asks
      BY DEF Ask
    <3>2. QED
      BY <2>1, <3>1 DEF AddForward, RemoveForward, Send
  <2>2. CASE PumpStep
    BY <2>2 DEF PumpStep, PumpAdds, PumpRemoves, Cancelled, Closed, AbortAll, Swallow,
         Reconnected
  <2>3. ASSUME NEW id \in Forwards, TaskStep(id) PROVE UNCHANGED control
    BY <2>3 DEF TaskStep, BindEnds, ServerGrants, ServerRefuses, Tells, Parks, AbortTakes,
         TaskMoves
  <2>4. CASE PaneHears \/ LinkLost \/ UNCHANGED vars
    BY <2>4 DEF PaneHears, LinkLost, vars
  <2>5. QED
    BY <2>1, <2>2, <2>3, <2>4 DEF Next, ForwardsDialog
<1>2. CASE UNCHANGED control
  BY <1>2
<1>3. CASE control # <<>> /\ control' = Tail(control)
  BY <1>3
<1>4. ASSUME NEW m \in Asks, control' = Append(control, m) PROVE control' \in Seq(Asks)
  BY <1>4
<1> HIDE DEF Asks
<1>5. control' \in Seq(Asks)
  BY <1>1, <1>2, <1>3, <1>4 DEF Asks
<1>6. QED
  BY <1>5 DEF Asks

LEMMA HeadAsks ==
  ASSUME control \in Seq([kind : {"Add", "Remove"}, id : Forwards]), control # <<>>
  PROVE  Head(control).id \in Forwards
<1>1. Head(control) \in [kind : {"Add", "Remove"}, id : Forwards]
  <2> DEFINE Asks == [kind : {"Add", "Remove"}, id : Forwards]
  <2>1. control \in Seq(Asks)
    OBVIOUS
  <2> HIDE DEF Asks
  <2>2. Head(control) \in Asks
    BY <2>1
  <2>3. QED
    BY <2>2 DEF Asks
<1>2. QED
  BY <1>1

\* A remote forward's target goes when the forward goes, and comes with it.
LEMMA TargetsStep == TargetsInv /\ [Next]_vars => TargetsInv'
<1> SUFFICES ASSUME TargetsInv, [Next]_vars PROVE TargetsInv'
  OBVIOUS
<1>1. control' \in Seq([kind : {"Add", "Remove"}, id : Forwards])
  BY ControlStep DEF TargetsInv
<1>2. control # <<>> => Head(control).id \in Forwards
  BY HeadAsks DEF TargetsInv
<1> USE DEF TargetsInv
<1>3. CASE PumpAdds
  <2>1. PICK id \in Forwards : id = Head(control).id
    BY <1>2, <1>3 DEF PumpAdds
  <2>2. task' \in [Forwards -> {"none", "gone"} \cup Waiting \cup Running]
    BY <1>3, <2>1 DEF PumpAdds, Waiting
  <2>3. /\ forwards' = forwards \cup {id}
        /\ targets' = IF id \in Remote THEN [targets EXCEPT ![BindOf[id]] = id] ELSE targets
    BY <1>3, <2>1 DEF PumpAdds
  <2>4. pc # "down" /\ (id \in Remote => BindOf[id] \in Binds)
    BY <1>3, ForwardsAssumption DEF PumpAdds
  <2>5. QED
    BY <1>1, <2>2, <2>3, <2>4
<1>4. CASE PumpRemoves
  <2>1. PICK id \in Forwards : id = Head(control).id
    BY <1>2, <1>4 DEF PumpRemoves
  <2>2. CASE id \notin forwards
    BY <1>1, <1>4, <2>1, <2>2 DEF PumpRemoves
  <2>3. CASE id \in forwards
    <3>1. forwards' = forwards \ {id} /\ targets' = Without(id) /\ UNCHANGED task /\ pc # "down"
      BY <1>4, <2>1, <2>3 DEF PumpRemoves
    <3>2. id \in Remote => BindOf[id] \in Binds
      BY ForwardsAssumption
    <3>3. targets' \in [Binds -> Remote \cup {None}]
      BY <3>1, <3>2 DEF Without
    <3>4. ASSUME NEW b \in Binds, targets'[b] # None
          PROVE  targets'[b] \in forwards' /\ BindOf[targets'[b]] = b
      <4>1. targets'[b] = targets[b] /\ (id \in Remote => b # BindOf[id])
        BY <3>1, <3>2, <3>4 DEF Without
      <4>2. targets[b] \in forwards /\ BindOf[targets[b]] = b /\ targets[b] \in Remote
        BY <3>1, <3>4, <4>1
      <4>3. targets[b] # id
        BY <4>1, <4>2
      <4>4. QED
        BY <3>1, <4>1, <4>2, <4>3
    <3>5. QED
      BY <1>1, <3>1, <3>3, <3>4
  <2>4. QED
    BY <2>2, <2>3
<1>5. CASE AbortAll
  BY <1>1, <1>5 DEF AbortAll
<1>6. CASE Cancelled \/ Closed \/ Swallow \/ Reconnected \/ PaneHears \/ LinkLost
             \/ UNCHANGED vars
  BY <1>1, <1>6 DEF Cancelled, Closed, Swallow, Reconnected, PaneHears, LinkLost, vars
<1>7. ASSUME NEW id \in Forwards, AddForward(id) \/ RemoveForward(id) PROVE TargetsInv'
  BY <1>1, <1>7 DEF AddForward, RemoveForward
<1>8. ASSUME NEW id \in Forwards, TaskStep(id) PROVE TargetsInv'
  <2>1. UNCHANGED <<targets, forwards, pc>>
    BY <1>8 DEF TaskStep, BindEnds, ServerGrants, ServerRefuses, Tells, Parks, AbortTakes,
         TaskMoves
  <2>2. \E to \in {"gone"} \cup Waiting \cup Running : task' = [task EXCEPT ![id] = to]
    BY <1>8 DEF TaskStep, BindEnds, ServerGrants, ServerRefuses, Tells, Parks, AbortTakes,
         TaskMoves, Granted, After, Parked, Waiting, Running
  <2>3. task' \in [Forwards -> {"none", "gone"} \cup Waiting \cup Running]
    BY <2>2
  <2>4. QED
    BY <1>1, <2>1, <2>3
<1>9. QED
  BY <1>3, <1>4, <1>5, <1>6, <1>7, <1>8 DEF Next, ForwardsDialog, PumpStep

\* The tasks that run are the pump's: nothing else could stop them.
LEMMA ListenersStep == TargetsInv /\ NoOrphanListener /\ [Next]_vars => NoOrphanListener'
<1> SUFFICES ASSUME TargetsInv, NoOrphanListener, [Next]_vars PROVE NoOrphanListener'
  OBVIOUS
<1>2. control # <<>> => Head(control).id \in Forwards
  BY HeadAsks DEF TargetsInv
<1> USE DEF NoOrphanListener, Local
<1>0. task \in [Forwards -> {"none", "gone"} \cup Waiting \cup Running]
  BY DEF TargetsInv
<1>3. CASE PumpAdds
  <2>1. PICK id \in Forwards : id = Head(control).id
    BY <1>2, <1>3 DEF PumpAdds
  <2>2. \A r \in Forwards : r # id => task'[r] = task[r]
    BY <1>0, <1>3, <2>1 DEF PumpAdds
  <2>3. QED
    BY <1>3, <2>1, <2>2 DEF PumpAdds
<1>4. CASE PumpRemoves
  BY <1>2, <1>4 DEF PumpRemoves
<1>5. CASE AbortAll
  BY <1>5 DEF AbortAll, AbortedByAll
<1>6. CASE Cancelled \/ Closed \/ Swallow \/ Reconnected \/ PaneHears \/ LinkLost
             \/ UNCHANGED vars
  BY <1>6 DEF Cancelled, Closed, Swallow, Reconnected, PaneHears, LinkLost, vars
<1>7. ASSUME NEW id \in Forwards, AddForward(id) \/ RemoveForward(id)
      PROVE  NoOrphanListener'
  BY <1>7 DEF AddForward, RemoveForward
<1>8. ASSUME NEW id \in Forwards, TaskStep(id) PROVE NoOrphanListener'
  <2>1. UNCHANGED <<aborted, forwards, pc>>
    BY <1>8 DEF TaskStep, BindEnds, ServerGrants, ServerRefuses, Tells, Parks, AbortTakes,
         TaskMoves
  <2>2. task[id] \in Waiting \cup Running
    BY <1>8 DEF TaskStep, BindEnds, ServerGrants, ServerRefuses, Tells, Parks, AbortTakes,
         Waiting, Running
  <2>3. \A r \in Forwards : r # id => task'[r] = task[r]
    BY <1>0, <1>8 DEF TaskStep, BindEnds, ServerGrants, ServerRefuses, Tells, Parks, AbortTakes,
         TaskMoves
  <2>4. QED
    BY <2>1, <2>2, <2>3
<1>9. QED
  BY <1>3, <1>4, <1>5, <1>6, <1>7, <1>8 DEF Next, ForwardsDialog, PumpStep

LEMMA InitForwards == Init => TargetsInv /\ NoOrphanListener
  BY DEF Init, TargetsInv, NoOrphanListener, Local, Waiting, Running

\* FR-27: through every order of add, remove, bind, lost link and reconnect, a
\* listener that is not being stopped is one the pump can stop.
THEOREM ListenersAreOwned == Spec => []NoOrphanListener
<1>1. TargetsInv /\ NoOrphanListener /\ [Next]_vars => (TargetsInv /\ NoOrphanListener)'
  BY TargetsStep, ListenersStep
<1>2. QED
  BY <1>1, InitForwards, PTL DEF Spec

\* FR-25: what the server delivers reaches only the target of a forward that has
\* not been stopped, of this connection.
THEOREM TargetsAreCurrent == Spec => []DeliveryIsCurrent
<1>1. TargetsInv => DeliveryIsCurrent
  BY DEF TargetsInv, DeliveryIsCurrent
<1>2. QED
  BY <1>1, InitForwards, TargetsStep, PTL DEF Spec

--------------------------------------------------------------------------------
(* Types.                                                                    *)

Asks     == [kind : {"Add", "Remove"}, id : Forwards]
Statuses == [id : Forwards, state : {"Active", "Failed", "Closed"}]
Tasks    == {"none", "gone"} \cup Waiting \cup Running

\* Nothing is about a forward that nobody asked for.
TypeInv ==
  /\ TypeOK
  /\ pc = "cancelling" => stopping \in Remote
  /\ pc \in {"cancelling", "closing"} => stopping \in asked
  /\ \A i \in 1..Len(control) : control[i].id \in asked
  /\ \A i \in 1..Len(events) : events[i].id \in asked
  /\ \A id \in Forwards : rows[id] # "none" \/ task[id] # "none" => id \in asked

LEMMA AppendFits ==
  ASSUME NEW S, NEW q \in Seq(S), NEW e \in S
  PROVE  /\ Append(q, e) \in Seq(S) /\ Len(Append(q, e)) = Len(q) + 1 /\ Len(q) \in Nat
         /\ \A i \in 1..Len(q) : Append(q, e)[i] = q[i]
         /\ Append(q, e)[Len(q) + 1] = e
  OBVIOUS

LEMMA TailFits ==
  ASSUME NEW S, NEW q \in Seq(S), q # <<>>
  PROVE  /\ Tail(q) \in Seq(S) /\ Len(Tail(q)) = Len(q) - 1 /\ Len(q) \in Nat \ {0}
         /\ \A i \in 1..(Len(q) - 1) : Tail(q)[i] = q[i + 1]
         /\ Head(q) = q[1] /\ Head(q) \in S
  OBVIOUS

LEMMA ControlTypes ==
  TypeOK => control \in Seq(Asks) /\ events \in Seq(Statuses) /\ task \in [Forwards -> Tasks]
BY DEF TypeOK, Asks, Statuses, Tasks

LEMMA AsksOf ==
  ASSUME TypeOK
  PROVE  \A i \in 1..Len(control) : /\ control[i] \in Asks /\ control[i].id \in Forwards
                                    /\ control[i] = Ask(control[i].kind, control[i].id)
<1>1. \A i \in 1..Len(control) : control[i] \in Asks
  BY ControlTypes
<1>2. \A m \in Asks : m.id \in Forwards /\ m = Ask(m.kind, m.id)
  BY DEF Asks, Ask
<1>3. QED
  BY <1>1, <1>2

\* Taking a message.
LEMMA TakesAsk ==
  ASSUME TypeInv, control # <<>>, control' = Tail(control), asked' = asked
  PROVE  /\ control' \in Seq(Asks) /\ Len(control') <= ControlCap
         /\ \A i \in 1..Len(control') : control'[i].id \in asked'
         /\ Head(control) \in Asks /\ Head(control).id \in asked
<1>1. control \in Seq(Asks) /\ Len(control) <= ControlCap /\ ControlCap \in Nat
  BY ControlTypes, CapsAssumption DEF TypeInv, TypeOK
<1>2. /\ control' \in Seq(Asks) /\ Len(control') = Len(control) - 1 /\ Len(control) \in Nat \ {0}
      /\ \A i \in 1..(Len(control) - 1) : control'[i] = control[i + 1]
      /\ Head(control) = control[1] /\ Head(control) \in Asks
  BY <1>1, TailFits
<1>3. \A i \in 1..Len(control') : i + 1 \in 1..Len(control)
  BY <1>2
<1>4. 1 \in 1..Len(control)
  BY <1>2
<1>5. QED
  BY <1>1, <1>2, <1>3, <1>4 DEF TypeInv

\* Sending one, or not.
LEMMA SendsAsk ==
  ASSUME TypeInv, NEW m \in Asks, Send(m), m.id \in asked', asked \subseteq asked'
  PROVE  /\ control' \in Seq(Asks) /\ Len(control') <= ControlCap
         /\ \A i \in 1..Len(control') : control'[i].id \in asked'
<1>1. control \in Seq(Asks) /\ Len(control) <= ControlCap /\ ControlCap \in Nat
  BY ControlTypes, CapsAssumption DEF TypeInv, TypeOK
<1>2. CASE control' = control
  BY <1>1, <1>2 DEF TypeInv
<1>3. CASE Len(control) < ControlCap /\ control' = Append(control, m)
  <2>1. /\ control' \in Seq(Asks) /\ Len(control') = Len(control) + 1 /\ Len(control) \in Nat
        /\ \A i \in 1..Len(control) : control'[i] = control[i]
        /\ control'[Len(control) + 1] = m
    BY <1>1, <1>3, AppendFits
  <2>2. \A i \in 1..Len(control') : i \in 1..Len(control) \/ i = Len(control) + 1
    BY <2>1
  <2>3. QED
    BY <1>1, <1>3, <2>1, <2>2 DEF TypeInv
<1>4. QED
  BY <1>2, <1>3 DEF Send

\* Telling a status, and hearing one.
LEMMA EventsFit ==
  ASSUME TypeInv, asked' = asked,
         \/ events' = events
         \/ events # <<>> /\ events' = Tail(events)
         \/ Room /\ \E e \in Statuses : e.id \in asked /\ events' = Append(events, e)
  PROVE  /\ events' \in Seq(Statuses) /\ Len(events') <= EventCap
         /\ \A i \in 1..Len(events') : events'[i].id \in asked'
<1>1. /\ events \in Seq(Statuses) /\ Len(events) <= EventCap /\ EventCap \in Nat
      /\ \A i \in 1..Len(events) : events[i].id \in asked
  BY ControlTypes, CapsAssumption DEF TypeOK, TypeInv
<1>2. CASE events # <<>> /\ events' = Tail(events)
  <2>1. /\ events' \in Seq(Statuses) /\ Len(events') = Len(events) - 1 /\ Len(events) \in Nat \ {0}
        /\ \A i \in 1..(Len(events) - 1) : events'[i] = events[i + 1]
    BY <1>1, <1>2, TailFits
  <2>2. \A i \in 1..Len(events') : i + 1 \in 1..Len(events)
    BY <2>1
  <2>3. QED
    BY <1>1, <2>1, <2>2
<1>3. ASSUME Room, NEW e \in Statuses, e.id \in asked, events' = Append(events, e)
      PROVE  /\ events' \in Seq(Statuses) /\ Len(events') <= EventCap
             /\ \A i \in 1..Len(events') : events'[i].id \in asked'
  <2>1. /\ events' \in Seq(Statuses) /\ Len(events') = Len(events) + 1 /\ Len(events) \in Nat
        /\ \A i \in 1..Len(events) : events'[i] = events[i]
        /\ events'[Len(events) + 1] = e
    BY <1>1, <1>3, AppendFits
  <2>2. \A i \in 1..Len(events') : i \in 1..Len(events) \/ i = Len(events) + 1
    BY <2>1
  <2>3. Len(events) + 1 <= EventCap
    BY <1>1, <1>3, <2>1 DEF Room
  <2>4. QED
    BY <1>1, <1>3, <2>1, <2>2, <2>3
<1>4. QED
  BY <1>1, <1>2, <1>3

LEMMA TypesStep == TargetsInv /\ TypeInv /\ [Next]_vars => TypeInv'
<1> SUFFICES ASSUME TargetsInv, TypeInv, [Next]_vars PROVE TypeInv'
  OBVIOUS
<1>0. /\ task' \in [Forwards -> Tasks] /\ targets' \in [Binds -> Remote \cup {None}]
  BY TargetsStep DEF TargetsInv, Tasks
<1>1. /\ TypeOK /\ Remote \subseteq Forwards /\ Local \subseteq Forwards
      /\ pc = "cancelling" => stopping \in Remote
      /\ pc \in {"cancelling", "closing"} => stopping \in asked
      /\ \A i \in 1..Len(control) : control[i].id \in asked
      /\ \A i \in 1..Len(events) : events[i].id \in asked
      /\ \A id \in Forwards : rows[id] # "none" \/ task[id] # "none" => id \in asked
      /\ control \in Seq(Asks) /\ events \in Seq(Statuses) /\ task \in [Forwards -> Tasks]
  BY ForwardsAssumption, ControlTypes DEF TypeInv, Local
<1> DEFINE ControlGood == /\ control' \in Seq(Asks) /\ Len(control') <= ControlCap
                          /\ \A i \in 1..Len(control') : control'[i].id \in asked'
           EventsGood  == /\ events' \in Seq(Statuses) /\ Len(events') <= EventCap
                          /\ \A i \in 1..Len(events') : events'[i].id \in asked'
           Good ==
             /\ ControlGood /\ EventsGood
             /\ rows' \in [Forwards -> States \cup {"none"}]
             /\ removed' \subseteq asked' /\ asked' \subseteq Forwards
             /\ pc' \in {"pump", "cancelling", "closing", "down"} /\ stopping' \in Forwards \cup {None}
             /\ pc' = "cancelling" => stopping' \in Remote
             /\ pc' \in {"cancelling", "closing"} => stopping' \in asked'
             /\ \A id \in Forwards : rows'[id] # "none" \/ task'[id] # "none" => id \in asked'
             /\ forwards' \subseteq asked' /\ aborted' \subseteq Local /\ stale' \subseteq Remote
             /\ owner' \in [Binds -> Remote \cup {None}]
             /\ link' \in BOOLEAN /\ drops' \in 0..MaxDrops /\ clashed' \subseteq Remote
<1>2. SUFFICES Good
  BY <1>0 DEF TypeInv, TypeOK, Asks, Statuses, Tasks, Local
<1>3. UNCHANGED <<control, asked>> => ControlGood
  BY <1>1 DEF TypeOK
<1>4. UNCHANGED events /\ asked \subseteq asked' => EventsGood
  BY <1>1 DEF TypeOK
<1> HIDE DEF ControlGood, EventsGood
<1>5. ASSUME NEW id \in Forwards, AddForward(id) \/ RemoveForward(id) PROVE Good
  <2>1. ControlGood
    <3>1. PICK kind \in {"Add", "Remove"} : Send(Ask(kind, id))
      BY <1>5 DEF AddForward, RemoveForward
    <3>2. Ask(kind, id) \in Asks /\ Ask(kind, id).id = id
      BY DEF Ask, Asks
    <3>3. id \in asked' /\ asked \subseteq asked'
      BY <1>1, <1>5 DEF AddForward, RemoveForward, TypeOK
    <3>4. QED
      BY <3>1, <3>2, <3>3, SendsAsk DEF ControlGood
  <2>2. QED
    <3>1. CASE AddForward(id)
      BY <1>1, <1>4, <2>1, <3>1 DEF AddForward, TypeOK, States
    <3>2. CASE RemoveForward(id)
      BY <1>1, <1>4, <2>1, <3>2 DEF RemoveForward, TypeOK, States
    <3>3. QED
      BY <1>5, <3>1, <3>2
<1>6. CASE PaneHears
  <2>1. Head(events) \in Statuses /\ Head(events).id \in asked
    <3>1. Head(events) \in Statuses /\ Head(events) = events[1] /\ 1 \in 1..Len(events)
      BY <1>1, <1>6, TailFits DEF PaneHears
    <3>2. QED
      BY <1>1, <3>1
  <2>2. EventsGood
    BY <1>1, <1>6, EventsFit DEF PaneHears, EventsGood
  <2>3. /\ rows' \in [Forwards -> States \cup {"none"}]
        /\ \A id \in Forwards : rows'[id] # "none" => id \in asked
    BY <1>1, <1>6, <2>1 DEF PaneHears, TypeOK, Statuses, States
  <2>4. QED
    BY <1>1, <1>3, <1>6, <2>2, <2>3 DEF PaneHears, TypeOK
<1>7. CASE PumpAdds \/ PumpRemoves \/ Swallow
  <2>1. ControlGood /\ Head(control).id \in asked
    BY <1>7, TakesAsk DEF PumpAdds, PumpRemoves, Swallow, ControlGood
  <2>2. clashed' \subseteq Remote
    BY <1>1, <1>7 DEF PumpAdds, PumpRemoves, Swallow, Rivals, TypeOK
  <2>3. QED
    BY <1>1, <1>4, <1>7, <2>1, <2>2 DEF PumpAdds, PumpRemoves, Swallow, TypeOK, Local
<1>8. CASE Cancelled
  BY <1>1, <1>3, <1>4, <1>8, ForwardsAssumption DEF Cancelled, TypeOK
<1>9. CASE Closed
  <2>1. Status(stopping, "Closed") \in Statuses /\ Status(stopping, "Closed").id \in asked
    BY <1>1, <1>9 DEF Closed, Status, Statuses, TypeOK
  <2>2. EventsGood
    BY <1>1, <1>9, <2>1, EventsFit DEF Closed, EventsGood
  <2>3. QED
    BY <1>1, <1>3, <1>9, <2>2 DEF Closed, TypeOK
<1>10. CASE AbortAll \/ Reconnected \/ UNCHANGED vars
  BY <1>1, <1>3, <1>4, <1>10, ForwardsAssumption
     DEF AbortAll, AbortedByAll, Reconnected, vars, TypeOK, Local
<1>11. CASE LinkLost
  <2>1. drops' \in 0..MaxDrops
    BY <1>1, <1>11, CapsAssumption DEF LinkLost, TypeOK
  <2>2. QED
    BY <1>1, <1>3, <1>4, <1>11, <2>1 DEF LinkLost, TypeOK
<1>12. ASSUME NEW id \in Forwards, TaskStep(id) PROVE Good
  <2>1. id \in asked /\ \A r \in Forwards \ {id} : task'[r] = task[r]
    BY <1>1, <1>12 DEF TaskStep, BindEnds, ServerGrants, ServerRefuses, Tells, Parks, AbortTakes,
         TaskMoves, Waiting, Running
  <2>2. UNCHANGED <<control, pane, backend, drops, clashed>>
    BY <1>12 DEF TaskStep, BindEnds, ServerGrants, ServerRefuses, Tells, Parks, AbortTakes, TaskMoves
  <2>3. /\ ControlGood /\ UNCHANGED <<rows, asked>>
        /\ \A r \in Forwards : rows'[r] # "none" \/ task'[r] # "none" => r \in asked'
    BY <1>1, <1>3, <2>1, <2>2
  <2>4. EventsGood
    <3>1. CASE Tells(id)
      <4>1. Status(id, Told(id)) \in Statuses /\ Status(id, Told(id)).id \in asked
        BY <2>1 DEF Status, Statuses, Told
      <4>2. QED
        BY <1>1, <2>2, <3>1, <4>1, EventsFit DEF Tells, EventsGood
    <3>2. CASE UNCHANGED events
      BY <1>4, <2>3, <3>2
    <3>3. QED
      BY <1>12, <3>1, <3>2 DEF TaskStep, BindEnds, ServerGrants, ServerRefuses, Parks, AbortTakes
  <2>5. owner' \in [Binds -> Remote \cup {None}] /\ UNCHANGED link
    BY <1>1, <1>12, ForwardsAssumption
       DEF TaskStep, BindEnds, ServerGrants, ServerRefuses, Tells, Parks, AbortTakes, TypeOK
  <2>6. QED
    BY <1>1, <2>2, <2>3, <2>4, <2>5 DEF TypeOK
<1>13. QED
  BY <1>5, <1>6, <1>7, <1>8, <1>9, <1>10, <1>11, <1>12 DEF Next, ForwardsDialog, PumpStep

LEMMA InitTypes == Init => TypeInv
BY CapsAssumption DEF Init, TypeInv, TypeOK

\* For every set of forwards and binds, the variables keep their types and the
\* channels their bounds.
THEOREM TypeCorrect == Spec => []TypeOK
<1>1. TypeInv => TypeOK
  BY DEF TypeInv
<1>2. QED
  BY <1>1, InitForwards, TargetsStep, InitTypes, TypesStep, PTL DEF Spec

--------------------------------------------------------------------------------
(* The rows.  A forward is reported on once, when its task is done with its  *)
(* start; from then on its row, or else the report on its way, says whether  *)
(* it works.                                                                 *)

\* Two that are held on one bind are both known to clash; and so is whoever is
\* still held on the bind whose listen is being cancelled.
ApartInv ==
  /\ \A r, q \in forwards \cap Remote : r # q /\ BindOf[r] = BindOf[q] => r \in clashed
  /\ pc = "cancelling" =>
       \A r \in forwards \cap Remote : BindOf[r] = BindOf[stopping] => r \in clashed

\* What the events on their way say of a forward, and what they have to say.
Said(id) == {events[i].state : i \in {j \in 1..Len(events) : events[j].id = id}}
Due(id)  == IF Works(id) THEN "Active" ELSE "Failed"
Started(id) == task[id] \in {"listening", "gone"}

\* A forward is asked for once, so it is not started before its Add is taken.
AsksInv ==
  \A i \in 1..Len(control) :
    /\ control[i].kind = "Remove" => control[i].id \in removed
    /\ control[i].kind = "Add" =>
         /\ task[control[i].id] = "none"
         /\ \A j \in 1..Len(control) : control[j] = control[i] => j = i

Untouched(id) ==
  /\ Said(id) = {} /\ id \notin aborted \cup stale \cup forwards /\ stopping # id
  /\ id \in Remote => owner[BindOf[id]] # id
Held(id) ==
  /\ id \notin aborted \cup stale /\ stopping # id
  /\ id \in Remote => /\ task[id] \notin {"binding", "listening"}
                    /\ (id \notin clashed => targets[BindOf[id]] = id)
Granting(id) ==
  /\ task[id] \in {"tellActive", "parkedActive"} => owner[BindOf[id]] = id
  /\ task[id] \in {"requesting", "tellFailed", "parkedFailed"} => owner[BindOf[id]] # id
Truth(id) ==
  /\ ~Started(id) => Said(id) = {}
  /\ Started(id) => Said(id) \subseteq {Due(id)} /\ (Said(id) = {} => rows[id] = Due(id))

RowOK(id) ==
  /\ task[id] = "none" => Untouched(id)
  /\ id \in forwards => Held(id)
  /\ id \in forwards \ clashed /\ link => /\ id \in Remote => Granting(id)
                                          /\ id \notin removed => Truth(id)
RowsInv ==
  /\ pc = "down" => forwards = {}
  /\ AsksInv /\ ApartInv
  /\ \A id \in Forwards : RowOK(id)

LEMMA SaidAppend ==
  ASSUME TypeOK, NEW x \in Forwards, NEW st \in {"Active", "Failed", "Closed"},
         events' = Append(events, Status(x, st))
  PROVE  /\ Said(x)' = Said(x) \cup {st}
         /\ \A y \in Forwards \ {x} : Said(y)' = Said(y)
<1>1. /\ Len(events') = Len(events) + 1 /\ Len(events) \in Nat
      /\ \A i \in 1..Len(events) : events'[i] = events[i]
      /\ events'[Len(events) + 1] = Status(x, st)
  <2>1. events \in Seq(Statuses) /\ Status(x, st) \in Statuses
    BY ControlTypes DEF Status, Statuses
  <2>2. QED
    BY <2>1, AppendFits
<1>2. Status(x, st).id = x /\ Status(x, st).state = st
  BY DEF Status
<1>3. 1..Len(events') = 1..Len(events) \cup {Len(events) + 1}
  BY <1>1
<1>4. QED
  BY <1>1, <1>2, <1>3 DEF Said

LEMMA SaidTail ==
  ASSUME TypeOK, events # <<>>, events' = Tail(events), NEW y \in Forwards
  PROVE  Said(y) = Said(y)' \cup (IF Head(events).id = y THEN {Head(events).state} ELSE {})
<1>1. /\ Len(events') = Len(events) - 1 /\ Len(events) \in Nat \ {0}
      /\ \A i \in 1..(Len(events) - 1) : events'[i] = events[i + 1]
      /\ Head(events) = events[1]
  <2>1. events \in Seq(Statuses)
    BY ControlTypes
  <2>2. QED
    BY <2>1, TailFits
<1>2. \A i \in 1..Len(events) : i = 1 \/ (i - 1 \in 1..Len(events') /\ events'[i - 1] = events[i])
  BY <1>1
<1>3. \A i \in 1..Len(events') : i + 1 \in 1..Len(events) /\ events'[i] = events[i + 1]
  BY <1>1
<1>4. 1 \in 1..Len(events)
  BY <1>1
<1>5. ASSUME NEW st PROVE st \in Said(y) <=>
        st \in Said(y)' \cup (IF Head(events).id = y THEN {Head(events).state} ELSE {})
  <2>1. st \in Said(y) <=> \E i \in 1..Len(events) : events[i].id = y /\ events[i].state = st
    BY DEF Said
  <2>2. st \in Said(y)' <=> \E i \in 1..Len(events') : events'[i].id = y /\ events'[i].state = st
    BY DEF Said
  <2>3. ASSUME st \in Said(y) PROVE st \in Said(y)' \/ (events[1].id = y /\ events[1].state = st)
    BY <1>2, <2>1, <2>2, <2>3
  <2>4. ASSUME st \in Said(y)' PROVE st \in Said(y)
    BY <1>3, <2>1, <2>2, <2>4
  <2>5. ASSUME events[1].id = y, events[1].state = st PROVE st \in Said(y)
    BY <1>4, <2>1, <2>5
  <2>6. QED
    BY <1>1, <2>3, <2>4, <2>5
<1>6. QED
  BY <1>5

\* Taking a message from the control channel.
LEMMA AsksTaken ==
  ASSUME TypeInv, AsksInv, control # <<>>, control' = Tail(control), removed' = removed,
         \A id \in Forwards : task'[id] = task[id] \/ Head(control) = Ask("Add", id)
  PROVE  AsksInv'
<1>1. /\ control' \in Seq(Asks) /\ Len(control') = Len(control) - 1 /\ Len(control) \in Nat \ {0}
      /\ \A i \in 1..(Len(control) - 1) : control'[i] = control[i + 1]
      /\ Head(control) = control[1] /\ control \in Seq(Asks)
  <2>1. control \in Seq(Asks)
    BY ControlTypes DEF TypeInv
  <2>2. QED
    BY <2>1, TailFits
<1>2. \A i \in 1..Len(control') : /\ i + 1 \in 1..Len(control) /\ i + 1 # 1
                                  /\ control'[i] = control[i + 1]
  BY <1>1
<1>3. \A i \in 1..Len(control) : control[i].id \in Forwards
  BY AsksOf DEF TypeInv
<1>4. 1 \in 1..Len(control)
  BY <1>1
<1>5. ASSUME NEW i \in 1..Len(control'), control'[i].kind = "Add"
      PROVE  /\ task'[control'[i].id] = "none"
             /\ \A j \in 1..Len(control') : control'[j] = control'[i] => j = i
  <2>1. /\ task[control[i + 1].id] = "none"
        /\ \A j \in 1..Len(control) : control[j] = control[i + 1] => j = i + 1
    BY <1>2, <1>5 DEF AsksInv
  <2>2. control[1] # control[i + 1]
    BY <1>2, <1>4, <2>1
  <2>3. control[i + 1] = Ask("Add", control[i + 1].id)
    BY <1>2, <1>5, AsksOf DEF TypeInv
  <2>4. task'[control[i + 1].id] = task[control[i + 1].id]
    BY <1>1, <1>2, <1>3, <2>2, <2>3
  <2>5. QED
    BY <1>2, <2>1, <2>4
<1>6. QED
  BY <1>2, <1>5 DEF AsksInv

\* Sending one, or not.
LEMMA AsksSent ==
  ASSUME TypeInv, AsksInv, NEW m \in Asks, Send(m), task' = task, removed \subseteq removed',
         m.kind = "Remove" => m.id \in removed',
         m.kind = "Add" => m.id \notin asked
  PROVE  AsksInv'
<1>1. control \in Seq(Asks) /\ \A i \in 1..Len(control) : control[i].id \in asked
  BY ControlTypes DEF TypeInv
<1>2. CASE control' = control
  BY <1>2 DEF AsksInv
<1>3. CASE control' = Append(control, m)
  <2>1. /\ Len(control') = Len(control) + 1 /\ Len(control) \in Nat
        /\ \A i \in 1..Len(control) : control'[i] = control[i]
        /\ control'[Len(control) + 1] = m
    BY <1>1, <1>3, AppendFits
  <2>2. \A i \in 1..Len(control') : i \in 1..Len(control) \/ i = Len(control) + 1
    BY <2>1
  <2>3. m.kind = "Add" => task[m.id] = "none" /\ \A i \in 1..Len(control) : control[i] # m
    BY <1>1 DEF TypeInv, Asks
  <2>4. QED
    BY <2>1, <2>2, <2>3 DEF AsksInv
<1>4. QED
  BY <1>2, <1>3 DEF Send

LEMMA AsksStep == TypeInv /\ RowsInv /\ [Next]_vars => AsksInv'
<1> SUFFICES ASSUME TypeInv, RowsInv, [Next]_vars PROVE AsksInv'
  OBVIOUS
<1>1. AsksInv /\ TypeOK /\ task \in [Forwards -> Tasks]
  BY ControlTypes DEF RowsInv, TypeInv
<1>2. ASSUME NEW id \in Forwards, AddForward(id) PROVE AsksInv'
  <2>1. Ask("Add", id) \in Asks /\ Ask("Add", id).id = id /\ Ask("Add", id).kind = "Add"
    BY DEF Ask, Asks
  <2>2. QED
    BY <1>1, <1>2, <2>1, AsksSent DEF AddForward
<1>3. ASSUME NEW id \in Forwards, RemoveForward(id) PROVE AsksInv'
  <2>1. Ask("Remove", id) \in Asks /\ Ask("Remove", id).id = id /\ Ask("Remove", id).kind = "Remove"
    BY DEF Ask, Asks
  <2>2. QED
    BY <1>1, <1>3, <2>1, AsksSent DEF RemoveForward
<1>4. CASE PumpAdds
  <2>1. Head(control) = Ask("Add", Head(control).id)
    <3>1. Head(control) \in Asks
      BY <1>4, ControlTypes, TailFits DEF PumpAdds, TypeInv
    <3>2. QED
      BY <1>4, <3>1 DEF PumpAdds, Asks, Ask
  <2>2. \A id \in Forwards : task'[id] = task[id] \/ Head(control) = Ask("Add", id)
    BY <1>1, <1>4, <2>1 DEF PumpAdds
  <2>3. QED
    BY <1>1, <1>4, <2>2, AsksTaken DEF PumpAdds
<1>5. CASE PumpRemoves \/ Swallow
  BY <1>1, <1>5, AsksTaken DEF PumpRemoves, Swallow
<1>6. ASSUME NEW id \in Forwards, TaskStep(id) PROVE AsksInv'
  <2>1. UNCHANGED <<control, removed>>
    BY <1>6 DEF TaskStep, BindEnds, ServerGrants, ServerRefuses, Tells, Parks, AbortTakes, TaskMoves
  <2>2. task[id] # "none" /\ \A r \in Forwards \ {id} : task'[r] = task[r]
    BY <1>1, <1>6 DEF TaskStep, BindEnds, ServerGrants, ServerRefuses, Tells, Parks, AbortTakes,
         TaskMoves, Waiting, Running
  <2>3. \A i \in 1..Len(control) : control[i].id \in Forwards
    BY <1>1, AsksOf
  <2>4. QED
    BY <1>1, <2>1, <2>2, <2>3 DEF AsksInv
<1>7. CASE Cancelled \/ Closed \/ AbortAll \/ Reconnected \/ PaneHears \/ LinkLost \/ UNCHANGED vars
  BY <1>1, <1>7 DEF Cancelled, Closed, AbortAll, Reconnected, PaneHears, LinkLost, vars, AsksInv
<1>8. QED
  BY <1>2, <1>3, <1>4, <1>5, <1>6, <1>7 DEF Next, ForwardsDialog, PumpStep

LEMMA ApartStep == TypeInv /\ RowsInv /\ [Next]_vars => ApartInv'
<1> SUFFICES ASSUME TypeInv, RowsInv, [Next]_vars PROVE ApartInv'
  OBVIOUS
<1>1. ApartInv /\ (pc = "cancelling" => stopping \in Remote)
  BY DEF RowsInv, TypeInv
<1>2. CASE PumpAdds
  <2> DEFINE id == Head(control).id
  <2>1. /\ pc' = "pump" /\ forwards' = forwards \cup {id} /\ clashed \subseteq clashed'
        /\ Rivals(id) \subseteq clashed' /\ (Rivals(id) # {} => id \in clashed')
    BY <1>2 DEF PumpAdds
  <2> HIDE DEF id
  <2>2. ASSUME NEW r \in forwards' \cap Remote, NEW q \in forwards' \cap Remote, r # q,
               BindOf[r] = BindOf[q]
        PROVE  r \in clashed'
    BY <1>1, <2>1, <2>2 DEF ApartInv, Rivals
  <2>3. QED
    BY <2>1, <2>2 DEF ApartInv
<1>3. CASE PumpRemoves
  <2> DEFINE id == Head(control).id
  <2>1. CASE id \notin forwards
    BY <1>1, <1>3, <2>1 DEF PumpRemoves, ApartInv
  <2>2. CASE id \in forwards
    <3>1. /\ forwards' = forwards \ {id} /\ clashed' = clashed /\ stopping' = id
          /\ pc' = "cancelling" => id \in Remote
      BY <1>3, <2>2 DEF PumpRemoves
    <3> HIDE DEF id
    <3>2. QED
      BY <1>1, <2>2, <3>1 DEF ApartInv
  <2>3. QED
    BY <2>1, <2>2
<1>4. CASE Cancelled \/ Closed \/ Swallow \/ PaneHears \/ LinkLost \/ UNCHANGED vars
  BY <1>1, <1>4 DEF Cancelled, Closed, Swallow, PaneHears, LinkLost, vars, ApartInv
<1>5. CASE AbortAll \/ Reconnected
  BY <1>5 DEF AbortAll, Reconnected, ApartInv, RowsInv
<1>6. ASSUME NEW id \in Forwards, AddForward(id) \/ RemoveForward(id) \/ TaskStep(id)
      PROVE  ApartInv'
  BY <1>1, <1>6 DEF AddForward, RemoveForward, TaskStep, BindEnds, ServerGrants, ServerRefuses,
     Tells, Parks, AbortTakes, TaskMoves, ApartInv
<1>7. QED
  BY <1>2, <1>3, <1>4, <1>5, <1>6 DEF Next, ForwardsDialog, PumpStep

\* A step that says nothing of a forward, and changes nothing that it rests on.
LEMMA RowKept ==
  ASSUME NEW id \in Forwards, RowOK(id), Said(id)' = Said(id), task'[id] = task[id],
         id \in forwards' => id \in forwards, id \in aborted' <=> id \in aborted,
         stale' = stale, stopping' \in {stopping, None} \/ stopping' # id, link' => link,
         id \in Remote /\ owner'[BindOf[id]] = id => owner[BindOf[id]] = id,
         id \in Remote /\ id \in forwards' \ clashed' =>
           /\ targets'[BindOf[id]] = targets[BindOf[id]]
           /\ owner[BindOf[id]] = id => owner'[BindOf[id]] = id,
         clashed \subseteq clashed', removed \subseteq removed', id \in removed' \/ rows'[id] = rows[id]
  PROVE  RowOK(id)'
BY ForwardsAssumption
   DEF RowOK, Untouched, Held, Granting, Truth, Started, Due, Works, Local

LEMMA RowStep ==
  ASSUME TargetsInv, TypeInv, RowsInv, [Next]_vars, NEW r \in Forwards
  PROVE  RowOK(r)'
<1>1. /\ TypeOK /\ RowOK(r) /\ AsksInv /\ task \in [Forwards -> Tasks] /\ r # None
      /\ rows \in [Forwards -> States \cup {"none"}] /\ owner \in [Binds -> Remote \cup {None}]
      /\ targets \in [Binds -> Remote \cup {None}]
      /\ r \in Remote => BindOf[r] \in Binds
      /\ ApartInv
  BY ControlTypes, ForwardsAssumption DEF RowsInv, TypeInv, TypeOK
<1>2. UNCHANGED events => Said(r)' = Said(r)
  BY DEF Said
<1>3. ASSUME NEW id \in Forwards, AddForward(id) PROVE RowOK(r)'
  <2>1. CASE r = id
    <3>1. r \notin asked /\ forwards' = forwards /\ forwards \subseteq asked /\ task[r] = "none"
      BY <1>1, <1>3, <2>1 DEF AddForward, TypeInv, TypeOK
    <3>2. Untouched(r)'
      BY <1>1, <1>2, <1>3, <3>1 DEF AddForward, RowOK, Untouched
    <3>3. QED
      BY <1>3, <3>1, <3>2 DEF AddForward, RowOK
  <2>2. CASE r # id
    BY <1>1, <1>2, <1>3, <2>2, RowKept DEF AddForward
  <2>3. QED
    BY <2>1, <2>2
<1>4. ASSUME NEW id \in Forwards, RemoveForward(id) PROVE RowOK(r)'
  BY <1>1, <1>2, <1>4, RowKept DEF RemoveForward
<1>5. CASE PaneHears
  <2> DEFINE h == Head(events)
  <2>1. /\ Said(r) = Said(r)' \cup (IF h.id = r THEN {h.state} ELSE {})
        /\ UNCHANGED <<removed, backend, task, server, clashed>>
        /\ rows'[r] = IF h.id = r THEN (IF h.state = "Closed" THEN "none" ELSE h.state) ELSE rows[r]
    BY <1>1, <1>5, SaidTail DEF PaneHears, TypeOK
  <2> HIDE DEF h
  <2>2. task[r] = "none" => Untouched(r)'
    BY <1>1, <2>1 DEF RowOK, Untouched
  <2>3. r \in forwards => Held(r)'
    BY <1>1, <2>1 DEF RowOK, Held
  <2>4. Due(r)' = Due(r) /\ Started(r)' = Started(r) /\ Granting(r)' = Granting(r)
    BY <2>1 DEF Due, Works, Started, Granting
  <2>5. Due(r) \in {"Active", "Failed"}
    BY DEF Due
  <2>6. Truth(r) => Truth(r)'
    BY <2>1, <2>4, <2>5 DEF Truth
  <2>7. QED
    BY <1>1, <2>1, <2>2, <2>3, <2>4, <2>6 DEF RowOK
<1>6. CASE PumpAdds
  <2>1. PICK id \in Forwards : id = Head(control).id /\ task[id] = "none"
    <3>1. Head(control) = control[1] /\ 1 \in 1..Len(control)
      BY <1>6, <1>1, ControlTypes, TailFits DEF PumpAdds
    <3>2. QED
      BY <1>1, <1>6, <3>1, AsksOf DEF PumpAdds, AsksInv
  <2>2. CASE r # id
    <3>1. /\ task'[r] = task[r] /\ (r \in forwards' <=> r \in forwards)
          /\ clashed \subseteq clashed'
          /\ r \in forwards /\ r \in Remote /\ r \notin clashed' =>
               targets'[BindOf[r]] = targets[BindOf[r]]
      BY <1>1, <1>6, <2>1, <2>2 DEF PumpAdds, Rivals
    <3>2. UNCHANGED <<pane, events, aborted, stale, stopping, link, owner>>
      BY <1>6 DEF PumpAdds
    <3>3. QED
      BY <1>1, <1>2, <3>1, <3>2, RowKept
  <2>3. CASE r = id
    <3>1. Untouched(r)
      BY <1>1, <2>1, <2>3 DEF RowOK
    <3>2. /\ task'[r] = (IF r \in Remote THEN "requesting" ELSE "binding")
          /\ r \in Remote => targets'[BindOf[r]] = r
          /\ UNCHANGED <<pane, events, aborted, stale, stopping, link, owner>>
      BY <1>1, <1>6, <2>1, <2>3 DEF PumpAdds
    <3>3. QED
      BY <1>2, <3>1, <3>2 DEF RowOK, Untouched, Held, Granting, Truth, Started
  <2>4. QED
    BY <2>2, <2>3
<1>7. CASE PumpRemoves
  <2>1. PICK id \in Forwards : id = Head(control).id
    BY <1>7, HeadAsks DEF PumpRemoves, TargetsInv
  <2>2. CASE id \notin forwards
    BY <1>1, <1>2, <1>7, <2>1, <2>2, RowKept DEF PumpRemoves
  <2>3. ASSUME id \in forwards, r # id PROVE RowOK(r)'
    <3>1. /\ (r \in forwards' <=> r \in forwards) /\ (r \in aborted' <=> r \in aborted)
          /\ stopping' # r /\ UNCHANGED <<events, rows, removed, task, stale, link, owner, clashed>>
      BY <1>7, <2>1, <2>3 DEF PumpRemoves
    <3>2. r \in Remote /\ r \in forwards \ clashed => targets'[BindOf[r]] = targets[BindOf[r]]
      BY <1>1, <1>7, <2>1, <2>3 DEF PumpRemoves, Without, ApartInv
    <3>3. QED
      BY <1>1, <1>2, <3>1, <3>2, RowKept
  <2>4. ASSUME id \in forwards, r = id PROVE RowOK(r)'
    <3>1. task[r] # "none"
      BY <1>1, <2>4 DEF RowOK, Untouched
    <3>2. r \notin forwards' /\ task' = task
      BY <1>7, <2>1, <2>4 DEF PumpRemoves
    <3>3. QED
      BY <3>1, <3>2 DEF RowOK
  <2>5. QED
    BY <2>2, <2>3, <2>4
<1>8. CASE Cancelled
  <2>1. stopping \in Remote /\ UNCHANGED <<pane, events, stopping, forwards, aborted, stale, targets, task, link, clashed>>
    BY <1>8 DEF Cancelled, TypeInv
  <2>2. CASE r = stopping
    BY <1>1, <1>8, <2>1, <2>2 DEF RowOK, Untouched, Held
  <2>3. CASE r # stopping
    <3>1. /\ r \in Remote /\ owner'[BindOf[r]] = r => owner[BindOf[r]] = r
          /\ r \in Remote /\ r \in forwards \ clashed => owner'[BindOf[r]] = owner[BindOf[r]]
      BY <1>1, <1>8, <2>1, <2>3, ForwardsAssumption DEF Cancelled, ApartInv
    <3>2. QED
      BY <1>1, <1>2, <2>1, <3>1, RowKept
  <2>4. QED
    BY <2>2, <2>3
<1>9. CASE Closed
  <2>1. /\ stopping \in Forwards /\ stopping' = None
        /\ UNCHANGED <<pane, forwards, aborted, stale, targets, task, server, clashed>>
        /\ events' = Append(events, Status(stopping, "Closed"))
    BY <1>1, <1>9 DEF Closed, TypeInv, TypeOK
  <2>2. CASE r = stopping
    BY <1>1, <2>1, <2>2 DEF RowOK, Untouched, Held
  <2>3. CASE r # stopping
    <3>1. Said(r)' = Said(r)
      BY <1>1, <2>1, <2>3, SaidAppend
    <3>2. QED
      BY <1>1, <2>1, <3>1, RowKept
  <2>4. QED
    BY <2>2, <2>3
<1>10. CASE AbortAll
  <2>1. /\ forwards' = {} /\ UNCHANGED <<events, task, stopping, owner, stale>>
        /\ task[r] = "none" => r \notin aborted'
    BY <1>1, <1>10 DEF AbortAll, AbortedByAll, RowOK, Untouched
  <2>2. QED
    BY <1>1, <1>2, <2>1 DEF RowOK, Untouched
<1>11. CASE Reconnected
  <2>1. /\ forwards' = {} /\ UNCHANGED <<events, task, aborted, stopping, owner>>
        /\ task[r] = "none" => r \notin stale'
    BY <1>11 DEF Reconnected, RowsInv
  <2>2. QED
    BY <1>1, <1>2, <2>1 DEF RowOK, Untouched
<1>12. CASE LinkLost
  <2>1. /\ ~link' /\ r \in Remote => owner'[BindOf[r]] # r
        /\ UNCHANGED <<events, task, forwards, aborted, stale, stopping, targets, clashed>>
    BY <1>1, <1>12 DEF LinkLost
  <2>2. QED
    BY <1>1, <1>2, <1>12, <2>1 DEF RowOK, Untouched, Held, LinkLost
<1>13. CASE Swallow \/ UNCHANGED vars
  BY <1>1, <1>2, <1>13, RowKept DEF Swallow, vars
<1>14. ASSUME NEW id \in Forwards, TaskStep(id), r # id PROVE RowOK(r)'
  <2>1. task'[r] = task[r] /\ UNCHANGED <<pane, backend, link, clashed>>
    BY <1>1, <1>14 DEF TaskStep, BindEnds, ServerGrants, ServerRefuses, Tells, Parks, AbortTakes,
         TaskMoves
  <2>2. r \in Remote => (owner'[BindOf[r]] = r <=> owner[BindOf[r]] = r)
    BY <1>1, <1>14 DEF TaskStep, BindEnds, ServerGrants, ServerRefuses, Tells, Parks, AbortTakes
  <2>3. Said(r)' = Said(r)
    <3>1. CASE Tells(id)
      <4>1. Told(id) \in {"Active", "Failed", "Closed"}
        BY DEF Told
      <4>2. QED
        BY <1>1, <1>14, <3>1, <4>1, SaidAppend DEF Tells
    <3>2. CASE UNCHANGED events
      BY <1>2, <3>2
    <3>3. QED
      BY <1>14, <3>1, <3>2 DEF TaskStep, BindEnds, ServerGrants, ServerRefuses, Parks, AbortTakes
  <2>4. QED
    BY <1>1, <2>1, <2>2, <2>3, RowKept
<1>15. ASSUME TaskStep(r) PROVE RowOK(r)'
  <2>1. UNCHANGED <<pane, backend, link, clashed>>
    BY <1>15 DEF TaskStep, BindEnds, ServerGrants, ServerRefuses, Tells, Parks, AbortTakes,
         TaskMoves
  <2>2. SUFFICES ASSUME task'[r] # "none", r \in forwards, Held(r)
                 PROVE  /\ Held(r)'
                        /\ link /\ r \notin clashed =>
                                   /\ r \in Remote => Granting(r)'
                                   /\ r \notin removed => Truth(r)'
    <3>1. task'[r] # "none"
      BY <1>1, <1>15 DEF TaskStep, BindEnds, ServerGrants, ServerRefuses, Tells, Parks, AbortTakes,
         TaskMoves, Waiting, Running, Granted, After, Parked
    <3>2. QED
      BY <1>1, <2>1, <3>1 DEF RowOK
  <2>3. /\ ~Started(r) /\ task[r] # "none"
        /\ link /\ r \notin clashed => (r \in Remote => Granting(r)) /\ (r \notin removed => Said(r) = {})
    BY <1>1, <1>15, <2>2 DEF RowOK, Truth, Started, TaskStep, BindEnds, ServerGrants, ServerRefuses,
       Tells, Parks, AbortTakes, Waiting, Running, Held
  <2>4. CASE Tells(r)
    <3>1. /\ task'[r] = After(r) /\ UNCHANGED server
          /\ events' = Append(events, Status(r, Told(r)))
          /\ Told(r) \in {"Active", "Failed"}
          /\ task[r] \in {"tellActive", "tellFailed", "parkedActive", "parkedFailed"}
      BY <1>1, <2>4 DEF Tells, TaskMoves, Told, Running
    <3>2. Said(r)' = Said(r) \cup {Told(r)}
      BY <1>1, <3>1, SaidAppend
    <3>3. After(r) = IF Told(r) = "Active" /\ r \notin Remote THEN "listening" ELSE "gone"
      BY <2>2, <3>1 DEF After, Told, Local, Held
    <3>4. Held(r)' /\ Granting(r)' /\ Started(r)'
      BY <2>1, <2>2, <3>1, <3>3 DEF Held, Granting, Started
    <3>5. ASSUME link, r \notin clashed, r \notin removed PROVE Due(r)' = Told(r)
      <4>1. CASE r \in Remote
        BY <2>1, <2>2, <2>3, <3>1, <3>5, <4>1 DEF Due, Works, Held, Granting, Told, Local
      <4>2. CASE r \notin Remote
        BY <2>1, <2>2, <3>1, <3>3, <4>2 DEF Due, Works, Held, Local
      <4>3. QED
        BY <4>1, <4>2
    <3>6. QED
      BY <2>1, <2>3, <3>2, <3>4, <3>5 DEF Truth
  <2>5. CASE AbortTakes(r)
    BY <2>2, <2>5 DEF AbortTakes, Held
  <2>6. CASE BindEnds(r) \/ Parks(r)
    <3>1. /\ task'[r] \in {"tellActive", "tellFailed", "parkedActive", "parkedFailed"}
          /\ UNCHANGED <<events, server>>
          /\ r \in Remote => Parks(r)
      BY <1>1, <2>2, <2>6 DEF BindEnds, Parks, Parked, TaskMoves, Running, Held
    <3>2. Held(r)' /\ ~Started(r)'
      BY <2>1, <2>2, <3>1 DEF Held, Started
    <3>3. link /\ r \notin clashed /\ r \in Remote => Granting(r)'
      BY <1>1, <2>3, <3>1 DEF Granting, Parks, Parked, TaskMoves, Running
    <3>4. QED
      BY <1>2, <2>3, <3>1, <3>2, <3>3 DEF Truth
  <2>7. CASE r \in Remote /\ ServerGrants(r)
    <3>1. task'[r] = "tellActive" /\ UNCHANGED events /\ owner'[BindOf[r]] = r
      BY <1>1, <2>7 DEF ServerGrants, Granted, TaskMoves
    <3>2. QED
      BY <1>2, <2>1, <2>2, <2>3, <3>1 DEF Held, Granting, Truth, Started
  <2>8. CASE r \in Remote /\ ServerRefuses(r)
    <3>1. task'[r] = "tellFailed" /\ UNCHANGED <<events, server>> /\ task[r] = "requesting"
      BY <1>1, <2>8 DEF ServerRefuses, TaskMoves
    <3>2. QED
      BY <1>2, <2>1, <2>2, <2>3, <3>1 DEF Held, Granting, Truth, Started
  <2>9. QED
    BY <1>15, <2>4, <2>5, <2>6, <2>7, <2>8 DEF TaskStep
<1>16. QED
  BY <1>3, <1>4, <1>5, <1>6, <1>7, <1>8, <1>9, <1>10, <1>11, <1>12, <1>13, <1>14, <1>15
     DEF Next, ForwardsDialog, PumpStep

LEMMA RowsStep == TargetsInv /\ TypeInv /\ RowsInv /\ [Next]_vars => RowsInv'
<1> SUFFICES ASSUME TargetsInv, TypeInv, RowsInv, [Next]_vars PROVE RowsInv'
  OBVIOUS
<1>1. pc' = "down" => forwards' = {}
  <2>1. pc = "down" => forwards = {}
    BY DEF RowsInv
  <2>2. ASSUME NEW id \in Forwards, TaskStep(id) PROVE UNCHANGED <<pc, forwards>>
    BY <2>2 DEF TaskStep, BindEnds, ServerGrants, ServerRefuses, Tells, Parks, AbortTakes, TaskMoves
  <2>3. QED
    BY <2>1, <2>2 DEF Next, ForwardsDialog, PumpStep, AddForward, RemoveForward, PaneHears, PumpAdds,
       PumpRemoves, Cancelled, Closed, LinkLost, AbortAll, Swallow, Reconnected, vars
<1>2. QED
  BY <1>1, AsksStep, ApartStep, RowStep DEF RowsInv

\* FR-27: the row of a forward the pump holds tells whether it works once the
\* messages about it have settled, over any number of reconnects, unless another
\* remote forward was held on its bind together with it.
THEOREM RowsAreTrue == Spec => []RowsTellTruth
<1>1. Init => RowsInv
  <2> SUFFICES ASSUME Init PROVE RowsInv
    OBVIOUS
  <2>1. /\ control = <<>> /\ events = <<>> /\ forwards = {} /\ pc = "pump" /\ stopping = None
        /\ aborted = {} /\ stale = {} /\ owner = [b \in Binds |-> None]
    BY DEF Init
  <2>2. \A id \in Forwards : Said(id) = {}
    BY <2>1 DEF Said
  <2>3. QED
    BY <2>1, <2>2, ForwardsAssumption DEF RowsInv, AsksInv, ApartInv, RowOK, Untouched
<1>2. TypeInv /\ RowsInv => RowsTellTruth
  <2> SUFFICES ASSUME TypeInv, RowsInv, NEW id \in forwards \ (removed \cup clashed), link, Settled(id)
               PROVE  rows[id] = Due(id)
    BY DEF RowsTellTruth, Due
  <2>1. id \in Forwards
    BY DEF TypeInv, TypeOK
  <2>2. Started(id) /\ Said(id) = {}
    BY DEF Settled, Started, Said
  <2>3. QED
    BY <2>1, <2>2 DEF RowsInv, RowOK, Truth
<1>3. QED
  BY <1>1, <1>2, InitForwards, TargetsStep, InitTypes, TypesStep, RowsStep, PTL DEF Spec
================================================================================
