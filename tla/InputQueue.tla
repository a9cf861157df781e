------------------------------ MODULE InputQueue ------------------------------
(***************************************************************************)
(* Input on its way from the UI thread to the backends of several panes:   *)
(* the bounded input channel of each session, the pending queue a LivePane *)
(* keeps for a full one, and the frame loop that drains and fills both.    *)
(* The UI thread never waits; the backends read whenever they like, or,    *)
(* wedged, not at all.  A frame drains every pane, routes what was typed   *)
(* to its recipients (broadcast), draws, which sends mouse reports, and    *)
(* shows its dialogs, one of which delivers a confirmed paste.  The next   *)
(* begins when something asks for one: input, output, an event.            *)
(***************************************************************************)
EXTENDS Integers, Sequences

CONSTANTS
  Sessions,      \* live panes
  Wedged,        \* those whose backend need not ever read
  InputCap,      \* INPUT_CAPACITY of the transport channel
  PendingCap,    \* INPUT_PENDING_CAP
  MaxItems       \* bound on what is typed, replied or reported in a behaviour

ASSUME WedgedAssumption == Wedged \subseteq Sessions
ASSUME CapsAssumption ==
  InputCap \in Nat \ {0} /\ PendingCap \in Nat \ {0} /\ MaxItems \in Nat

VARIABLES
  channel,       \* per session: the input channel
  pending,       \* pending_input
  dropping,      \* dropping_input
  open,          \* the backend still holds its receiver
  phase,         \* where the UI thread is in its frame
  toPump,        \* panes not yet pumped in this frame
  clock,         \* the newest item; the others are numbered in order
  latest,        \* per session: the newest key typed at it
  lastKey,       \* per session: the newest key its backend has read
  lost           \* per session: the newest key discarded, 0 if none

queues  == <<channel, pending, dropping, open>>
frame   == <<phase, toPump>>
history == <<latest, lastKey, lost>>
vars    == <<queues, frame, clock, history>>

\* A key (or paste) goes through send_input; a report of the mouse or a reply
\* to a device query goes straight to the channel.
Key(n)    == [kind |-> "Key", n |-> n]
Report(n) == [kind |-> "Report", n |-> n]
Items     == {Key(n) : n \in 1..MaxItems} \cup {Report(n) : n \in 1..MaxItems}

Init ==
  /\ channel  = [s \in Sessions |-> <<>>]
  /\ pending  = [s \in Sessions |-> <<>>]
  /\ dropping = [s \in Sessions |-> FALSE]
  /\ open     = [s \in Sessions |-> TRUE]
  /\ phase = "idle" /\ toPump = {} /\ clock = 0
  /\ latest  = [s \in Sessions |-> 0]
  /\ lastKey = [s \in Sessions |-> 0]
  /\ lost    = [s \in Sessions |-> 0]

Full(s) == Len(channel[s]) >= InputCap

--------------------------------------------------------------------------------
(* LivePane::pump: drain_input, one try_send at a time.                      *)

\* Nothing asks for a frame because input is pending.
FrameBegins ==
  /\ phase = "idle" /\ phase' = "pump" /\ toPump' = Sessions
  /\ UNCHANGED <<queues, clock, history>>

\* The Mutant definitions of this module are wrong variants of what they precede.
PumpingMutant(s) == phase = "pump" /\ s \in toPump /\ \A t \in Sessions : open[t] => ~Full(t)
Pumping(s) == phase = "pump" /\ s \in toPump

\* There was room: the oldest pending input moves over.
DrainSends(s) ==
  /\ Pumping(s) /\ pending[s] # <<>> /\ open[s] /\ ~Full(s)
  /\ channel' = [channel EXCEPT ![s] = Append(@, Head(pending[s]))]
  /\ pending' = [pending EXCEPT ![s] = Tail(@)]
  /\ UNCHANGED <<dropping, open, frame, clock, history>>

\* No room: the rest waits for the next frame, the mark stays.
DrainStalls(s) ==
  /\ Pumping(s) /\ pending[s] # <<>> /\ open[s] /\ Full(s)
  /\ toPump' = toPump \ {s} /\ UNCHANGED <<queues, phase, clock, history>>

\* All gone, or nobody left to read it: no longer dropping.
DrainEnds(s) ==
  /\ Pumping(s) /\ (pending[s] = <<>> \/ ~open[s])
  /\ pending'  = [pending EXCEPT ![s] = <<>>]
  /\ dropping' = [dropping EXCEPT ![s] = FALSE]
  /\ toPump' = toPump \ {s} /\ UNCHANGED <<channel, open, phase, clock, history>>

\* Best effort, past the pending queue: a reply to a device query ends the
\* pump of a pane, mouse reports come with its drawing.
SendDirect(s) ==
  /\ phase = "draw" \/ (phase = "pump" /\ s \notin toPump)
  /\ clock < MaxItems /\ clock' = clock + 1
  /\ channel' = IF open[s] /\ ~Full(s)
                THEN [channel EXCEPT ![s] = Append(@, Report(clock'))]
                ELSE channel
  /\ UNCHANGED <<pending, dropping, open, frame, history>>

PumpEnds ==
  /\ phase = "pump" /\ toPump = {} /\ phase' = "route"
  /\ UNCHANGED <<queues, toPump, clock, history>>

--------------------------------------------------------------------------------
(* route_keyboard, before the panes are drawn, and deliver_paste, after:     *)
(* send_input for every recipient.  The channels are independent, so one     *)
(* step for all of them loses no behaviour.                                  *)

\* Straight to the channel only when nothing is queued before it.
GoesStraightMutant(s) == ~Full(s)
GoesStraight(s) == pending[s] = <<>> /\ ~Full(s)

\* enqueue_input's test; send_input ignores a closed channel, but what is queued
\* already still queues behind itself until the next drain.
QueuesMutant(s)  == Len(pending[s]) <= PendingCap
QueuesMutant2(s) == Len(pending[s]) < PendingCap - 1
Queues(s)        == Len(pending[s]) < PendingCap

Ignores(s)  == ~open[s] /\ pending[s] = <<>>
Accepts(s)  == open[s] /\ GoesStraight(s)
Discards(s) == ~Ignores(s) /\ ~Accepts(s) /\ ~Queues(s)

\* What the discarding leaves behind.
MarkedMutant(s) == dropping[s]
Marked(s) == dropping[s] \/ Discards(s)

SendInput(to) ==
  /\ clock < MaxItems /\ clock' = clock + 1
  /\ channel' = [s \in Sessions |->
       IF s \in to /\ Accepts(s) THEN Append(channel[s], Key(clock')) ELSE channel[s]]
  /\ pending' = [s \in Sessions |->
       IF s \in to /\ ~Ignores(s) /\ ~Accepts(s) /\ Queues(s)
         THEN Append(pending[s], Key(clock')) ELSE pending[s]]
  /\ dropping' = [s \in Sessions |-> IF s \in to THEN Marked(s) ELSE dropping[s]]
  /\ latest'  = [s \in Sessions |-> IF s \in to THEN clock' ELSE latest[s]]
  /\ lost'    = [s \in Sessions |-> IF s \in to /\ Discards(s) THEN clock' ELSE lost[s]]
  /\ UNCHANGED <<open, toPump, lastKey>>

Typed(to) == phase = "route" /\ SendInput(to) /\ UNCHANGED phase

RouteEnds ==
  /\ phase = "route" /\ phase' = "draw"
  /\ UNCHANGED <<queues, toPump, clock, history>>

DrawEnds ==
  /\ phase = "draw" /\ phase' = "dialogs"
  /\ UNCHANGED <<queues, toPump, clock, history>>

\* The user confirms a paste of several lines, for the recipients it was asked
\* about, or does not; either way the frame is over.
Pasted(to) == phase = "dialogs" /\ phase' = "idle" /\ SendInput(to)

FrameEnds ==
  /\ phase = "dialogs" /\ phase' = "idle"
  /\ UNCHANGED <<queues, toPump, clock, history>>

--------------------------------------------------------------------------------
(* The backends.                                                             *)

Read(s) ==
  /\ open[s] /\ channel[s] # <<>>
  /\ channel' = [channel EXCEPT ![s] = Tail(@)]
  /\ lastKey' = IF Head(channel[s]).kind = "Key"
                THEN [lastKey EXCEPT ![s] = Head(channel[s]).n] ELSE lastKey
  /\ UNCHANGED <<pending, dropping, open, frame, clock, latest, lost>>

BackendEnds(s) ==
  /\ open[s]
  /\ open' = [open EXCEPT ![s] = FALSE] /\ channel' = [channel EXCEPT ![s] = <<>>]
  /\ UNCHANGED <<pending, dropping, frame, clock, history>>

--------------------------------------------------------------------------------

Pump == \E s \in Sessions : DrainSends(s) \/ DrainStalls(s) \/ DrainEnds(s)

Frames == Pump \/ PumpEnds \/ RouteEnds \/ DrawEnds \/ FrameEnds

Route  == \E to \in SUBSET Sessions : to # {} /\ (Typed(to) \/ Pasted(to))

Next ==
  \/ FrameBegins \/ Frames \/ Route
  \/ \E s \in Sessions : SendDirect(s) \/ Read(s) \/ BackendEnds(s)

Spec == Init /\ [][Next]_vars

\* A frame that has begun goes through, and a backend that is not wedged reads
\* what there is.  That another frame begins is nobody's promise.
Fairness == WF_vars(Frames) /\ \A s \in Sessions \ Wedged : WF_vars(Read(s))

FairSpec == Spec /\ Fairness

--------------------------------------------------------------------------------
(* Properties.                                                               *)

\* Every variable holds a value of its type; neither queue of a session exceeds
\* its bound, however many keys are typed at a wedged one (NFR-16).
TypeOK ==
  /\ channel \in [Sessions -> Seq(Items)] /\ pending \in [Sessions -> Seq(Items)]
  /\ \A s \in Sessions : Len(channel[s]) <= InputCap /\ Len(pending[s]) <= PendingCap
  /\ dropping \in [Sessions -> BOOLEAN] /\ open \in [Sessions -> BOOLEAN]
  /\ phase \in {"idle", "pump", "route", "draw", "dialogs"} /\ toPump \subseteq Sessions
  /\ clock \in 0..MaxItems /\ latest \in [Sessions -> 0..MaxItems]
  /\ lastKey \in [Sessions -> 0..MaxItems]
  /\ lost \in [Sessions -> 0..MaxItems]

\* A session's backend reads keystrokes in the order they were typed, however
\* its reads fall between the two queues' handovers (send_input: "Order is
\* preserved").  Reports and replies, which go round the pending queue, may overtake.
KeysInOrder == [][\A s \in Sessions : lastKey'[s] >= lastKey[s]]_vars

\* ARCHITECTURE 10.3: a host that is still wedged is seen to lose input.  While
\* anything typed before a discarded keystroke waits in the pending queue, the
\* mark stands, so that any frame that draws the pane shows it.  It says no more:
\* a queue that is drained before the pane is next drawn (a tab in the background,
\* or a paste, delivered after the frame was drawn) leaves a loss unsaid.
LossIsMarked ==
  \A s \in Sessions :
    (\E i \in 1..Len(pending[s]) : pending[s][i].n < lost[s]) => dropping[s]

\* The two queues of each session are one FIFO of keystrokes that discards only
\* when PendingCap keys wait, whatever else shares the channel.
KeysOf(items) ==
  LET upTo[i \in 0..Len(items)] ==
        IF i = 0 THEN <<>>
        ELSE IF items[i].kind = "Key" THEN Append(upTo[i - 1], items[i].n) ELSE upTo[i - 1]
  IN  upTo[Len(items)]
Fifo(s) == INSTANCE InputFifo
             WITH Patience <- PendingCap, open <- open[s], latest <- latest[s],
                  queue <- KeysOf(channel[s]) \o KeysOf(pending[s])
KeysAreQueued ==
  /\ \A s \in Sessions : Fifo(s)!Init
  /\ [][\A s \in Sessions : Fifo(s)!Step]_vars

\* ARCHITECTURE 10.3: a wedged session must not stall the others.  What a session
\* with a reading backend queued is delivered, whatever the others do, once input
\* pauses (MaxItems): reports sent for ever could keep its channel full for ever.
\* And as long as frames recur: a backend that reads its channel empty and says
\* nothing asks for none, and the rest waits for the next event, whoever's it is.
Taken(s, n)  == \E i \in 1..Len(pending[s]) : pending[s][i].n = n
FramesRecur  == []<>(phase = "pump")
OthersAreServed ==
  FramesRecur =>
    \A s \in Sessions \ Wedged, n \in 1..MaxItems :
      Taken(s, n) ~> (lastKey[s] >= n \/ ~open[s])

================================================================================
