---------------------------- MODULE TransportPair ----------------------------
(***************************************************************************)
(* The channels of a TransportHandle, and the pane that holds it, as the   *)
(* serial and the PTY backend meet them.  Bytes are counted.  The relays   *)
(* of the pane keep the order, so an event the pane takes is one that went *)
(* through its relay.                                                      *)
(***************************************************************************)
EXTENDS Integers, Sequences

CONSTANTS
  OutputCap, EventCap, ControlCap, InputCap,
  MaxSends      \* bound on what the user sends, messages and keys

ASSUME PairAssumption == {OutputCap, EventCap, ControlCap, InputCap, MaxSends} \subseteq Nat \ {0}

VARIABLES
  output, input,        \* chunks in the two data channels
  control, events,      \* messages in the other two
  gone,         \* the UI has dropped its ends
  phase,        \* the last lifecycle event the pane has seen, as in TransportLifecycle
  modem,        \* LivePane::modem
  sent

pair == <<output, input, control, events, gone, phase, modem, sent>>

Disconnected(reason) == [kind |-> "Disconnected", value |-> reason]
Connected            == [kind |-> "Connected", value |-> "-"]
ModemStatus(lines)   == [kind |-> "ModemStatus", value |-> lines]
Lines    == {"low", "high"}
Reasons  == {"DeviceRemoved", "Local", "Remote"}
Events   == {Connected} \cup {Disconnected(r) : r \in Reasons} \cup {ModemStatus(l) : l \in Lines}
Controls == {"Break", "Reconnect", "Disconnect", "Resize"}

PairInit ==
  /\ output = 0 /\ input = 0 /\ control = <<>> /\ events = <<>>
  /\ gone = FALSE /\ phase = "Idle" /\ modem = "none" /\ sent = 0

(* The backend's end.                                                        *)

\* The Mutant definitions are wrong variants of what they precede.
\* A send waits for room, and fails at once when the receiver is gone.
EmitMutant(e) == IF gone THEN UNCHANGED events ELSE events' = Append(events, e)
Emit(e) ==
  \/ gone /\ UNCHANGED events
  \/ ~gone /\ Len(events) < EventCap /\ events' = Append(events, e)

Takes(m) == control # <<>> /\ Head(control) = m /\ control' = Tail(control)
HandleGone == gone /\ control = <<>>

(* The UI's end.  `closed': the backend has dropped its sender of events;    *)
(* `heard': its receivers of control and input.                              *)

PaneReceives ==
  /\ ~gone /\ events # <<>> /\ events' = Tail(events)
  /\ LET e == Head(events) IN
     /\ phase' = CASE e.kind = "Connected" -> "Connected"
                   [] e.kind = "Disconnected" -> e.value
                   [] OTHER -> phase
     /\ modem' = CASE e.kind = "ModemStatus" -> e.value
                   [] e.kind = "Disconnected" -> "none"
                   [] OTHER -> modem
  /\ UNCHANGED <<output, input, control, gone, sent>>

PaneFinished(closed) ==
  /\ ~gone /\ closed /\ events = <<>> /\ phase # "Finished" /\ phase' = "Finished"
  /\ UNCHANGED <<output, input, control, events, gone, modem, sent>>

PaneReads ==
  /\ ~gone /\ output > 0 /\ output' = output - 1
  /\ UNCHANGED <<input, control, events, gone, phase, modem, sent>>

HandleSends(m, heard) ==
  /\ ~gone /\ heard /\ sent < MaxSends /\ sent' = sent + 1
  /\ Len(control) < ControlCap /\ control' = Append(control, m)
  /\ UNCHANGED <<output, input, events, gone, phase, modem>>

PaneTypes(heard) ==
  /\ ~gone /\ heard /\ sent < MaxSends /\ sent' = sent + 1
  /\ input < InputCap /\ input' = input + 1
  /\ UNCHANGED <<output, control, events, gone, phase, modem>>

\* The tab closes: what is on its way to the pane is lost.
HandleDropped ==
  /\ ~gone /\ gone' = TRUE /\ output' = 0 /\ events' = <<>>
  /\ UNCHANGED <<input, control, phase, modem, sent>>

PairOK ==
  /\ output \in 0..OutputCap /\ input \in 0..InputCap
  /\ control \in Seq(Controls) /\ Len(control) <= ControlCap
  /\ events \in Seq(Events) /\ Len(events) <= EventCap
  /\ modem \in Lines \cup {"none"} /\ gone \in BOOLEAN /\ sent \in 0..MaxSends
================================================================================
