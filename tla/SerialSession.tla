----------------------------- MODULE SerialSession -----------------------------
(***************************************************************************)
(* The serial backend: one thread that polls control, BREAK, the modem     *)
(* lines, input and the port in turn, and waits for a `Reconnect' while    *)
(* the adapter is unplugged.  `pc' is the next thing it does; where it     *)
(* blocks on a channel, it is a value of its own.                          *)
(***************************************************************************)
EXTENDS TransportPair

CONSTANT MaxPlugs     \* bound on what happens to the device: pulls, plugs, line changes

ASSUME PlugsAssumption == MaxPlugs \in Nat

VARIABLES
  pc,
  plugged,      \* the device is there
  alive,        \* the open port still works: a replugged device needs reopening
  lines,        \* the modem input lines as they are
  last_modem,   \* as last reported, "none" at first
  modemDue,     \* modem_deadline has passed
  break,        \* the port asserts BREAK
  break_until,  \* "none", "running" or "over"
  moves

device == <<plugged, alive, lines, moves>>
poll   == <<last_modem, modemDue>>
brk    == <<break, break_until>>
serial == <<pc, device, poll, brk>>

Pcs == {"begin", "control", "tellLocal", "break", "modem", "tellModem", "input", "writing",
        "read", "deliver", "tellRemoved", "unplugged", "tellConnected", "done"}

SerialInit ==
  /\ PairInit /\ pc = "begin" /\ plugged = TRUE /\ alive = TRUE /\ lines \in Lines /\ moves = 0
  /\ last_modem = "none" /\ modemDue = TRUE /\ break = FALSE /\ break_until = "none"

At(here, there) == pc = here /\ pc' = there
Quiet  == UNCHANGED <<output, input, control, gone, phase, modem, sent>>
QuietC == UNCHANGED <<output, input, events, gone, phase, modem, sent>>

Begin == At("begin", "control") /\ Emit(Connected) /\ Quiet /\ UNCHANGED <<device, poll, brk>>

--------------------------------------------------------------------------------
(* 1. Control: everything pending.                                           *)

TakesBreak ==
  /\ At("control", "control") /\ Takes("Break")
  /\ break' = alive /\ break_until' = "running" /\ QuietC /\ UNCHANGED <<device, poll>>

\* Resize, Reconnect, forwards and SFTP mean nothing here.
TakesOther ==
  /\ At("control", "control") /\ (Takes("Resize") \/ Takes("Reconnect"))
  /\ QuietC /\ UNCHANGED <<device, poll, brk>>

TakesDisconnect ==
  /\ At("control", "tellLocal") /\ Takes("Disconnect") /\ QuietC /\ UNCHANGED <<device, poll, brk>>

AfterLocalMutant == "control"
AfterLocal == "done"

TellLocal ==
  /\ At("tellLocal", AfterLocal) /\ Emit(Disconnected("Local")) /\ Quiet
  /\ UNCHANGED <<device, poll, brk>>

UiGone ==
  /\ At("control", "done") /\ HandleGone /\ UNCHANGED <<pair, device, poll, brk>>

ControlEmpty ==
  /\ At("control", "break") /\ control = <<>> /\ ~gone /\ UNCHANGED <<pair, device, poll, brk>>

BreakOverMutant == break_until = "running"
BreakOver == break_until = "over"

BreakStep ==
  /\ At("break", "modem")
  /\ IF BreakOver THEN break' = FALSE /\ break_until' = "none" ELSE UNCHANGED brk
  /\ UNCHANGED <<pair, device, poll>>

--------------------------------------------------------------------------------
(* 2. The modem lines, when due; a read that fails keeps what was.           *)

ModemStep ==
  /\ pc = "modem" /\ modemDue' = FALSE
  /\ IF modemDue /\ alive /\ last_modem # lines
     THEN last_modem' = lines /\ pc' = "tellModem"
     ELSE UNCHANGED last_modem /\ pc' = "input"
  /\ UNCHANGED <<pair, device, brk>>

TellModem ==
  /\ At("tellModem", "input") /\ Emit(ModemStatus(last_modem)) /\ Quiet
  /\ UNCHANGED <<device, poll, brk>>

--------------------------------------------------------------------------------
(* 3. Input to the line, then the line to output.                            *)

\* write_all and flush: with flow control on they wait as long as the far end
\* asks them to.  Whether they succeed is not looked at.
WritesInput ==
  /\ At("input", "writing") /\ input > 0 /\ input' = input - 1
  /\ UNCHANGED <<output, control, events, gone, phase, modem, sent, device, poll, brk>>
InputWritten == At("writing", "input") /\ UNCHANGED <<pair, device, poll, brk>>
InputEmpty ==
  /\ At("input", IF gone THEN "done" ELSE "read") /\ input = 0
  /\ UNCHANGED <<pair, device, poll, brk>>

ReadsNothing == At("read", "control") /\ alive /\ UNCHANGED <<pair, device, poll, brk>>
ReadsData    == At("read", "deliver") /\ alive /\ UNCHANGED <<pair, device, poll, brk>>
ReadFails    == At("read", "tellRemoved") /\ ~alive /\ UNCHANGED <<pair, device, poll, brk>>

Deliver ==
  /\ pc = "deliver"
  /\ \/ gone /\ pc' = "done" /\ UNCHANGED output
     \/ ~gone /\ output < OutputCap /\ output' = output + 1 /\ pc' = "control"
  /\ UNCHANGED <<input, control, events, gone, phase, modem, sent, device, poll, brk>>

--------------------------------------------------------------------------------
(* Unplugged.                                                                *)

TellRemoved ==
  /\ At("tellRemoved", "unplugged") /\ Emit(Disconnected("DeviceRemoved")) /\ Quiet
  /\ UNCHANGED <<device, poll, brk>>

ForgottenMutant == UNCHANGED last_modem
Forgotten == last_modem' = "none"

Reopened ==
  /\ At("unplugged", "tellConnected") /\ Takes("Reconnect") /\ plugged
  /\ alive' = TRUE /\ break' = FALSE /\ break_until' = "none" /\ Forgotten /\ modemDue' = TRUE
  /\ QuietC /\ UNCHANGED <<plugged, lines, moves>>

\* The port is not back, or cannot be opened for another reason.
NotBack ==
  /\ At("unplugged", "unplugged") /\ (Takes("Reconnect") \/ Takes("Break") \/ Takes("Resize"))
  /\ QuietC /\ UNCHANGED <<device, poll, brk>>

\* The loop ends without another event: the pane knows the device is gone.
WaitEnds ==
  /\ At("unplugged", "done") /\ (Takes("Disconnect") \/ (HandleGone /\ UNCHANGED control))
  /\ QuietC /\ UNCHANGED <<device, poll, brk>>

TellConnected ==
  /\ At("tellConnected", "control") /\ Emit(Connected) /\ Quiet /\ UNCHANGED <<device, poll, brk>>

--------------------------------------------------------------------------------
(* The device, and time.                                                     *)

Moved == moves < MaxPlugs /\ moves' = moves + 1
Unplugged ==
  /\ Moved /\ plugged /\ plugged' = FALSE /\ alive' = FALSE /\ break' = FALSE
  /\ UNCHANGED <<pair, pc, lines, poll, break_until>>
Plugged ==
  /\ Moved /\ ~plugged /\ plugged' = TRUE /\ UNCHANGED <<pair, pc, alive, lines, poll, brk>>
LinesChange ==
  /\ Moved /\ \E l \in Lines \ {lines} : lines' = l
  /\ UNCHANGED <<pair, pc, plugged, alive, poll, brk>>

BreakElapses ==
  /\ break_until = "running" /\ break_until' = "over" /\ UNCHANGED <<pair, pc, device, poll, break>>
ModemElapses ==
  /\ ~modemDue /\ pc # "done" /\ modemDue' = TRUE
  /\ UNCHANGED <<pair, pc, device, last_modem, brk>>

SerialHandle ==
  /\ \/ PaneReceives \/ PaneFinished(pc = "done") \/ PaneReads \/ HandleDropped
     \/ \E m \in Controls : HandleSends(m, pc # "done")
     \/ PaneTypes(pc # "done")
  /\ UNCHANGED serial

SerialTask ==
  \/ Begin \/ TakesBreak \/ TakesOther \/ TakesDisconnect \/ TellLocal \/ UiGone \/ ControlEmpty
  \/ BreakStep \/ ModemStep \/ TellModem \/ WritesInput \/ InputWritten \/ InputEmpty \/ ReadsNothing
  \/ ReadsData \/ ReadFails \/ Deliver \/ TellRemoved \/ Reopened \/ NotBack \/ WaitEnds \/ TellConnected

SerialNext ==
  SerialTask \/ SerialHandle \/ Unplugged \/ Plugged \/ LinesChange \/ BreakElapses \/ ModemElapses

--------------------------------------------------------------------------------
(* Properties.                                                               *)

SerialTypeOK ==
  /\ PairOK /\ pc \in Pcs /\ plugged \in BOOLEAN /\ alive \in BOOLEAN /\ lines \in Lines
  /\ alive => plugged
  /\ last_modem \in Lines \cup {"none"} /\ modemDue \in BOOLEAN
  /\ break \in BOOLEAN /\ break_until \in {"none", "running", "over"} /\ moves \in 0..MaxPlugs
================================================================================
