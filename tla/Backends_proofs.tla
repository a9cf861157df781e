---------------------------- MODULE Backends_proofs ----------------------------
(***************************************************************************)
(* Safety of the direct backends for every capacity of the channels, every *)
(* size of the PTY and any number of messages, writes and device changes.  *)
(***************************************************************************)
EXTENDS MCBackends, SharedLemmas, TLAPS

\* The tuples of variables, for UNCHANGED.
USE DEF device, poll, brk, serial, ctl, tty, pty, pair

--------------------------------------------------------------------------------
(* The channels.                                                             *)

LEMMA Caps ==
  /\ OutputCap \in Nat \ {0} /\ EventCap \in Nat \ {0} /\ ControlCap \in Nat \ {0}
  /\ InputCap \in Nat \ {0} /\ MaxSends \in Nat \ {0}
BY PairAssumption

\* What is sent is an event, if there is room.
LEMMA EmitFits ==
  ASSUME PairOK, NEW e \in Events, Emit(e)
  PROVE  events' \in Seq(Events) /\ Len(events') <= EventCap
BY Caps DEF PairOK, Emit

\* What is taken leaves the rest.
LEMMA TakeFits ==
  ASSUME PairOK, NEW m \in Controls, Takes(m)
  PROVE  control' \in Seq(Controls) /\ Len(control') <= ControlCap
BY Caps DEF PairOK, Takes

LEMMA ReceivesFits == PairOK /\ PaneReceives => PairOK'
<1> SUFFICES ASSUME PairOK, PaneReceives PROVE PairOK'
  OBVIOUS
<1>1. /\ Head(events) \in Events /\ events' \in Seq(Events) /\ Len(events') <= EventCap
      /\ UNCHANGED <<output, input, control, gone, sent>>
  BY Caps DEF PairOK, PaneReceives
<1>2. Head(events).kind = "ModemStatus" => Head(events).value \in Lines
  BY <1>1 DEF Events, Connected, Disconnected, ModemStatus
<1>3. modem' \in Lines \cup {"none"}
  BY <1>2 DEF PaneReceives, PairOK
<1>4. QED
  BY <1>1, <1>3 DEF PairOK

LEMMA SendsFits ==
  ASSUME PairOK, NEW m \in Controls, NEW heard, HandleSends(m, heard)
  PROVE  PairOK'
<1>1. control' \in Seq(Controls) /\ Len(control') <= ControlCap
  BY Caps DEF PairOK, HandleSends
<1>2. QED
  BY <1>1, Caps DEF PairOK, HandleSends

LEMMA DroppedFits == PairOK /\ HandleDropped => PairOK'
<1> SUFFICES ASSUME PairOK, HandleDropped PROVE PairOK'
  OBVIOUS
<1>1. events' \in Seq(Events) /\ Len(events') <= EventCap
  BY Caps DEF HandleDropped
<1>2. QED
  BY <1>1, Caps DEF PairOK, HandleDropped

--------------------------------------------------------------------------------
(* Types.                                                                    *)

\* What is sent was read before; of what the child wrote, each chunk is in
\* one place at most.
TypeInv ==
  /\ TypeOK /\ kind \in {"serial", "pty"}
  /\ pc = "tellModem" => last_modem \in Lines
  /\ controller \in {"reap", "tellEnd", "done"} => reason \in {"Local", "Remote"}
  /\ kind = "pty" =>
       shown + output + unread + (IF reader = "deliver" THEN 1 ELSE 0) <= written

LEMMA InitTypes == Init => TypeInv
<1> SUFFICES ASSUME Init PROVE TypeInv
  OBVIOUS
<1> USE DEF Init, SerialInit, PtyInit, PairInit
<1>1. PairOK
  <2>1. events \in Seq(Events) /\ Len(events) = 0 /\ control \in Seq(Controls) /\ Len(control) = 0
    OBVIOUS
  <2>2. output \in 0..OutputCap /\ input \in 0..InputCap /\ sent \in 0..MaxSends
    BY Caps
  <2>3. Len(events) <= EventCap /\ Len(control) <= ControlCap
    BY <2>1, Caps
  <2>4. QED
    BY <2>1, <2>2, <2>3 DEF PairOK
<1>2. moves \in 0..MaxPlugs /\ unread \in 0..PtyBuf /\ written \in 0..MaxWrites /\ shown \in 0..written
  BY PlugsAssumption, PtyAssumption
<1>3. SerialTypeOK /\ PtyTypeOK
  BY <1>1, <1>2 DEF SerialTypeOK, PtyTypeOK, Pcs
<1>4. QED
  BY <1>3 DEF TypeInv, TypeOK

\* The device's side and the user's side of the serial session.
LEMMA SerialTypes == TypeInv /\ kind = "serial" /\ SerialNext => PairOK' /\ SerialTypeOK' /\ (pc' = "tellModem" => last_modem' \in Lines)
<1> SUFFICES ASSUME TypeInv, SerialNext
             PROVE  PairOK' /\ SerialTypeOK' /\ (pc' = "tellModem" => last_modem' \in Lines)
  OBVIOUS
<1>1. PairOK /\ SerialTypeOK /\ (pc = "tellModem" => last_modem \in Lines)
  BY DEF TypeInv, TypeOK, SerialTypeOK
<1>2. Connected \in Events /\ Disconnected("DeviceRemoved") \in Events /\ Disconnected("Local") \in Events
  BY DEF Events, Reasons
<1>3. \A l \in Lines : ModemStatus(l) \in Events
  BY DEF Events
<1>4. CASE Begin \/ TellLocal \/ TellModem \/ TellRemoved \/ TellConnected
  <2>1. \E e \in Events : Emit(e)
    BY <1>1, <1>2, <1>3, <1>4 DEF Begin, TellLocal, TellModem, TellRemoved, TellConnected, At
  <2>2. events' \in Seq(Events) /\ Len(events') <= EventCap
    BY <1>1, <2>1, EmitFits
  <2>3. QED
    BY <1>1, <1>4, <2>2 DEF Begin, TellLocal, TellModem, TellRemoved, TellConnected, At, Quiet,
       AfterLocal, PairOK, SerialTypeOK, Pcs
<1>5. CASE TakesBreak \/ TakesOther \/ TakesDisconnect \/ Reopened \/ NotBack \/ WaitEnds
  <2>1. UNCHANGED control \/ \E m \in Controls : Takes(m)
    BY <1>5 DEF TakesBreak, TakesOther, TakesDisconnect, Reopened, NotBack, WaitEnds, Controls
  <2>2. control' \in Seq(Controls) /\ Len(control') <= ControlCap
    BY <1>1, <2>1, TakeFits DEF PairOK
  <2>3. PairOK' /\ pc' \in Pcs /\ pc' # "tellModem" /\ last_modem' \in Lines \cup {"none"}
    BY <1>1, <1>5, <2>2 DEF TakesBreak, TakesOther, TakesDisconnect, Reopened, NotBack, WaitEnds, At,
       QuietC, Forgotten, PairOK, SerialTypeOK, Pcs
  <2>4. break' \in BOOLEAN /\ alive' \in BOOLEAN /\ modemDue' \in BOOLEAN
    BY <1>1, <1>5, Zenon DEF TakesBreak, TakesOther, TakesDisconnect, Reopened, NotBack, WaitEnds,
       QuietC, SerialTypeOK
  <2>5. QED
    BY <1>1, <1>5, <2>3, <2>4 DEF TakesBreak, TakesOther, TakesDisconnect, Reopened, NotBack, WaitEnds,
       SerialTypeOK
<1>6. CASE UiGone \/ ControlEmpty \/ BreakStep \/ ModemStep \/ InputEmpty \/ ReadsNothing \/ ReadsData \/ ReadFails
  <2> USE <1>6 DEF UiGone, ControlEmpty, BreakStep, ModemStep, InputEmpty, ReadsNothing, ReadsData,
     ReadFails, At
  <2>1. UNCHANGED pair /\ UNCHANGED device
    OBVIOUS
  <2>2. pc' \in Pcs /\ last_modem' \in Lines \cup {"none"} /\ break_until' \in {"none", "running", "over"}
    BY <1>1 DEF SerialTypeOK, Pcs
  <2>3. break' \in BOOLEAN /\ modemDue' \in BOOLEAN /\ (pc' = "tellModem" => last_modem' \in Lines)
    BY <1>1 DEF SerialTypeOK
  <2>4. QED
    BY <1>1, <2>1, <2>2, <2>3 DEF PairOK, SerialTypeOK
<1>7. CASE WritesInput \/ InputWritten \/ Deliver
  <2>1. /\ UNCHANGED <<control, events, gone, modem, sent, device, poll, brk>>
        /\ pc' \in Pcs /\ pc' # "tellModem"
    BY <1>7 DEF WritesInput, InputWritten, Deliver, At, Pcs
  <2>2. output \in 0..OutputCap /\ input \in 0..InputCap
    BY <1>1 DEF PairOK
  <2>3. output' \in 0..OutputCap /\ input' \in 0..InputCap
    BY <1>7, <2>2, Caps DEF WritesInput, InputWritten, Deliver
  <2>4. QED
    BY <1>1, <2>1, <2>3 DEF PairOK, SerialTypeOK
<1>8. CASE SerialHandle
  <2>1. UNCHANGED serial
    BY <1>8 DEF SerialHandle
  <2>2. PairOK'
    <3>1. CASE PaneReceives \/ HandleDropped
      BY <1>1, <3>1, ReceivesFits, DroppedFits
    <3>2. CASE PaneFinished(pc = "done") \/ PaneReads \/ PaneTypes(pc # "done")
      BY <1>1, <3>2, Caps DEF PaneFinished, PaneReads, PaneTypes, PairOK
    <3>3. ASSUME NEW m \in Controls, HandleSends(m, pc # "done") PROVE PairOK'
      BY <1>1, <3>3, SendsFits
    <3>4. QED
      BY <1>8, <3>1, <3>2, <3>3 DEF SerialHandle
  <2>3. QED
    BY <1>1, <2>1, <2>2 DEF SerialTypeOK
<1>9. CASE Unplugged \/ Plugged \/ LinesChange \/ BreakElapses \/ ModemElapses
  <2> USE <1>9 DEF Unplugged, Plugged, LinesChange, BreakElapses, ModemElapses, Moved
  <2>1. UNCHANGED pair /\ UNCHANGED <<pc, last_modem>>
    OBVIOUS
  <2>2. lines' \in Lines /\ break_until' \in {"none", "running", "over"} /\ moves' \in 0..MaxPlugs
    BY <1>1, PlugsAssumption DEF SerialTypeOK
  <2>3. /\ plugged' \in BOOLEAN /\ alive' \in BOOLEAN /\ break' \in BOOLEAN /\ modemDue' \in BOOLEAN
        /\ alive' => plugged'
    <3>1. CASE Unplugged
      BY <1>1, <3>1 DEF SerialTypeOK
    <3>2. CASE Plugged
      BY <1>1, <3>2 DEF SerialTypeOK
    <3>3. CASE LinesChange
      BY <1>1, <3>3 DEF SerialTypeOK
    <3>4. CASE BreakElapses
      BY <1>1, <3>4 DEF SerialTypeOK
    <3>5. CASE ModemElapses
      BY <1>1, <3>5 DEF SerialTypeOK
    <3>6. QED
      BY <3>1, <3>2, <3>3, <3>4, <3>5
  <2>4. QED
    BY <1>1, <2>1, <2>2, <2>3 DEF PairOK, SerialTypeOK
<1>10. QED
  BY <1>4, <1>5, <1>6, <1>7, <1>8, <1>9 DEF SerialNext, SerialTask

\* The shell's side and the user's side of the local session.
LEMMA PtyTypes == TypeInv /\ kind = "pty" /\ PtyNext /\ UNCHANGED <<serial, kind>> => TypeInv'
<1> SUFFICES ASSUME TypeInv, kind = "pty", PtyNext, UNCHANGED <<serial, kind>> PROVE TypeInv'
  OBVIOUS
<1>1. PairOK /\ PtyTypeOK /\ SerialTypeOK
  BY DEF TypeInv, TypeOK, SerialTypeOK
<1>2. /\ controller \in {"reap", "tellEnd", "done"} => reason \in {"Local", "Remote"}
      /\ shown + output + unread + (IF reader = "deliver" THEN 1 ELSE 0) <= written
      /\ pc = "tellModem" => last_modem \in Lines
  BY DEF TypeInv
<1> DEFINE Rest ==
  /\ controller \in {"tellStart", "select", "reap", "tellEnd", "done"}
  /\ reason \in {"-", "Local", "Remote"} /\ child \in {"running", "dying", "dead"} /\ jobs \in BOOLEAN
  /\ reader \in {"read", "deliver", "done"} /\ writer \in {"wait", "write", "done"}
  /\ controller \in {"reap", "tellEnd", "done"} => reason \in {"Local", "Remote"}
<1> DEFINE Counts ==
  /\ unread \in 0..PtyBuf /\ written \in 0..MaxWrites /\ shown \in 0..written
  /\ shown + output + unread + (IF reader = "deliver" THEN 1 ELSE 0) <= written
<1>3. Rest /\ Counts
  BY <1>1, <1>2 DEF PtyTypeOK
<1>4. SUFFICES PairOK' /\ Rest' /\ Counts'
  BY <1>1, <1>2 DEF TypeInv, TypeOK, SerialTypeOK, PtyTypeOK
<1>5. CASE TellStart \/ CtlTellsEnd
  <2>1. Connected \in Events /\ Disconnected("Local") \in Events /\ Disconnected("Remote") \in Events
    BY DEF Events, Reasons
  <2>2. \E e \in Events : Emit(e)
    BY <1>2, <1>5, <2>1 DEF TellStart, CtlTellsEnd, Goes
  <2>3. events' \in Seq(Events) /\ Len(events') <= EventCap
    BY <1>1, <2>2, EmitFits
  <2>4. UNCHANGED <<output, input, control, gone, modem, sent, reason, tty, shown, reader, writer>>
    BY <1>5 DEF TellStart, CtlTellsEnd, Event
  <2>5. PairOK'
    BY <1>1, <2>3, <2>4 DEF PairOK
  <2>6. QED
    BY <1>3, <1>5, <2>4, <2>5 DEF TellStart, CtlTellsEnd, Goes
<1>6. CASE CtlIgnores \/ CtlKills
  <2>1. UNCHANGED control \/ \E m \in Controls : Takes(m)
    BY <1>6 DEF CtlIgnores, CtlKills, Controls
  <2>2. control' \in Seq(Controls) /\ Len(control') <= ControlCap
    BY <1>1, <2>1, TakeFits DEF PairOK
  <2>3. UNCHANGED <<output, input, events, gone, modem, sent, jobs, written, unread, shown, reader, writer>>
    BY <1>6 DEF CtlIgnores, CtlKills, Heard
  <2>4. PairOK'
    BY <1>1, <2>2, <2>3 DEF PairOK
  <2>5. QED
    BY <1>3, <1>6, <2>3, <2>4 DEF CtlIgnores, CtlKills, Goes, Killed
<1>7. CASE CtlSeesExit \/ CtlReaps
  BY <1>1, <1>3, <1>7 DEF CtlSeesExit, CtlReaps, Goes, PairOK
<1>8. CASE Reader
  <2>1. UNCHANGED <<input, control, events, gone, modem, sent, ctl, child, jobs, written, shown, writer>>
    BY <1>8 DEF Reader, ReaderReads, ReaderEnds, ReaderDelivers
  <2>2. output' \in 0..OutputCap /\ reader' \in {"read", "deliver", "done"} /\ Counts'
    <3>1. output \in 0..OutputCap /\ unread \in 0..PtyBuf /\ written \in Nat /\ shown \in Nat
      BY <1>1, <1>3, PtyAssumption DEF PairOK
    <3>2. CASE ReaderReads
      BY <1>3, <2>1, <3>1, <3>2, PtyAssumption DEF ReaderReads
    <3>3. CASE ReaderEnds
      BY <1>3, <2>1, <3>1, <3>3 DEF ReaderEnds
    <3>4. CASE ReaderDelivers
      BY <1>3, <2>1, <3>1, <3>4, Caps DEF ReaderDelivers
    <3>5. QED
      BY <1>8, <3>2, <3>3, <3>4 DEF Reader
  <2>3. PairOK'
    BY <1>1, <2>1, <2>2 DEF PairOK
  <2>4. QED
    BY <1>3, <2>1, <2>2, <2>3
<1>9. CASE Writer \/ WriterWrites
  <2>1. UNCHANGED <<output, control, events, gone, modem, sent, ctl, tty, shown, reader>>
    BY <1>9 DEF Writer, WriterTakes, WriterWrites, WriterFails, WriterEnds
  <2>2. input' \in 0..InputCap /\ writer' \in {"wait", "write", "done"}
    BY <1>1, <1>9, Caps DEF Writer, WriterTakes, WriterWrites, WriterFails, WriterEnds, PairOK
  <2>3. PairOK'
    BY <1>1, <2>1, <2>2 DEF PairOK
  <2>4. QED
    BY <1>3, <2>1, <2>2, <2>3
<1>10. CASE ChildWrites \/ ChildExits \/ ChildDies \/ JobStarts \/ JobEnds
  <2> USE <1>10 DEF ChildWrites, ChildExits, ChildDies, JobStarts, JobEnds
  <2>1. UNCHANGED <<pair, ctl, shown, reader, writer>>
    OBVIOUS
  <2>2. PairOK'
    BY <1>1, <2>1 DEF PairOK
  <2>3. Counts'
    BY <1>1, <1>3, <2>1, Caps, PtyAssumption DEF PairOK
  <2>4. child' \in {"running", "dying", "dead"} /\ jobs' \in BOOLEAN
    BY <1>3
  <2>5. QED
    BY <1>3, <2>1, <2>2, <2>3, <2>4
<1>11. CASE PtyHandle
  <2>1. UNCHANGED <<ctl, tty, reader, writer>>
    BY <1>11 DEF PtyHandle
  <2>2. CASE PtyReads
    <3>1. PairOK'
      BY <1>1, <2>2, Caps DEF PtyReads, PaneReads, PairOK
    <3>2. Counts'
      BY <1>1, <1>3, <2>1, <2>2, Caps DEF PtyReads, PaneReads, PairOK
    <3>3. QED
      BY <1>3, <2>1, <3>1, <3>2
  <2>3. CASE ~PtyReads
    <3>1. /\ UNCHANGED shown
          /\ PaneReceives \/ HandleDropped \/ PaneFinished(controller = "done") \/ PaneTypes(writer # "done")
               \/ \E m \in {"Resize", "Disconnect"} : HandleSends(m, controller # "done")
      BY <1>11, <2>3 DEF PtyHandle
    <3>2. PairOK'
      <4>1. CASE PaneReceives \/ HandleDropped
        BY <1>1, <4>1, ReceivesFits, DroppedFits
      <4>2. CASE PaneFinished(controller = "done") \/ PaneTypes(writer # "done")
        BY <1>1, <4>2, Caps DEF PaneFinished, PaneTypes, PairOK
      <4>3. ASSUME NEW m \in {"Resize", "Disconnect"}, HandleSends(m, controller # "done") PROVE PairOK'
        <5>1. m \in Controls
          BY DEF Controls
        <5>2. QED
          BY <1>1, <4>3, <5>1, SendsFits
      <4>4. QED
        BY <3>1, <4>1, <4>2, <4>3
    <3>3. output' = output \/ output' = 0
      BY <3>1 DEF PaneReceives, HandleDropped, PaneFinished, PaneTypes, HandleSends
    <3>4. output \in Nat /\ shown \in Nat /\ unread \in Nat /\ written \in Nat
      BY <1>1, <1>3, Caps, PtyAssumption DEF PairOK
    <3>5. Counts'
      BY <1>3, <2>1, <3>1, <3>3, <3>4
    <3>6. QED
      BY <1>3, <2>1, <3>2, <3>5
  <2>4. QED
    BY <2>2, <2>3
<1>12. QED
  BY <1>5, <1>6, <1>7, <1>8, <1>9, <1>10, <1>11 DEF PtyNext, Controller

LEMMA TypeStep == TypeInv /\ [Next]_vars => TypeInv'
<1> SUFFICES ASSUME TypeInv, [Next]_vars PROVE TypeInv'
  OBVIOUS
<1>1. CASE kind = "serial" /\ SerialNext /\ UNCHANGED <<pty, kind>>
  <2>1. PairOK' /\ SerialTypeOK' /\ (pc' = "tellModem" => last_modem' \in Lines)
    BY <1>1, SerialTypes
  <2>2. QED
    BY <1>1, <2>1 DEF TypeInv, TypeOK, PtyTypeOK
<1>2. CASE kind = "pty" /\ PtyNext /\ UNCHANGED <<serial, kind>>
  BY <1>2, PtyTypes
<1>3. CASE UNCHANGED vars
  BY <1>3 DEF vars, TypeInv, TypeOK, SerialTypeOK, PtyTypeOK, PairOK
<1>4. QED
  BY <1>1, <1>2, <1>3 DEF Next

\* Channels, counts and states keep their bounds, whatever the capacities.
THEOREM TypeCorrect == Spec => []TypeOK
<1>1. TypeInv => TypeOK
  BY DEF TypeInv
<1>2. QED
  BY <1>1, InitTypes, TypeStep, PTL DEF Spec

--------------------------------------------------------------------------------
(* The end of a shell.                                                       *)

NoEnd(q) == \A i \in DOMAIN q : q[i].kind # "Disconnected"

\* The controller gets to its report by way of the reaping only.
ReapInv ==
  /\ EndMeansReaped
  /\ kind = "pty" /\ controller \in {"tellEnd", "done"} => child = "dead"

LEMMA ReapStep == TypeInv /\ ReapInv /\ [Next]_vars => ReapInv'
<1> SUFFICES ASSUME TypeInv, ReapInv, [Next]_vars, kind' = "pty", child' # "dead" PROVE ReapInv'
  BY DEF ReapInv, EndMeansReaped
<1>1. events \in Seq(Events) /\ PairOK
  BY DEF TypeInv, TypeOK, SerialTypeOK, PairOK
<1>2. kind = "pty" /\ child # "dead"
  <2>1. kind = "pty"
    BY DEF Next, vars
  <2>2. PtyNext \/ UNCHANGED child
    BY <2>1 DEF Next, vars
  <2>3. QED
    BY <2>1, <2>2 DEF PtyNext, Controller, TellStart, CtlIgnores, CtlKills, Killed, CtlSeesExit, CtlReaps,
       CtlTellsEnd, Reader, ReaderReads, ReaderEnds, ReaderDelivers, Writer, WriterTakes, WriterFails,
       WriterEnds, WriterWrites, PtyHandle, ChildWrites, ChildExits, ChildDies, JobStarts, JobEnds
<1>3. NoEnd(events) /\ phase \notin {"Local", "Remote"} /\ controller \notin {"tellEnd", "done"}
  BY <1>2 DEF ReapInv, EndMeansReaped, NoEnd
<1>4. SUFFICES NoEnd(events') /\ phase' \notin {"Local", "Remote"} /\ controller' \notin {"tellEnd", "done"}
  BY DEF ReapInv, EndMeansReaped, NoEnd
<1>5. CASE TellStart
  <2>1. controller' = "select" /\ UNCHANGED phase /\ Emit(Connected)
    BY <1>5 DEF TellStart, Goes, Event
  <2>2. UNCHANGED events \/ events' = Append(events, Connected)
    BY <2>1 DEF Emit
  <2>3. NoEnd(events')
    BY <1>1, <1>3, <2>2 DEF NoEnd, Connected
  <2>4. QED
    BY <1>3, <2>1, <2>3
<1>6. CASE PaneReceives /\ UNCHANGED controller
  <2>1. events # <<>> /\ events' = Tail(events) /\ Head(events) = events[1] /\ 1 \in DOMAIN events
    BY <1>1, <1>6 DEF PaneReceives
  <2>2. NoEnd(events')
    BY <1>1, <1>3, <2>1 DEF NoEnd
  <2>3. Head(events).kind # "Disconnected"
    BY <1>3, <2>1 DEF NoEnd
  <2>4. phase' \notin {"Local", "Remote"}
    BY <1>3, <1>6, <2>3 DEF PaneReceives
  <2>5. QED
    BY <1>3, <1>6, <2>2, <2>4
<1>7. CASE (UNCHANGED events \/ events' = <<>>) /\ (UNCHANGED phase \/ phase' = "Finished")
             /\ controller' \notin {"tellEnd", "done"}
  BY <1>3, <1>7 DEF NoEnd
<1>8. QED
  <2>1. CASE PtyNext
    BY <1>2, <1>3, <1>5, <1>6, <1>7, <2>1 DEF PtyNext, Controller, CtlIgnores, CtlKills, CtlSeesExit, CtlReaps, Reaped,
       CtlTellsEnd, Goes, Heard, Reader, ReaderReads, ReaderEnds, ReaderDelivers, Writer, WriterTakes,
       WriterFails, WriterEnds, WriterWrites, PtyHandle, PtyReads, PaneReads, PaneFinished, HandleDropped,
       HandleSends, PaneTypes, ChildWrites, ChildExits, ChildDies, JobStarts, JobEnds
  <2>2. CASE UNCHANGED vars
    BY <1>3, <1>7, <2>2 DEF vars
  <2>3. QED
    BY <1>2, <2>1, <2>2 DEF Next

\* The pane never hears of the end of a shell that still runs.
THEOREM EndsAreReaped == Spec => []EndMeansReaped
<1>1. Init => TypeInv /\ ReapInv
  BY InitTypes DEF Init, SerialInit, PtyInit, PairInit, ReapInv, EndMeansReaped
<1>2. TypeInv /\ ReapInv /\ [Next]_vars => (TypeInv /\ ReapInv)'
  BY TypeStep, ReapStep
<1>3. ReapInv => EndMeansReaped
  BY DEF ReapInv
<1>4. QED
  BY <1>1, <1>2, <1>3, PTL DEF Spec

--------------------------------------------------------------------------------
(* The contract of the events channel.                                       *)

States == {"Idle", "Connected"} \cup Reasons
Reports(e) == e.kind \in {"Connected", "Disconnected"}

\* What the contract lets follow what, and what taking an event does to whoever
\* has seen `a'.
Follows(a, b) ==
  \/ b = "Connected" /\ (a = "Idle" \/ (a = "DeviceRemoved" /\ kind = "serial"))
  \/ b \in Reasons /\ a = "Connected"
After(e, a) == IF e.kind = "Connected" THEN "Connected" ELSE IF e.kind = "Disconnected" THEN e.value ELSE a
Moves ==
  {m \in States \X Events \X States :
     m[3] = After(m[2], m[1]) /\ (Reports(m[2]) => Follows(m[1], m[3]))}

\* What the newest lifecycle event was, at each place of the backend.
Working ==
  {"control", "tellLocal", "break", "modem", "tellModem", "input", "writing", "read", "deliver",
   "tellRemoved"}
Said(b) ==
  /\ kind = "serial" =>
       /\ pc = "begin" => b = "Idle"
       /\ pc \in Working => b = "Connected"
       /\ pc \in {"unplugged", "tellConnected"} => b = "DeviceRemoved"
       /\ pc = "done" => b \in Reasons
  /\ kind = "pty" =>
       /\ controller = "tellStart" => b = "Idle"
       /\ controller \in {"select", "reap", "tellEnd"} => b = "Connected"
       /\ controller = "done" => b \in Reasons
Over == IF kind = "serial" THEN pc = "done" ELSE controller = "done"

\* As long as there is a pane, what is queued leads from what it has seen to what
\* the backend has said, and it has seen the end only when there is no more.
ContractInv ==
  ~gone => IF phase = "Finished" THEN Over /\ events = <<>>
           ELSE phase \in States /\ \E b \in States : Said(b) /\ Path(events, phase, b, States, Moves)

\* A step that says nothing, and one that says e, keep to the order.
Silently == UNCHANGED events /\ \A b \in States : Said(b) => Said(b)'
Says(e) ==
  /\ events' = Append(events, e)
  /\ \A b \in States : Said(b) => Said(After(e, b))' /\ (Reports(e) => Follows(b, After(e, b)))

LEMMA SerialSays ==
  ASSUME TypeInv, kind = "serial", SerialTask, UNCHANGED kind, ~gone
  PROVE  /\ UNCHANGED <<gone, phase>> /\ ~Over
         /\ Silently \/ \E e \in Events : Says(e)
<1>1. UNCHANGED <<gone, phase>> /\ ~Over
  BY DEF Over, SerialTask, Begin, TakesBreak, TakesOther, TakesDisconnect, TellLocal, UiGone, ControlEmpty,
     BreakStep, ModemStep, TellModem, WritesInput, InputWritten, InputEmpty, ReadsNothing, ReadsData, ReadFails, Deliver,
     TellRemoved, Reopened, NotBack, WaitEnds, TellConnected, At, Quiet, QuietC
<1>2. CASE Begin \/ TellConnected
  <2>1. Says(Connected)
    BY <1>2 DEF Begin, TellConnected, At, Emit, Says, Said, Working, After, Reports, Follows, Connected
  <2>2. QED
    BY <1>1, <2>1 DEF Events
<1>3. CASE TellLocal
  <2>1. Says(Disconnected("Local"))
    BY <1>3 DEF TellLocal, AfterLocal, At, Emit, Says, Said, Working, After, Reports, Follows, Disconnected, Reasons
  <2>2. QED
    BY <1>1, <2>1 DEF Events, Reasons
<1>4. CASE TellRemoved
  <2>1. Says(Disconnected("DeviceRemoved"))
    BY <1>4 DEF TellRemoved, At, Emit, Says, Said, Working, After, Reports, Follows, Disconnected, Reasons
  <2>2. QED
    BY <1>1, <2>1 DEF Events, Reasons
<1>5. CASE TellModem
  <2>1. Says(ModemStatus(last_modem))
    BY <1>5 DEF TellModem, At, Emit, Says, Said, Working, After, Reports, ModemStatus
  <2>2. last_modem \in Lines
    BY <1>5 DEF TellModem, At, TypeInv
  <2>3. QED
    BY <1>1, <2>1, <2>2 DEF Events
<1>6. CASE ~(Begin \/ TellConnected \/ TellLocal \/ TellRemoved \/ TellModem)
  <2>1. Silently
    BY <1>6 DEF SerialTask, TakesBreak, TakesOther, TakesDisconnect, UiGone, HandleGone, ControlEmpty,
     BreakStep, ModemStep, WritesInput, InputWritten, InputEmpty, ReadsNothing, ReadsData, ReadFails, Deliver,
     Reopened, NotBack, WaitEnds, At, QuietC, Silently, Said, Working, Reasons
  <2>2. QED
    BY <1>1, <2>1
<1>7. QED
  BY <1>2, <1>3, <1>4, <1>5, <1>6

LEMMA PtySays ==
  ASSUME TypeInv, kind = "pty", Controller, UNCHANGED kind, ~gone
  PROVE  /\ UNCHANGED <<gone, phase>> /\ ~Over
         /\ Silently \/ \E e \in Events : Says(e)
<1>1. UNCHANGED <<gone, phase>> /\ ~Over
  BY DEF Over, Controller, TellStart, CtlIgnores, CtlKills, CtlSeesExit, CtlReaps, CtlTellsEnd, Goes, Event, Heard
<1>2. CASE TellStart
  <2>1. Says(Connected)
    BY <1>2 DEF TellStart, Goes, Emit, Says, Said, After, Reports, Follows, Connected
  <2>2. QED
    BY <1>1, <2>1 DEF Events
<1>3. CASE CtlTellsEnd
  <2>1. reason \in Reasons
    BY <1>3 DEF CtlTellsEnd, Goes, TypeInv, Reasons
  <2>2. Says(Disconnected(reason))
    BY <1>3, <2>1 DEF CtlTellsEnd, Goes, Emit, Says, Said, After, Reports, Follows, Disconnected
  <2>3. QED
    BY <1>1, <2>1, <2>2 DEF Events
<1>4. CASE CtlIgnores \/ CtlKills \/ CtlSeesExit \/ CtlReaps
  <2>1. Silently
    BY <1>4 DEF CtlIgnores, CtlKills, CtlSeesExit, CtlReaps, Goes, Heard, Silently, Said
  <2>2. QED
    BY <1>1, <2>1
<1>5. QED
  BY <1>2, <1>3, <1>4 DEF Controller

\* Every step is one of the backend's, takes an event, sees the end, drops the
\* handle, or concerns none of them.
LEMMA StepKinds ==
  ASSUME [Next]_vars, ~gone, kind \in {"serial", "pty"}
  PROVE  /\ UNCHANGED kind
         /\ \/ kind = "serial" /\ SerialTask
            \/ kind = "pty" /\ Controller
            \/ PaneReceives /\ UNCHANGED <<pc, controller>>
            \/ PaneFinished(Over) /\ UNCHANGED <<pc, controller>>
            \/ gone' /\ UNCHANGED phase
            \/ UNCHANGED <<pc, controller, events, phase, gone>>
<1>1. CASE kind = "serial" /\ SerialNext /\ UNCHANGED <<pty, kind>>
  <2>1. PaneFinished(pc = "done") => PaneFinished(Over)
    BY <1>1 DEF PaneFinished, Over
  <2>2. QED
    BY <1>1, <2>1 DEF SerialNext, SerialHandle, PaneReads, PaneTypes, HandleSends, HandleDropped,
       Unplugged, Plugged, LinesChange, BreakElapses, ModemElapses
<1>2. CASE kind = "pty" /\ PtyNext /\ UNCHANGED <<serial, kind>>
  <2>1. PaneFinished(controller = "done") => PaneFinished(Over)
    BY <1>2 DEF PaneFinished, Over
  <2>2. QED
    BY <1>2, <2>1 DEF PtyNext, PtyHandle, PtyReads, PaneReads, PaneTypes, HandleSends, HandleDropped,
       Reader, ReaderReads, ReaderEnds, ReaderDelivers, Writer, WriterTakes, WriterFails, WriterEnds,
       WriterWrites, ChildWrites, ChildExits, ChildDies, JobStarts, JobEnds
<1>3. CASE UNCHANGED vars
  BY <1>3 DEF vars
<1>4. QED
  BY <1>1, <1>2, <1>3 DEF Next

\* What the pane takes is the next move.
LEMMA PaneMoves ==
  ASSUME TypeInv, ContractInv, PaneReceives
  PROVE  /\ phase \in States /\ phase' \in States
         /\ phase' # phase => Follows(phase, phase')
         /\ \E b \in States : Said(b) /\ Path(events', phase', b, States, Moves)
<1>1. /\ ~gone /\ events \in Seq(Events) /\ events # <<>> /\ events' = Tail(events)
      /\ phase' = After(Head(events), phase)
  BY DEF PaneReceives, After, TypeInv, TypeOK, SerialTypeOK, PairOK
<1>2. phase \in States
  BY <1>1 DEF ContractInv
<1>3. PICK b \in States : Said(b) /\ Path(events, phase, b, States, Moves)
  BY <1>1 DEF ContractInv
<1>4. PICK c \in States : <<phase, Head(events), c>> \in Moves /\ Path(Tail(events), c, b, States, Moves)
  BY <1>1, <1>3, PathTail
<1>5. c = After(Head(events), phase) /\ (Reports(Head(events)) => Follows(phase, c))
  BY <1>4 DEF Moves
<1>6. ~Reports(Head(events)) => phase' = phase
  BY <1>1 DEF Reports, After
<1>7. QED
  BY <1>1, <1>2, <1>3, <1>4, <1>5, <1>6

\* Nobody is left to see anything.
LEMMA GoneSeesNothing ==
  ASSUME [Next]_vars, gone
  PROVE  gone' /\ UNCHANGED phase
BY DEF Next, vars, SerialNext, SerialTask, Begin, TakesBreak, TakesOther, TakesDisconnect,
   TellLocal, UiGone, ControlEmpty, BreakStep, ModemStep, TellModem, WritesInput, InputWritten, InputEmpty,
   ReadsNothing, ReadsData, ReadFails, Deliver, TellRemoved, Reopened, NotBack, WaitEnds, TellConnected,
   At, Quiet, QuietC, SerialHandle, PaneReceives, PaneFinished, PaneReads, HandleDropped, HandleSends,
   PaneTypes, Unplugged, Plugged, LinesChange, BreakElapses, ModemElapses, PtyNext, Controller,
   TellStart, CtlIgnores, CtlKills, CtlSeesExit, CtlReaps, CtlTellsEnd, Goes, Event, Heard, PtyHandle,
   PtyReads, Reader, ReaderReads, ReaderEnds, ReaderDelivers, Writer, WriterTakes, WriterFails,
   WriterEnds, WriterWrites, ChildWrites, ChildExits, ChildDies, JobStarts, JobEnds

LEMMA ContractStep == TypeInv /\ ContractInv /\ [Next]_vars => ContractInv'
<1> SUFFICES ASSUME TypeInv, ContractInv, [Next]_vars, ~gone' PROVE ContractInv'
  BY DEF ContractInv
<1>1. kind \in {"serial", "pty"} /\ events \in Seq(Events) /\ gone \in BOOLEAN
  BY DEF TypeInv, TypeOK, SerialTypeOK, PairOK
<1>2. CASE ~gone
  <2>0. UNCHANGED kind /\ Moves' = Moves
    <3>1. UNCHANGED kind
      BY <1>1, <1>2, StepKinds
    <3>2. QED
      BY <3>1 DEF Moves, Follows
  <2>1. CASE (kind = "serial" /\ SerialTask) \/ (kind = "pty" /\ Controller)
    <3>1. /\ UNCHANGED <<gone, phase>> /\ ~Over
          /\ Silently \/ \E e \in Events : Says(e)
      BY <1>2, <2>0, <2>1, SerialSays, PtySays
    <3>2. phase # "Finished" /\ phase \in States
      BY <1>2, <3>1 DEF ContractInv
    <3>3. PICK b \in States : Said(b) /\ Path(events, phase, b, States, Moves)
      BY <1>2, <3>2 DEF ContractInv
    <3>4. CASE Silently
      BY <2>0, <3>1, <3>2, <3>3, <3>4 DEF Silently, ContractInv
    <3>5. ASSUME NEW e \in Events, Says(e) PROVE ContractInv'
      <4>1. /\ events' = Append(events, e) /\ Said(After(e, b))'
            /\ Reports(e) => Follows(b, After(e, b))
        BY <3>3, <3>5 DEF Says
      <4>2. After(e, b) \in States
        BY DEF After, States, Events, Connected, Disconnected, ModemStatus
      <4>3. <<b, e, After(e, b)>> \in Moves
        BY <4>1, <4>2 DEF Moves
      <4>4. Path(events', phase, After(e, b), States, Moves)
        BY <1>1, <3>3, <4>1, <4>2, <4>3, PathAppend
      <4>5. QED
        BY <2>0, <3>1, <3>2, <4>1, <4>2, <4>4 DEF ContractInv
    <3>6. QED
      BY <3>1, <3>4, <3>5
  <2>2. CASE PaneReceives /\ UNCHANGED <<pc, controller>>
    <3>1. /\ phase' \in States
          /\ \E b \in States : Said(b) /\ Path(events', phase', b, States, Moves)
      BY <2>2, PaneMoves
    <3>2. \A b : Said(b) => Said(b)'
      BY <2>0, <2>2 DEF Said
    <3>3. phase' # "Finished"
      BY <3>1 DEF States, Reasons
    <3>4. QED
      BY <2>0, <3>1, <3>2, <3>3 DEF ContractInv
  <2>3. CASE PaneFinished(Over) /\ UNCHANGED <<pc, controller>>
    BY <2>0, <2>3 DEF PaneFinished, ContractInv, Over
  <2>4. CASE UNCHANGED <<pc, controller, events, phase, gone>>
    BY <2>0, <2>4 DEF ContractInv, Over, Said
  <2>5. QED
    BY <1>1, <1>2, <2>1, <2>2, <2>3, <2>4, StepKinds
<1>3. CASE gone
  <2>1. gone'
    BY <1>3, GoneSeesNothing
  <2>2. QED
    BY <2>1
<1>4. QED
  BY <1>2, <1>3

\* The pane's view changes only as the contract says.
LEMMA ContractSteps ==
  TypeInv /\ ContractInv /\ [Next]_vars => [Contract!Next \/ ReopensUnannounced]_phase
<1> SUFFICES ASSUME TypeInv, ContractInv, [Next]_vars, phase' # phase
             PROVE  Contract!Next \/ ReopensUnannounced
  OBVIOUS
<1>1. kind \in {"serial", "pty"} /\ ~gone
  BY GoneSeesNothing DEF TypeInv
<1>2. UNCHANGED kind
  BY <1>1, StepKinds
<1>3. PaneReceives \/ PaneFinished(Over)
  BY <1>1, <1>2, StepKinds, SerialSays, PtySays
<1> USE DEF Contract!Next, Contract!Opened, Contract!Disconnected, Contract!Finished
<1>4. CASE PaneReceives
  <2>1. Follows(phase, phase')
    BY <1>4, PaneMoves
  <2>2. QED
    BY <2>1 DEF Follows, Reasons, ReopensUnannounced
<1>5. CASE PaneFinished(Over)
  <2>1. Over /\ events = <<>> /\ phase # "Finished" /\ phase' = "Finished"
    BY <1>5 DEF PaneFinished
  <2>2. PICK b \in States : Said(b) /\ Path(events, phase, b, States, Moves)
    BY <1>1, <2>1 DEF ContractInv
  <2>3. phase = b /\ b \in Reasons
    <3>1. phase \in States
      BY <1>1, <2>1 DEF ContractInv
    <3>2. QED
      BY <1>1, <2>1, <2>2, <3>1, PathEmpty DEF Said, Over
  <2>4. QED
    BY <2>1, <2>3 DEF Reasons
<1>6. QED
  BY <1>3, <1>4, <1>5

\* Both backends implement the contract of the events channel: the pane learns of
\* the start before anything else, of the end last, and of a device's return only
\* after its removal.
THEOREM DirectContractIsKept == Spec => DirectContract
<1>1. Init => TypeInv /\ ContractInv /\ Contract!Init
  <2>1. ASSUME Init PROVE ContractInv /\ Contract!Init
    <3>1. events = <<>> /\ phase = "Idle" /\ pc = "begin" /\ controller = "tellStart"
      BY <2>1 DEF Init, SerialInit, PtyInit, PairInit
    <3>2. "Idle" \in States /\ Said("Idle") /\ Path(events, phase, "Idle", States, Moves)
      BY <3>1, PathEmpty DEF States, Said, Working
    <3>3. QED
      BY <3>1, <3>2 DEF ContractInv, Contract!Init
  <2>2. QED
    BY <2>1, InitTypes
<1>2. TypeInv /\ ContractInv /\ [Next]_vars => (TypeInv /\ ContractInv)' /\ [Contract!Next \/ ReopensUnannounced]_phase
  BY TypeStep, ContractStep, ContractSteps
<1>3. QED
  BY <1>1, <1>2, PTL DEF Spec, DirectContract
================================================================================
