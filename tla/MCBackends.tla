------------------------------ MODULE MCBackends ------------------------------
(* One session over a direct backend: the serial port or the local shell.    *)
(* Either has the pane to itself, and the variables of the other stay still. *)
EXTENDS SerialSession, PtySession, TLC

VARIABLE kind

vars == <<pair, serial, pty, kind>>

Init == kind \in {"serial", "pty"} /\ SerialInit /\ PtyInit
Next ==
  \/ kind = "serial" /\ SerialNext /\ UNCHANGED <<pty, kind>>
  \/ kind = "pty" /\ PtyNext /\ UNCHANGED <<serial, kind>>

Spec == Init /\ [][Next]_vars

\* Threads and tasks run, timers elapse, and frames are drawn while there is a
\* pane to draw.  The user, the device, the shell and what it starts do as they
\* like: a line may hold a write, a shell may ignore the signal that should end
\* it, and a PTY nobody reads may block its writer.
FairSpec ==
  /\ Init /\ [][Next]_vars
  /\ WF_vars(kind = "serial" /\ pc # "writing" /\ SerialTask /\ UNCHANGED <<pty, kind>>)
  /\ WF_vars(kind = "serial" /\ BreakElapses /\ UNCHANGED <<pty, kind>>)
  /\ WF_vars(kind = "serial" /\ ModemElapses /\ UNCHANGED <<pty, kind>>)
  /\ WF_vars(PaneReceives /\ UNCHANGED <<serial, pty, kind>>)
  /\ WF_vars(kind = "serial" /\ PaneReads /\ UNCHANGED <<serial, pty, kind>>)
  /\ WF_vars(kind = "pty" /\ Controller /\ UNCHANGED <<serial, kind>>)
  /\ WF_vars(kind = "pty" /\ Reader /\ UNCHANGED <<serial, kind>>)
  /\ WF_vars(kind = "pty" /\ Writer /\ UNCHANGED <<serial, kind>>)
  /\ WF_vars(kind = "pty" /\ PtyReads /\ UNCHANGED <<ctl, tty, reader, writer, serial, kind>>)

\* The variables of both backends keep their types and bounds.
TypeOK == SerialTypeOK /\ PtyTypeOK

Contract == INSTANCE TransportLifecycle
              WITH Retryable <- {"DeviceRemoved"}, Final <- {"Local", "Remote"}, Direct <- TRUE

\* Where the serial backend departs from the contract: a device that was opened
\* again is reported usable without the `Connecting' that transport.rs promises.
ReopensUnannounced == kind = "serial" /\ phase = "DeviceRemoved" /\ phase' = "Connected"

\* What the pane sees of either backend follows the transport contract but for
\* that one step: usable first, nothing after the end, no end without a reason,
\* and a device comes back only after it was removed.
DirectContract == Contract!Init /\ [][Contract!Next \/ ReopensUnannounced]_phase

\* The pane is told of the end of a shell only once the child was reaped, for
\* a kill as for an exit.
EndMeansReaped ==
  kind = "pty" /\ child # "dead" =>
    /\ \A i \in DOMAIN events : events[i].kind # "Disconnected"
    /\ phase \notin {"Local", "Remote"}

\* All the child and its jobs wrote is shown, also what was unread when the
\* child died or was told of after its end, unless the tab is closed first.
OutputIsShown == written > shown ~> written = shown \/ gone

\* What the outside owes: no write to the line is held for ever, and a shell
\* that was told to end does.
WritesReturn == []<>(pc # "writing")
ShellsDie    == []<>(child # "dying")

\* A BREAK ends, however busy the port, unless the device or the session does,
\* or the line holds a write for ever: the thread that ends it is the one that writes.
BreakEnds == WritesReturn => (break ~> ~break \/ pc = "done")

\* While the port is open, the session goes on and no write is held for ever, the
\* lines the pane shows are the lines as they are, after changes and after the
\* device was reopened.
LinesAreShown ==
  WritesReturn => []<>(gone \/ ~alive \/ pc \in {"done", "tellLocal"} \/ kind = "pty" \/ modem = lines)

\* Closing the tab ends the session's threads and its shell, whatever channel they
\* are blocked on; only a write the line holds keeps the serial thread, and only a
\* shell that ignores its end, or a job of it, keeps the threads of a PTY.
ClosedSessionsEnd ==
  /\ WritesReturn => (gone /\ kind = "serial" ~> pc = "done")
  /\ ShellsDie => (gone /\ kind = "pty" ~> controller = "done" /\ child = "dead")
  /\ ShellsDie => (gone /\ ~jobs /\ kind = "pty" ~> jobs \/ (reader = "done" /\ writer = "done"))
================================================================================
