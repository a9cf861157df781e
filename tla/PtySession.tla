------------------------------ MODULE PtySession ------------------------------
(***************************************************************************)
(* The local shell: a child process on a PTY, and the three tasks that     *)
(* serve it, each on its own: a reader and a writer on the blocking pool,  *)
(* and a controller that waits for the child.                              *)
(***************************************************************************)
EXTENDS TransportPair

CONSTANTS
  PtyBuf,       \* what the PTY holds unread
  MaxWrites     \* bound on what the child writes

ASSUME PtyAssumption == PtyBuf \in Nat \ {0} /\ MaxWrites \in Nat

VARIABLES
  controller,   \* "tellStart", "select", "reap", "tellEnd", "done"
  reason,       \* of the break out of the loop
  child,        \* "running", "dying" (killed, not yet dead) or "dead"
  jobs,         \* a background job of the shell holds the PTY open
  written, unread, shown,     \* chunks the child wrote; those still in the PTY; those fed
  reader,       \* "read", "deliver", "done"
  writer        \* "wait", "write", "done"

ctl == <<controller, reason>>
tty == <<child, jobs, written, unread>>
pty == <<ctl, tty, shown, reader, writer>>

PtyInit ==
  /\ PairInit /\ controller = "tellStart" /\ reason = "-" /\ child = "running" /\ jobs = FALSE
  /\ written = 0 /\ unread = 0 /\ shown = 0 /\ reader = "read" /\ writer = "wait"

\* All who hold the slave's end are gone.
SlaveClosed == child = "dead" /\ ~jobs

--------------------------------------------------------------------------------
(* The controller.                                                           *)

Goes(here, there) == controller = here /\ controller' = there
Event  == UNCHANGED <<output, input, control, gone, phase, modem, sent>>
Heard  == UNCHANGED <<output, input, events, gone, phase, modem, sent>>

TellStart ==
  /\ Goes("tellStart", "select") /\ Emit(Connected) /\ Event
  /\ UNCHANGED <<reason, tty, shown, reader, writer>>

\* A resize reaches the PTY, the rest means nothing to it; no property tells them apart.
CtlIgnores ==
  /\ Goes("select", "select") /\ (Takes("Resize") \/ Takes("Break") \/ Takes("Reconnect")) /\ Heard
  /\ UNCHANGED <<reason, tty, shown, reader, writer>>

KilledMutant == UNCHANGED child
Killed == child' = IF child = "running" THEN "dying" ELSE child

CtlKills ==
  /\ Goes("select", "reap") /\ (Takes("Disconnect") \/ (HandleGone /\ UNCHANGED control)) /\ Heard
  /\ reason' = "Local" /\ Killed
  /\ UNCHANGED <<jobs, written, unread, shown, reader, writer>>

CtlSeesExit ==
  /\ Goes("select", "reap") /\ child = "dead" /\ reason' = "Remote"
  /\ UNCHANGED <<pair, tty, shown, reader, writer>>

ReapedMutant == TRUE
Reaped == child = "dead"

CtlReaps ==
  /\ Goes("reap", "tellEnd") /\ Reaped /\ UNCHANGED <<pair, reason, tty, shown, reader, writer>>

CtlTellsEnd ==
  /\ Goes("tellEnd", "done") /\ Emit(Disconnected(reason)) /\ Event
  /\ UNCHANGED <<reason, tty, shown, reader, writer>>

Controller ==
  TellStart \/ CtlIgnores \/ CtlKills \/ CtlSeesExit \/ CtlReaps \/ CtlTellsEnd

--------------------------------------------------------------------------------
(* The reader and the writer.                                                *)

ReaderReads ==
  /\ reader = "read" /\ unread > 0 /\ unread' = unread - 1 /\ reader' = "deliver"
  /\ UNCHANGED <<pair, ctl, child, jobs, written, shown, writer>>

AtEofMutant == child = "dead"
AtEof == SlaveClosed /\ unread = 0

ReaderEnds ==
  /\ reader = "read" /\ AtEof /\ reader' = "done"
  /\ UNCHANGED <<pair, ctl, tty, shown, writer>>

ReaderDelivers ==
  /\ reader = "deliver"
  /\ \/ gone /\ reader' = "done" /\ UNCHANGED output
     \/ ~gone /\ output < OutputCap /\ output' = output + 1 /\ reader' = "read"
  /\ UNCHANGED <<input, control, events, gone, phase, modem, sent, ctl, tty, shown, writer>>

Reader == ReaderReads \/ ReaderEnds \/ ReaderDelivers

WriterTakes ==
  /\ writer = "wait" /\ input > 0 /\ input' = input - 1 /\ writer' = "write"
  /\ UNCHANGED <<output, control, events, gone, phase, modem, sent, ctl, tty, shown, reader>>

\* write_all waits as long as nobody reads the PTY, and fails once nobody can.
WriterWrites ==
  /\ writer = "write" /\ ~SlaveClosed /\ writer' = "wait" /\ UNCHANGED <<pair, ctl, tty, shown, reader>>
WriterFails ==
  /\ writer = "write" /\ SlaveClosed /\ writer' = "done" /\ UNCHANGED <<pair, ctl, tty, shown, reader>>
WriterEnds ==
  /\ writer = "wait" /\ gone /\ input = 0 /\ writer' = "done"
  /\ UNCHANGED <<pair, ctl, tty, shown, reader>>

Writer == WriterTakes \/ WriterFails \/ WriterEnds

--------------------------------------------------------------------------------
(* The child.                                                                *)

ChildWrites ==
  /\ ~SlaveClosed /\ written < MaxWrites /\ unread < PtyBuf
  /\ written' = written + 1 /\ unread' = unread + 1
  /\ UNCHANGED <<pair, ctl, child, jobs, shown, reader, writer>>
ChildExits ==
  /\ child = "running" /\ child' = "dead"
  /\ UNCHANGED <<pair, ctl, jobs, written, unread, shown, reader, writer>>
ChildDies ==
  /\ child = "dying" /\ child' = "dead"
  /\ UNCHANGED <<pair, ctl, jobs, written, unread, shown, reader, writer>>
JobStarts ==
  /\ child = "running" /\ ~jobs /\ jobs' = TRUE
  /\ UNCHANGED <<pair, ctl, child, written, unread, shown, reader, writer>>
JobEnds ==
  /\ jobs /\ jobs' = FALSE /\ UNCHANGED <<pair, ctl, child, written, unread, shown, reader, writer>>

PtyReads == PaneReads /\ shown' = shown + 1
PtyHandle ==
  /\ \/ PtyReads
     \/ /\ \/ PaneReceives \/ PaneFinished(controller = "done") \/ HandleDropped
           \/ \E m \in {"Resize", "Disconnect"} : HandleSends(m, controller # "done")
           \/ PaneTypes(writer # "done")
        /\ UNCHANGED shown
  /\ UNCHANGED <<ctl, tty, reader, writer>>

PtyNext ==
  \/ Controller \/ Reader \/ Writer \/ WriterWrites \/ PtyHandle
  \/ ChildWrites \/ ChildExits \/ ChildDies \/ JobStarts \/ JobEnds

--------------------------------------------------------------------------------
(* Properties.                                                               *)

PtyTypeOK ==
  /\ PairOK /\ controller \in {"tellStart", "select", "reap", "tellEnd", "done"}
  /\ reason \in {"-", "Local", "Remote"} /\ child \in {"running", "dying", "dead"} /\ jobs \in BOOLEAN
  /\ unread \in 0..PtyBuf /\ written \in 0..MaxWrites /\ shown \in 0..written
  /\ reader \in {"read", "deliver", "done"} /\ writer \in {"wait", "write", "done"}
================================================================================
