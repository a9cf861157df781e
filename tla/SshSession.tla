------------------------------ MODULE SshSession ------------------------------
(***************************************************************************)
(* One SSH session: the task `run' of polyterm-ssh with everything it      *)
(* awaits inline (establish, authenticate_with, open_shell, pump,          *)
(* wait_backoff), the four bounded channels of its TransportHandle, the    *)
(* pane that holds the other end of them, the dialogs that answer its      *)
(* prompts, and a far end that may fail, log out or vanish at any point.   *)
(*                                                                         *)
(* A value of `pc' is an await point of the task.  Between two of them the *)
(* task runs without yielding, so one action is one such stretch.  Port    *)
(* forwards and SFTP ride on this task and have modules of their own.      *)
(***************************************************************************)
EXTENDS Integers, Sequences

CONSTANTS
  NumHops,        \* jump hosts plus the target (establish's `hops')
  AuthOf,         \* the SshAuth method of each hop
  Sizes,          \* terminal sizes a pane may have
  InitialSize,    \* (INITIAL_COLS, INITIAL_ROWS), also LivePane's first size
  EventCap, ControlCap, InputCap, OutputCap,   \* channel capacities
  ChannelCap,     \* bound on undelivered russh channel messages
  InitialBackoff, MaxBackoff

Methods == {"Password", "PublicKey", "KeyboardInteractive", "Agent"}

ASSUME HopsAssumption ==
  NumHops \in Nat \ {0} /\ AuthOf \in [1..NumHops -> Methods]
ASSUME SizesAssumption == InitialSize \in Sizes
ASSUME CapacityAssumption ==
  /\ EventCap \in Nat \ {0} /\ ControlCap \in Nat \ {0}
  /\ InputCap \in Nat \ {0} /\ OutputCap \in Nat \ {0}
  /\ ChannelCap \in Nat \ {0}
ASSUME BackoffAssumption ==
  /\ InitialBackoff \in Nat \ {0} /\ MaxBackoff \in Nat
  /\ InitialBackoff <= MaxBackoff

VARIABLES
  pc, hop, backoff, connectedBefore, size, exited, reason,   \* the task
  events, control, input, output,           \* the channels of the handle
  handle, eventsOpen, outputOpen,           \* the pane and its two relays
  seen, prompt,                             \* what pane and dialogs hold
  link, inbox, far, shellSize,              \* the russh session, the far end
  accepted, loggedOut, request, paneSize, sizeLost    \* history

retry    == <<backoff, connectedBefore>>
ui       == <<handle, eventsOpen, outputOpen, seen>>
queues   == <<control, input, output>>
server   == <<link, inbox, far, shellSize>>
history  == <<accepted, loggedOut, request, paneSize, sizeLost>>
\* What establishing a connection leaves alone, and what the pump does.
shell    == <<size, exited, reason, queues, ui, server>>
session  == <<hop, retry, ui, prompt, accepted, paneSize, sizeLost>>
vars     == <<pc, hop, retry, events, prompt, shell, history>>

\* An event that is a reason is `Disconnected { reason }'.
Reasons        == {"Local", "Remote", "Timeout", "Failed"}
EventKinds     == Reasons \cup {"Connecting", "HostKey", "Credential",
                                "Authenticated", "Connected", "Error"}
TrustDecisions == {"AcceptOnce", "AcceptAndRemember", "Reject"}
Replies        == TrustDecisions \cup {"Answered", "Cancelled", "Dropped"}

\* ControlMsg, as far as this task tells its values apart.
Resize(s) == [kind |-> "Resize", size |-> s]
Controls  == {Resize(s) : s \in Sizes}
               \cup [kind : {"Reconnect", "Disconnect"}]

\* ChannelMsg, likewise.
ChannelMsgs == {"Data", "ExtendedData", "ExitStatus", "Close"}

Await   == {"start", "connect", "askKey", "awaitKey", "auth", "askCred",
            "awaitCred", "verdict", "authError", "failing", "authenticated",
            "shell", "connected", "pump", "writing", "resizing", "relaying",
            "closing", "ended", "backoff", "done"}
InShell == {"connected", "pump", "writing", "resizing", "relaying"}

\* Awaits that only the network or an agent ends.  None has a timeout, and while
\* the task is parked at one it polls neither `input' nor `control'.
NetworkAwaits ==
  {"connect", "auth", "verdict", "shell", "writing", "resizing", "closing"}

--------------------------------------------------------------------------------
(* Small decisions of the task.  A definition named ...Mutant is a wrong     *)
(* variant of the one it precedes, kept to show which property notices it.   *)

\* Only an explicit acceptance trusts a key; a refused, abandoned or dropped
\* prompt does not (check_server_key).
AcceptsMutant(reply) == reply # "Reject"
Accepts(reply) == reply \in {"AcceptOnce", "AcceptAndRemember"}

\* Which ends of a connected session are retried (FR-29).
ReconnectsMutant(r) == r # "Remote"
ReconnectsMutant2(r) == r # "Local"
Reconnects(r) == r \in {"Timeout", "Failed"}

\* Why the pump ends when the shell channel vanishes with no CLOSE.
VanishedMutant(e) == "Timeout"
Vanished(e) == IF e THEN "Remote" ELSE "Timeout"

\* A send on the bounded events channel waits for room; once the relay is gone
\* it fails at once, and `run' ignores that.
Emit(e) ==
  /\ eventsOpen => Len(events) < EventCap
  /\ events' = IF eventsOpen THEN Append(events, e) ELSE events


Init ==
  /\ pc = "start" /\ hop = 1 /\ backoff = InitialBackoff
  /\ connectedBefore = FALSE /\ size = InitialSize
  /\ exited = FALSE /\ reason = "Failed"
  /\ events = <<>> /\ control = <<>> /\ input = 0 /\ output = 0
  /\ handle = "open" /\ eventsOpen = TRUE /\ outputOpen = TRUE
  /\ seen = "Idle" /\ prompt = "none"
  /\ link = FALSE /\ inbox = <<>> /\ far = "none" /\ shellSize = InitialSize
  /\ accepted = {} /\ loggedOut = FALSE
  /\ request = "none" /\ paneSize = InitialSize /\ sizeLost = "no"

--------------------------------------------------------------------------------
(* establish: hop by hop, each verified and authenticated in its own right.  *)

\* `run' announces the attempt; `establish' starts over from the first hop.
Start ==
  /\ pc = "start" /\ Emit("Connecting")
  /\ pc' = "connect" /\ hop' = 1 /\ accepted' = {}
  /\ UNCHANGED <<retry, prompt, shell, loggedOut, request, paneSize, sizeLost>>

\* A stretch of the task that only decides where to go, or only reports.
Proceed(from, nexts) ==
  /\ pc = from /\ pc' \in nexts
  /\ UNCHANGED <<hop, retry, events, prompt, shell, history>>

Report(from, e, next) ==
  /\ pc = from /\ Emit(e) /\ pc' = next
  /\ UNCHANGED <<hop, retry, prompt, shell, history>>

\* TCP connect, or a direct-tcpip tunnel through the previous hop; the key
\* exchange then calls check_server_key.
Connect == Proceed("connect", {"askKey", "failing"})

\* Send a prompt and wait on its oneshot; with nobody to ask, give up.
AskMutant(from, kind, next) ==
  /\ pc = from /\ Emit(kind) /\ pc' = next
  /\ prompt' = IF eventsOpen THEN "queued" ELSE prompt
  /\ UNCHANGED <<hop, retry, shell, history>>
Ask(from, kind, next) ==
  /\ pc = from
  /\ \/ eventsOpen /\ Emit(kind) /\ prompt' = "queued" /\ pc' = next
     \/ ~eventsOpen /\ pc' = "failing" /\ UNCHANGED <<events, prompt>>
  /\ UNCHANGED <<hop, retry, shell, history>>

AskKey        == Ask("askKey", "HostKey", "awaitKey")
AskCredential == Ask("askCred", "Credential", "awaitCred")

\* The oneshot resolves.
Hear(from, nexts) ==
  /\ pc = from /\ prompt \in Replies /\ prompt' = "none" /\ pc' \in nexts
  /\ UNCHANGED <<hop, retry, events, shell, history>>

\* An accepted key lets authentication begin, unless the rest of the key
\* exchange fails.
KeyDecided ==
  Hear("awaitKey", {"failing"} \cup (IF Accepts(prompt) THEN {"auth"} ELSE {}))

\* Where authenticate_with goes first: a key file may load without asking, an
\* agent may be missing or empty, the others ask the user or the server.
FirstStep ==
  [Password            |-> {"askCred"},
   PublicKey           |-> {"askCred", "verdict"},
   KeyboardInteractive |-> {"verdict"},
   Agent               |-> {"authError", "verdict"}]

BeginAuth == Proceed("auth", FirstStep[AuthOf[hop]])

\* Anything but an answer fails the hop; a passphrase may not open the key.
CredentialGiven ==
  Hear("awaitCred", IF prompt # "Answered"            THEN {"failing"}
                    ELSE IF AuthOf[hop] = "PublicKey" THEN {"verdict", "authError"}
                    ELSE {"verdict"})

\* The server refuses or fails, or (keyboard-interactive) asks once more.
HopRefused ==
  Proceed("verdict", {"failing"} \cup
            (IF AuthOf[hop] = "KeyboardInteractive" THEN {"askCred"} ELSE {}))

\* The hop is in; after the last one `run' resets the backoff.
RestartedMutant(b) == b
Restarted(b) == InitialBackoff

HopAccepted ==
  /\ pc = "verdict"
  /\ IF hop < NumHops
       THEN /\ hop' = hop + 1 /\ pc' = "connect"
            /\ UNCHANGED <<connectedBefore, backoff>>
       ELSE /\ pc' = "authenticated" /\ connectedBefore' = TRUE
            /\ backoff' = Restarted(backoff) /\ UNCHANGED hop
  /\ UNCHANGED <<events, prompt, shell, history>>

\* No agent, no identities, or a key that does not load: an Error event first.
ReportAuthError == Report("authError", "Error", "failing")

\* `fail' reports; a failed first attempt ends the session, a failed
\* reconnect keeps trying.
Fail == Report("failing", "Failed", IF connectedBefore THEN "backoff" ELSE "done")

--------------------------------------------------------------------------------
(* run_connected: the shell, and the pump that serves it.                    *)

Authenticated == Report("authenticated", "Authenticated", "shell")

\* The connected stretch is over for reason r, whatever the far end still had to
\* say: the pump first disconnects the target ("closing"), open_shell does not.
EndConnected(r) ==
  /\ pc' = IF pc = "shell" THEN "ended" ELSE "closing"
  /\ reason' = r
  /\ link' = FALSE /\ inbox' = <<>> /\ far' = "none"
  /\ UNCHANGED <<session, events, size, exited, shellSize>>

Lost(from, r) ==
  pc = from /\ EndConnected(r) /\ UNCHANGED <<queues, loggedOut, request>>

\* open_shell asks for a PTY of the remembered size.
OpenedAtMutant(s) == InitialSize
OpenedAt(s) == s

OpenShell ==
  /\ pc = "shell" /\ pc' = "connected"
  /\ link' = TRUE /\ far' = "running" /\ shellSize' = OpenedAt(size)
  /\ loggedOut' = FALSE
  /\ UNCHANGED <<session, events, queues, size, exited, reason, inbox, request>>

ShellRefused == Lost("shell", "Failed")

Connected ==
  /\ pc = "connected" /\ Emit("Connected")
  /\ pc' = "pump" /\ exited' = FALSE
  /\ UNCHANGED <<hop, retry, prompt, size, reason, queues, ui, server,
                 accepted, loggedOut, request, paneSize, sizeLost>>

\* pump, branch `input.recv()': a chunk goes to the channel ...
PumpInput ==
  /\ pc = "pump" /\ input > 0
  /\ pc' = "writing" /\ input' = input - 1
  /\ UNCHANGED <<session, events, control, output, size, exited, reason,
                 server, loggedOut, request>>

\* ... where the write succeeds, once the far end's window has room for it, or
\* fails, the russh session being gone.
Written     == link /\ Proceed("writing", {"pump"})
WriteFailed == ~link /\ Lost("writing", "Failed")

\* pump, branch `control.recv()'.
PumpControl ==
  /\ pc = "pump" /\ control # <<>> /\ control' = Tail(control)
  /\ LET m == Head(control) IN
       \/ /\ m.kind = "Resize" /\ pc' = "resizing"
          /\ size' = m.size /\ shellSize' = m.size
          /\ UNCHANGED <<session, events, exited, reason, link, inbox, far,
                         request>>
       \/ /\ m.kind = "Reconnect"
          /\ UNCHANGED <<pc, session, events, size, exited, reason, server, request>>
       \/ m.kind = "Disconnect" /\ EndConnected("Local") /\ request' = "taken"
  /\ UNCHANGED <<input, output, loggedOut>>

\* window_change has been handed to the russh session; an error is ignored.
WindowChanged == Proceed("resizing", {"pump"})

\* Either sender gone and its channel drained: the tab is closing.
PumpHandleGone ==
  handle = "dropped" /\ (control = <<>> \/ input = 0) /\ Lost("pump", "Local")

\* pump, branch `channel.wait()': data is relayed under backpressure ...
PumpData ==
  /\ inbox # <<>> /\ Head(inbox) \in {"Data", "ExtendedData"}
  /\ Proceed("pump", {"relaying"})

\* ... until there is room, or nobody reads; only stdout minds the latter.
Relayed ==
  \/ /\ pc = "relaying" /\ pc' = "pump" /\ inbox' = Tail(inbox)
     /\ \/ outputOpen /\ output < OutputCap /\ output' = output + 1
        \/ ~outputOpen /\ Head(inbox) = "ExtendedData" /\ UNCHANGED output
     /\ UNCHANGED <<session, events, control, input, size, exited, reason, link,
                    far, shellSize, loggedOut, request>>
  \/ pc = "relaying" /\ ~outputOpen /\ Head(inbox) = "Data" /\ Lost("relaying", "Local")

\* The shell's exit status is noted, not acted on ...
PumpExitStatus ==
  /\ pc = "pump" /\ inbox # <<>> /\ Head(inbox) = "ExitStatus"
  /\ inbox' = Tail(inbox) /\ exited' = TRUE /\ loggedOut' = TRUE
  /\ UNCHANGED <<pc, session, events, queues, size, reason, link, far,
                 shellSize, request>>

\* ... a CLOSE is a logout ...
PumpClose ==
  /\ pc = "pump" /\ inbox # <<>> /\ Head(inbox) = "Close"
  /\ EndConnected("Remote") /\ loggedOut' = TRUE /\ UNCHANGED <<queues, request>>

\* ... and a channel that ends without one was dropped, unless the shell exited.
PumpVanished == inbox = <<>> /\ ~link /\ Lost("pump", Vanished(exited))

\* The target has been told, and run_connected returns.
TargetClosed == Proceed("closing", {"ended"})

\* Back in `run': say why, then retry or return.
Ended ==
  /\ pc = "ended" /\ Emit(reason)
  /\ pc' = IF Reconnects(reason) THEN "backoff" ELSE "done"
  /\ UNCHANGED <<hop, retry, prompt, shell, accepted, loggedOut, request,
                 paneSize, sizeLost>>

--------------------------------------------------------------------------------
(* wait_backoff: a wait that Reconnect cuts short and Disconnect ends.       *)

DoubledMutant(b) == 2 * b
Doubled(b) == IF 2 * b < MaxBackoff THEN 2 * b ELSE MaxBackoff

BackoffOver ==
  /\ pc = "backoff" /\ pc' = "start" /\ backoff' = Doubled(backoff)
  /\ UNCHANGED <<hop, connectedBefore, events, prompt, size, exited, reason,
                 input, output, ui, server, accepted, loggedOut, paneSize>>

BackoffElapsed == BackoffOver /\ UNCHANGED <<control, request, sizeLost>>

ResizePending(msgs) == \E i \in 1..Len(msgs) : msgs[i].kind = "Resize"

BackoffReconnect ==
  /\ control # <<>> /\ Head(control).kind = "Reconnect"
  /\ control' = Tail(control)
  /\ BackoffOver /\ UNCHANGED <<request, sizeLost>>

\* The session ends, and nothing more is said about it.
BackoffDisconnect ==
  /\ pc = "backoff" /\ control # <<>> /\ Head(control).kind = "Disconnect"
  /\ pc' = "done" /\ control' = Tail(control) /\ request' = "taken"
  /\ UNCHANGED <<session, events, input, output, size, exited, reason, server,
                 loggedOut>>

BackoffHandleGone ==
  handle = "dropped" /\ control = <<>> /\ Proceed("backoff", {"done"})

\* Any other message is consumed and forgotten, a Resize included.
BackoffIgnores ==
  /\ pc = "backoff" /\ control # <<>> /\ Head(control).kind = "Resize"
  /\ control' = Tail(control)
  /\ sizeLost' = IF ResizePending(Tail(control)) THEN sizeLost ELSE "swallowed"
  /\ UNCHANGED <<pc, hop, retry, events, prompt, size, exited, reason, input,
                 output, ui, server, accepted, loggedOut, request,
                 paneSize>>

--------------------------------------------------------------------------------
(* The pane: LivePane::pump drains what the relays bring; dialogs answer.    *)

backend == <<pc, hop, retry, size, exited, reason>>

Lifecycle == EventKinds \ {"HostKey", "Credential", "Error"}

PaneReceives ==
  /\ handle = "open" /\ events # <<>> /\ events' = Tail(events)
  /\ LET e == Head(events) IN
       /\ seen'   = IF e \in Lifecycle THEN e ELSE seen
       /\ prompt' = IF e \in {"HostKey", "Credential"} THEN e ELSE prompt
  /\ UNCHANGED <<backend, queues, handle, eventsOpen, outputOpen, server, history>>

\* The relay's end closes once the backend is gone and its queue drained.
PaneFinished ==
  /\ handle = "open" /\ pc = "done" /\ events = <<>>
  /\ seen # "Finished" /\ seen' = "Finished"
  /\ UNCHANGED <<backend, events, queues, prompt, handle, eventsOpen,
                 outputOpen, server, history>>

PaneReads ==
  /\ handle = "open" /\ output > 0 /\ output' = output - 1
  /\ UNCHANGED <<backend, events, control, input, prompt, ui, server, history>>

PaneTypes ==
  /\ handle = "open" /\ pc # "done" /\ input < InputCap /\ input' = input + 1
  /\ UNCHANGED <<backend, events, control, output, prompt, ui, server, history>>

\* The pane never resends a size the full channel refused.
PaneResizes(s) ==
  /\ handle = "open" /\ pc # "done" /\ s # paneSize /\ paneSize' = s
  /\ IF Len(control) < ControlCap
       THEN control' = Append(control, Resize(s)) /\ sizeLost' = "no"
       ELSE sizeLost' = "refused" /\ UNCHANGED control
  /\ UNCHANGED <<backend, events, input, output, prompt, ui, server,
                 accepted, loggedOut, request>>

HandleSends(kind) ==
  /\ handle = "open" /\ pc # "done" /\ Len(control) < ControlCap
  /\ control' = Append(control, [kind |-> kind])
  /\ UNCHANGED <<backend, events, input, output, prompt, ui, server, history>>

\* The tab closes or restarts: both senders and both UI-side receivers drop.
HandleDropped ==
  /\ handle = "open" /\ handle' = "dropped"
  /\ UNCHANGED <<backend, events, queues, prompt, eventsOpen, outputOpen, seen,
                 server, history>>

\* The events relay notices when it next has something to deliver; what it held
\* is dropped, a prompt's oneshot with it.
EventsRelayExits ==
  /\ handle = "dropped" /\ eventsOpen /\ events # <<>>
  /\ eventsOpen' = FALSE /\ events' = <<>>
  /\ prompt' = IF prompt = "queued" THEN "Dropped" ELSE prompt
  /\ UNCHANGED <<backend, queues, handle, outputOpen, seen, server, history>>

OutputRelayExits ==
  /\ handle = "dropped" /\ outputOpen /\ output > 0
  /\ outputOpen' = FALSE /\ output' = 0
  /\ UNCHANGED <<backend, events, control, input, prompt, handle, eventsOpen,
                 seen, server, history>>

\* A dialog answers; closing it, or the program, drops the oneshot.  It
\* outlives the pane, and may answer when the tab is long closed.
AnswerHostKey ==
  /\ prompt = "HostKey" /\ prompt' \in TrustDecisions \cup {"Dropped"}
  /\ accepted' = IF prompt' \in {"AcceptOnce", "AcceptAndRemember"}
                 THEN accepted \cup {hop} ELSE accepted
  /\ UNCHANGED <<backend, events, queues, ui, server, loggedOut, request,
                 paneSize, sizeLost>>

AnswerCredential ==
  /\ prompt = "Credential" /\ prompt' \in {"Answered", "Cancelled", "Dropped"}
  /\ UNCHANGED <<backend, events, queues, ui, server, history>>

--------------------------------------------------------------------------------
(* The far end (russh and the server), as the channel delivers it.           *)

FarSays(msg, was, next) ==
  /\ link /\ far \in was /\ Len(inbox) < ChannelCap
  /\ inbox' = Append(inbox, msg) /\ far' = next
  /\ UNCHANGED <<backend, events, queues, prompt, ui, link, shellSize, history>>

FarData     == \E kind \in {"Data", "ExtendedData"}, f \in {"running", "exited"} :
                 FarSays(kind, {f}, f)
FarExits    == FarSays("ExitStatus", {"running"}, "exited")
FarCloses   == FarSays("Close", {"running", "exited"}, "closed")

\* russh's session task is gone; what it had delivered stays in the channel.
LinkLost ==
  /\ link /\ link' = FALSE
  /\ UNCHANGED <<backend, events, queues, prompt, ui, inbox, far, shellSize,
                 history>>

--------------------------------------------------------------------------------

Establish ==
  \/ Start \/ Connect \/ AskKey \/ KeyDecided \/ BeginAuth \/ AskCredential
  \/ CredentialGiven \/ HopRefused \/ HopAccepted \/ ReportAuthError \/ Fail

PollsHandle ==
  \/ PumpControl \/ PumpHandleGone
  \/ BackoffReconnect \/ BackoffDisconnect \/ BackoffHandleGone \/ BackoffIgnores

RunConnected ==
  \/ Authenticated \/ OpenShell \/ ShellRefused \/ Connected
  \/ PumpInput \/ Written \/ WriteFailed \/ PumpData \/ Relayed
  \/ PumpExitStatus \/ PumpClose \/ PumpVanished \/ WindowChanged
  \/ TargetClosed \/ Ended

TaskStep == Establish \/ RunConnected \/ PollsHandle \/ BackoffElapsed

Relays ==
  PaneReceives \/ PaneFinished \/ PaneReads \/ EventsRelayExits \/ OutputRelayExits

UserStep ==
  \/ PaneTypes \/ (\E s \in Sizes : PaneResizes(s)) \/ HandleDropped
  \/ (\E kind \in {"Reconnect", "Disconnect"} : HandleSends(kind))
  \/ AnswerHostKey \/ AnswerCredential

FarStep == FarData \/ FarExits \/ FarCloses \/ LinkLost

\* The task has returned: nothing has to happen any more.
Returned == pc = "done" /\ UNCHANGED vars

Next == TaskStep \/ Relays \/ UserStep \/ FarStep \/ Returned

Spec == Init /\ [][Next]_vars

\* The runtime runs every task that can run, and the pane pumps every frame.
\* `select!' polls its branches in random order, so a branch that is ready again
\* and again is taken.  Nothing else is certain: nobody has to answer a prompt
\* or drop a handle, no far end has to do anything, and what the task awaits of
\* the network may never come.
Fairness ==
  /\ WF_vars(pc \notin NetworkAwaits /\ TaskStep) /\ SF_vars(PollsHandle)
  /\ WF_vars(PaneReceives) /\ WF_vars(PaneFinished) /\ WF_vars(PaneReads)
  /\ WF_vars(EventsRelayExits) /\ WF_vars(OutputRelayExits)

FairSpec == Spec /\ Fairness

--------------------------------------------------------------------------------
(* Properties.                                                               *)

FlagsOK ==
  /\ connectedBefore \in BOOLEAN /\ exited \in BOOLEAN
  /\ eventsOpen \in BOOLEAN /\ outputOpen \in BOOLEAN /\ link \in BOOLEAN
  /\ loggedOut \in BOOLEAN

ChannelsOK ==
  /\ events \in Seq(EventKinds) /\ Len(events) <= EventCap
  /\ control \in Seq(Controls) /\ Len(control) <= ControlCap
  /\ input \in 0..InputCap /\ output \in 0..OutputCap
  /\ inbox \in Seq(ChannelMsgs) /\ Len(inbox) <= ChannelCap

\* Every variable holds a value of its type, the channels respect their
\* capacities and the backoff its bounds.
TypeOK ==
  /\ FlagsOK /\ ChannelsOK
  /\ pc \in Await /\ hop \in 1..NumHops
  /\ backoff \in InitialBackoff..MaxBackoff
  /\ size \in Sizes /\ reason \in Reasons
  /\ handle \in {"open", "dropped"} /\ seen \in Lifecycle \cup {"Idle", "Finished"}
  /\ prompt \in {"none", "queued", "HostKey", "Credential"} \cup Replies
  /\ far \in {"none", "running", "exited", "closed"} /\ shellSize \in Sizes
  /\ accepted \subseteq 1..NumHops /\ request \in {"none", "taken"}
  /\ paneSize \in Sizes /\ sizeLost \in {"no", "refused", "swallowed"}

\* FR-23: no credential is asked for, offered or sent to a hop unless the user
\* accepted the keys of that hop and of all before it, in this very attempt: a
\* dropped dialog, a closed tab or an earlier attempt's answer never stands in.
HostKeyBeforeAuth ==
  /\ pc \in {"auth", "askCred", "awaitCred", "verdict", "authError"}
       => 1..hop \subseteq accepted
  /\ pc \in {"authenticated", "shell"} \cup InShell
       => 1..NumHops \subseteq accepted

\* A task that waits on a oneshot waits for an answer somebody can still give,
\* and to the question it asked: the prompt is the newest thing in a channel
\* with a reader, or in the matching dialog, or resolved; and no prompt or
\* answer outlives the wait, to be taken for that of a later question.
WaitHasAnswerer ==
  LET Waits(kind, answers) ==
        \/ prompt = "queued" /\ eventsOpen /\ events # <<>>
             /\ events[Len(events)] = kind
        \/ prompt \in {kind, "Dropped"} \cup answers
  IN /\ pc = "awaitKey"  => Waits("HostKey", TrustDecisions)
     /\ pc = "awaitCred" => Waits("Credential", {"Answered", "Cancelled"})
     /\ pc \notin {"awaitKey", "awaitCred"} => prompt = "none"

\* FR-29: however many attempts failed on the way back, once a connection has
\* been established the wait after its loss is the shortest one again.
RetryStartsShort ==
  pc \in {"authenticated", "shell", "closing", "ended"} \cup InShell
    => backoff = InitialBackoff

\* A session is blamed on the link (and so retried) only if the far end had not
\* announced the end of the shell: the exit status may come before, after or
\* instead of CLOSE (pump, `ExitStatus' and the `None' branch).
TimeoutIsUnannounced ==
  pc \in {"closing", "ended"} /\ reason = "Timeout" => ~loggedOut

\* Once the task has taken a Disconnect, wherever it polled it, it is on its way
\* out and never begins another attempt.
DisconnectIsObeyed == request # "none" => pc \in {"closing", "ended", "done"}

\* The remote PTY has the size of the pane whenever no Resize is under way:
\* across reconnects too, unless the last Resize never reached the pump.
SizeAgrees ==
  pc \in InShell /\ ~ResizePending(control) /\ sizeLost = "no"
    => shellSize = paneSize

\* What the pane consumes from the events channel follows the contract of
\* TransportEvent, and nothing follows a Disconnected{Local | Remote} but the end.
Contract == INSTANCE TransportLifecycle
              WITH phase <- seen, Retryable <- {"Timeout", "Failed"},
                   Final <- {"Local", "Remote"}, Direct <- FALSE
LifecycleContract == Contract!Spec

\* What can keep a session alive that should end: a prompt on the screen that
\* nobody answers, a server that asks question after question in one attempt, and
\* a network operation that never returns.
PromptsAreAnswered == []<>(prompt \notin {"HostKey", "Credential"})
QuestionsEnd       == []<>(pc \notin {"askCred", "awaitCred", "verdict"})
NetworkReturns     == []<>(pc \notin NetworkAwaits)
NothingHoldsIt     == PromptsAreAnswered /\ QuestionsEnd /\ NetworkReturns

\* A session whose handle was dropped ends, and so does one that was sent a
\* Disconnect, unless one of those three holds it for ever: no full channel,
\* queued message, relay, backoff or flood of output does.  The exceptions are
\* real: neither `establish' nor a write polls the handle, so a far end that never
\* opens its window again keeps the pump from a closed tab and from a Disconnect.
DropEnds == NothingHoldsIt => (handle = "dropped" ~> pc = "done")
DisconnectEnds ==
  NothingHoldsIt =>
    ((\E i \in 1..Len(control) : control[i].kind = "Disconnect") ~> pc = "done")

--------------------------------------------------------------------------------
(* What a comment of the repository says and the code does not do.           *)

\* `run', lib.rs:117-119: "A clean logout ... ends the session - logging back in
\* on a logout is exactly what must not happen."
LogoutIsFinal == loggedOut => pc \in InShell \cup {"closing", "ended", "done"}
================================================================================
