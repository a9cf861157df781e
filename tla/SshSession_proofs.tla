--------------------------- MODULE SshSession_proofs ---------------------------
(***************************************************************************)
(* Safety of SshSession for every number of hops, mix of authentication    *)
(* methods, channel capacity and backoff.                                  *)
(***************************************************************************)
EXTENDS SshSession, SharedLemmas, TLAPS

\* The tuples of variables, for UNCHANGED.
USE DEF retry, ui, queues, server, history, shell, session, backend

\* What the type invariant needs to be inductive: a task that waits for room
\* in the output channel holds the chunk it wants to put there.
HoldsChunk == pc = "relaying" => inbox # <<>>

LEMMA InitTypeOK == Init => TypeOK
<1> SUFFICES ASSUME Init PROVE TypeOK
  OBVIOUS
<1> USE DEF Init
<1>1. FlagsOK
  BY DEF FlagsOK
<1>2. ChannelsOK
  BY CapacityAssumption DEF ChannelsOK
<1>3. QED
  BY <1>1, <1>2, HopsAssumption, SizesAssumption, BackoffAssumption
     DEF TypeOK, Await, Reasons

\* Every action leaves the flags Boolean.
LEMMA FlagsStep == FlagsOK /\ [Next]_vars => FlagsOK'
<1> SUFFICES ASSUME FlagsOK, [Next]_vars PROVE FlagsOK'
  OBVIOUS
<1> USE DEF FlagsOK
<1>1. CASE Establish
  BY <1>1 DEF Establish, Start, Connect, AskKey, KeyDecided, BeginAuth,
       AskCredential, CredentialGiven, HopRefused, HopAccepted, ReportAuthError,
       Fail, Proceed, Report, Ask, Hear
<1>2. CASE RunConnected
  BY <1>2 DEF RunConnected, Authenticated, OpenShell, ShellRefused, Connected,
       PumpInput, Written, WriteFailed, PumpData, Relayed, PumpExitStatus,
       PumpClose, PumpVanished, WindowChanged, TargetClosed, Ended, Proceed, Report, Lost, EndConnected
<1>3. CASE PollsHandle \/ BackoffElapsed
  BY <1>3 DEF PollsHandle, PumpControl, PumpHandleGone, BackoffReconnect,
       BackoffDisconnect, BackoffHandleGone, BackoffIgnores, BackoffElapsed,
       BackoffOver, Proceed, Lost, EndConnected
<1>4. CASE Relays
  BY <1>4 DEF Relays, PaneReceives, PaneFinished, PaneReads, EventsRelayExits,
       OutputRelayExits
<1>5. CASE UserStep
  BY <1>5 DEF UserStep, PaneTypes, PaneResizes, HandleDropped, HandleSends,
       AnswerHostKey, AnswerCredential
<1>6. CASE FarStep
  BY <1>6 DEF FarStep, FarData, FarExits, FarCloses, LinkLost, FarSays
<1>7. CASE UNCHANGED vars
  BY <1>7 DEF vars
<1>8. QED
  BY <1>1, <1>2, <1>3, <1>4, <1>5, <1>6, <1>7 DEF Next, TaskStep, Returned

\* Emit keeps the events channel within its capacity.
LEMMA EmitFits ==
  ASSUME ChannelsOK, NEW e \in EventKinds, Emit(e)
  PROVE  events' \in Seq(EventKinds) /\ Len(events') <= EventCap
<1>1. CASE eventsOpen
  BY <1>1, CapacityAssumption DEF ChannelsOK, Emit
<1>2. CASE ~eventsOpen
  BY <1>2 DEF ChannelsOK, Emit
<1>3. QED
  BY <1>1, <1>2

\* A channel that is left alone, emptied or read from stays well typed.
LEMMA Shrinks ==
  ASSUME NEW S, NEW q \in Seq(S), NEW r,
         r = q \/ r = <<>> \/ (q # <<>> /\ r = Tail(q))
  PROVE  r \in Seq(S) /\ Len(r) <= Len(q)
<1>1. CASE r = q
  BY <1>1
<1>2. CASE r = <<>>
  BY <1>2
<1>3. CASE q # <<>> /\ r = Tail(q)
  BY <1>3
<1>4. QED
  BY <1>1, <1>2, <1>3

\* A message sent where there is room fits.
LEMMA Grows ==
  ASSUME NEW S, NEW cap \in Nat, NEW q \in Seq(S), Len(q) <= cap, NEW r,
         r = q \/ (Len(q) < cap /\ \E m \in S : r = Append(q, m))
  PROVE  r \in Seq(S) /\ Len(r) <= cap
<1>1. CASE r = q
  BY <1>1
<1>2. ASSUME NEW m \in S, Len(q) < cap, r = Append(q, m) PROVE r \in Seq(S) /\ Len(r) <= cap
  <2>1. r \in Seq(S) /\ Len(r) = Len(q) + 1 /\ Len(q) \in Nat
    BY <1>2
  <2>2. QED
    BY <1>2, <2>1
<1>3. QED
  BY <1>1, <1>2

\* No channel outgrows its capacity.
LEMMA ChannelsStep == TypeOK /\ HoldsChunk /\ [Next]_vars => ChannelsOK'
<1> SUFFICES ASSUME TypeOK, HoldsChunk, [Next]_vars PROVE ChannelsOK'
  OBVIOUS
<1>h. pc = "relaying" => inbox # <<>>
  BY DEF HoldsChunk
<1>0. ChannelsOK
  BY DEF TypeOK
<1>1. CASE Establish
  <2>1. UNCHANGED <<control, input, output, inbox>>
    BY <1>1 DEF Establish, Start, Connect, AskKey, KeyDecided, BeginAuth,
       AskCredential, CredentialGiven, HopRefused, HopAccepted, ReportAuthError,
       Fail, Proceed, Report, Ask, Hear
  <2>2. \/ UNCHANGED events
        \/ Emit("Connecting") \/ Emit("HostKey") \/ Emit("Credential")
        \/ Emit("Error") \/ Emit("Failed")
    BY <1>1 DEF Establish, Start, Connect, AskKey, KeyDecided, BeginAuth,
       AskCredential, CredentialGiven, HopRefused, HopAccepted, ReportAuthError,
       Fail, Proceed, Report, Ask, Hear
  <2>3. QED
    BY <1>0, <2>1, <2>2, EmitFits DEF ChannelsOK, EventKinds, Reasons
<1>2. CASE RunConnected
  <2>1. UNCHANGED control
    BY <1>2 DEF RunConnected, Authenticated, OpenShell, ShellRefused, Connected,
       PumpInput, Written, WriteFailed, PumpData, Relayed, PumpExitStatus,
       PumpClose, PumpVanished, WindowChanged, TargetClosed, Ended, Proceed, Report, Lost, EndConnected
  <2>2. UNCHANGED events \/ Emit("Authenticated") \/ Emit("Connected") \/ Emit(reason)
    BY <1>2 DEF RunConnected, Authenticated, OpenShell, ShellRefused, Connected,
       PumpInput, Written, WriteFailed, PumpData, Relayed, PumpExitStatus,
       PumpClose, PumpVanished, WindowChanged, TargetClosed, Ended, Proceed, Report, Lost, EndConnected
  <2>3. inbox' = inbox \/ inbox' = <<>> \/ (inbox # <<>> /\ inbox' = Tail(inbox))
    BY <1>2, <1>h DEF RunConnected, Authenticated, OpenShell, ShellRefused, Connected,
       PumpInput, Written, WriteFailed, PumpData, Relayed, PumpExitStatus,
       PumpClose, PumpVanished, WindowChanged, TargetClosed, Ended, Proceed, Report, Lost, EndConnected
  <2>4. inbox' \in Seq(ChannelMsgs) /\ Len(inbox') <= Len(inbox)
    BY <1>0, <2>3, Shrinks DEF ChannelsOK
  <2>5. input' \in 0..InputCap /\ output' \in 0..OutputCap
    BY <1>0, <1>2, CapacityAssumption DEF ChannelsOK, RunConnected, Authenticated, OpenShell, ShellRefused, Connected,
       PumpInput, Written, WriteFailed, PumpData, Relayed, PumpExitStatus,
       PumpClose, PumpVanished, WindowChanged, TargetClosed, Ended, Proceed, Report, Lost, EndConnected
  <2>6. QED
    BY <1>0, <2>1, <2>2, <2>4, <2>5, EmitFits, CapacityAssumption DEF TypeOK, ChannelsOK, EventKinds
<1>3. CASE PollsHandle \/ BackoffElapsed
  <2>1. UNCHANGED <<events, input, output>>
    BY <1>3 DEF PollsHandle, PumpControl, PumpHandleGone, BackoffReconnect,
       BackoffDisconnect, BackoffHandleGone, BackoffIgnores, BackoffElapsed,
       BackoffOver, Proceed, Lost, EndConnected
  <2>2. inbox' = inbox \/ inbox' = <<>>
    BY <1>3 DEF PollsHandle, PumpControl, PumpHandleGone, BackoffReconnect,
       BackoffDisconnect, BackoffHandleGone, BackoffIgnores, BackoffElapsed,
       BackoffOver, Proceed, Lost, EndConnected
  <2>2a. inbox' \in Seq(ChannelMsgs) /\ Len(inbox') <= Len(inbox)
    BY <1>0, <2>2, Shrinks DEF ChannelsOK
  <2>3. control' = control \/ (control # <<>> /\ control' = Tail(control))
    BY <1>3 DEF PollsHandle, PumpControl, PumpHandleGone, BackoffReconnect,
       BackoffDisconnect, BackoffHandleGone, BackoffIgnores, BackoffElapsed,
       BackoffOver, Proceed, Lost, EndConnected
  <2>4. control' \in Seq(Controls) /\ Len(control') <= Len(control)
    BY <1>0, <2>3, Shrinks DEF ChannelsOK
  <2>5. QED
    BY <1>0, <2>1, <2>2a, <2>4, CapacityAssumption DEF ChannelsOK
<1>4. CASE Relays
  <2>1. UNCHANGED <<control, input, inbox>>
    BY <1>4 DEF Relays, PaneReceives, PaneFinished, PaneReads, EventsRelayExits,
       OutputRelayExits
  <2>2. events' = events \/ events' = <<>> \/ (events # <<>> /\ events' = Tail(events))
    BY <1>4 DEF Relays, PaneReceives, PaneFinished, PaneReads, EventsRelayExits,
       OutputRelayExits
  <2>3. events' \in Seq(EventKinds) /\ Len(events') <= Len(events)
    BY <1>0, <2>2, Shrinks DEF ChannelsOK
  <2>4. output' \in 0..OutputCap
    BY <1>0, <1>4, CapacityAssumption DEF ChannelsOK, Relays, PaneReceives, PaneFinished, PaneReads, EventsRelayExits,
       OutputRelayExits
  <2>5. QED
    BY <1>0, <2>1, <2>3, <2>4, CapacityAssumption DEF ChannelsOK
<1>5. CASE UserStep
  <2>1. UNCHANGED <<events, output, inbox>>
    BY <1>5 DEF UserStep, PaneTypes, PaneResizes, HandleDropped, HandleSends,
       AnswerHostKey, AnswerCredential
  <2>2. input' \in 0..InputCap
    BY <1>0, <1>5, CapacityAssumption DEF ChannelsOK, UserStep, PaneTypes, PaneResizes, HandleDropped, HandleSends,
       AnswerHostKey, AnswerCredential
  <2>3. control' = control \/ (Len(control) < ControlCap
                               /\ \E m \in Controls : control' = Append(control, m))
    BY <1>5 DEF Controls, Resize, UserStep, PaneTypes, PaneResizes, HandleDropped, HandleSends,
       AnswerHostKey, AnswerCredential
  <2>4. control' \in Seq(Controls) /\ Len(control') <= ControlCap
    <3>1. control \in Seq(Controls) /\ Len(control) <= ControlCap /\ ControlCap \in Nat
      BY <1>0, CapacityAssumption DEF ChannelsOK
    <3>2. QED
      BY <2>3, <3>1, Grows
  <2>5. QED
    BY <1>0, <2>1, <2>2, <2>4 DEF ChannelsOK
<1>6. CASE FarStep
  <2>1. UNCHANGED <<events, control, input, output>>
    BY <1>6 DEF FarStep, FarData, FarExits, FarCloses, LinkLost, FarSays
  <2>2. inbox' = inbox \/ (Len(inbox) < ChannelCap
                           /\ \E m \in ChannelMsgs : inbox' = Append(inbox, m))
    BY <1>6 DEF ChannelMsgs, FarStep, FarData, FarExits, FarCloses, LinkLost, FarSays
  <2>3. inbox' \in Seq(ChannelMsgs) /\ Len(inbox') <= ChannelCap
    <3>1. inbox \in Seq(ChannelMsgs) /\ Len(inbox) <= ChannelCap /\ ChannelCap \in Nat
      BY <1>0, CapacityAssumption DEF ChannelsOK
    <3>2. QED
      BY <2>2, <3>1, Grows
  <2>4. QED
    BY <1>0, <2>1, <2>3 DEF ChannelsOK
<1>7. CASE UNCHANGED vars
  BY <1>0, <1>7 DEF vars, ChannelsOK
<1>8. QED
  BY <1>1, <1>2, <1>3, <1>4, <1>5, <1>6, <1>7 DEF Next, TaskStep, Returned
\* Doubling never leaves the bounds of the backoff.
LEMMA DoubledInRange ==
  ASSUME NEW b \in InitialBackoff..MaxBackoff
  PROVE  Doubled(b) \in InitialBackoff..MaxBackoff
  BY BackoffAssumption DEF Doubled

\* Every action keeps the type invariant.
LEMMA TypeStep == TypeOK /\ HoldsChunk /\ [Next]_vars => TypeOK'
<1> SUFFICES ASSUME TypeOK, HoldsChunk, [Next]_vars PROVE TypeOK'
  OBVIOUS
<1>1. FlagsOK' /\ ChannelsOK'
  BY FlagsStep, ChannelsStep DEF TypeOK
<1> USE DEF TypeOK
<1>2. CASE Establish
  <2>1. FirstStep[AuthOf[hop]] \subseteq {"askCred", "verdict", "authError"}
    BY HopsAssumption DEF FirstStep, Methods
  <2>2. UNCHANGED <<size, reason, handle, seen, far, shellSize, request, paneSize, sizeLost>>
    BY <1>2 DEF Establish, Start, Connect, AskKey, KeyDecided, BeginAuth,
       AskCredential, CredentialGiven, HopRefused, HopAccepted, ReportAuthError,
       Fail, Proceed, Report, Ask, Hear
  <2>3. pc' \in Await
    BY <1>2, <2>1 DEF Await, Establish, Start, Connect, AskKey, KeyDecided, BeginAuth,
       AskCredential, CredentialGiven, HopRefused, HopAccepted, ReportAuthError,
       Fail, Proceed, Report, Ask, Hear
  <2>4. hop' \in 1..NumHops /\ accepted' \subseteq 1..NumHops
    <3>1. hop' = hop \/ hop' = 1 \/ (hop < NumHops /\ hop' = hop + 1)
      BY <1>2 DEF Establish, Start, Connect, AskKey, KeyDecided, BeginAuth,
       AskCredential, CredentialGiven, HopRefused, HopAccepted, ReportAuthError,
       Fail, Proceed, Report, Ask, Hear
    <3>2. accepted' = accepted \/ accepted' = {}
      BY <1>2 DEF Establish, Start, Connect, AskKey, KeyDecided, BeginAuth,
       AskCredential, CredentialGiven, HopRefused, HopAccepted, ReportAuthError,
       Fail, Proceed, Report, Ask, Hear
    <3>3. QED
      <4>1. hop \in 1..NumHops /\ accepted \subseteq 1..NumHops
        OBVIOUS
      <4>2. hop' \in 1..NumHops
        BY <3>1, <4>1, HopsAssumption
      <4>3. QED
        BY <3>2, <4>1, <4>2
  <2>5. backoff' \in InitialBackoff..MaxBackoff
    BY <1>2, BackoffAssumption DEF Restarted, Establish, Start, Connect, AskKey, KeyDecided, BeginAuth,
       AskCredential, CredentialGiven, HopRefused, HopAccepted, ReportAuthError,
       Fail, Proceed, Report, Ask, Hear
  <2>6. prompt' \in {"none", "queued", "HostKey", "Credential"} \cup Replies
    BY <1>2 DEF Establish, Start, Connect, AskKey, KeyDecided, BeginAuth,
       AskCredential, CredentialGiven, HopRefused, HopAccepted, ReportAuthError,
       Fail, Proceed, Report, Ask, Hear
  <2>7. QED
    BY <1>1, <2>2, <2>3, <2>4, <2>5, <2>6
<1>3. CASE RunConnected
  <2>1. UNCHANGED <<hop, backoff, size, handle, seen, prompt, accepted, paneSize, sizeLost>>
    BY <1>3 DEF RunConnected, Authenticated, OpenShell, ShellRefused, Connected,
       PumpInput, Written, WriteFailed, PumpData, Relayed, PumpExitStatus,
       PumpClose, PumpVanished, WindowChanged, TargetClosed, Ended, Proceed, Report, Lost, EndConnected
  <2>2. pc' \in Await
    BY <1>3 DEF Await, RunConnected, Authenticated, OpenShell, ShellRefused, Connected,
       PumpInput, Written, WriteFailed, PumpData, Relayed, PumpExitStatus,
       PumpClose, PumpVanished, WindowChanged, TargetClosed, Ended, Proceed, Report, Lost, EndConnected
  <2>3. reason' \in Reasons
    BY <1>3 DEF Reasons, Vanished, RunConnected, Authenticated, OpenShell, ShellRefused, Connected,
       PumpInput, Written, WriteFailed, PumpData, Relayed, PumpExitStatus,
       PumpClose, PumpVanished, WindowChanged, TargetClosed, Ended, Proceed, Report, Lost, EndConnected
  <2>4. far' \in {"none", "running", "exited", "closed"}
    BY <1>3 DEF RunConnected, Authenticated, OpenShell, ShellRefused, Connected,
       PumpInput, Written, WriteFailed, PumpData, Relayed, PumpExitStatus,
       PumpClose, PumpVanished, WindowChanged, TargetClosed, Ended, Proceed, Report, Lost, EndConnected
  <2>5. shellSize' \in Sizes
    BY <1>3 DEF OpenedAt, RunConnected, Authenticated, OpenShell, ShellRefused, Connected,
       PumpInput, Written, WriteFailed, PumpData, Relayed, PumpExitStatus,
       PumpClose, PumpVanished, WindowChanged, TargetClosed, Ended, Proceed, Report, Lost, EndConnected
  <2>6. request' \in {"none", "taken"}
    BY <1>3 DEF RunConnected, Authenticated, OpenShell, ShellRefused, Connected,
       PumpInput, Written, WriteFailed, PumpData, Relayed, PumpExitStatus,
       PumpClose, PumpVanished, WindowChanged, TargetClosed, Ended, Proceed, Report, Lost, EndConnected
  <2>7. QED
    BY <1>1, <2>1, <2>2, <2>3, <2>4, <2>5, <2>6
<1>4. CASE PollsHandle \/ BackoffElapsed
  <2>1. UNCHANGED <<hop, handle, seen, prompt, accepted, paneSize>>
    BY <1>4 DEF PollsHandle, PumpControl, PumpHandleGone, BackoffReconnect,
       BackoffDisconnect, BackoffHandleGone, BackoffIgnores, BackoffElapsed,
       BackoffOver, Proceed, Lost, EndConnected
  <2>2. pc' \in Await
    BY <1>4 DEF Await, PollsHandle, PumpControl, PumpHandleGone, BackoffReconnect,
       BackoffDisconnect, BackoffHandleGone, BackoffIgnores, BackoffElapsed,
       BackoffOver, Proceed, Lost, EndConnected
  <2>3. backoff' \in InitialBackoff..MaxBackoff
    BY <1>4, DoubledInRange DEF PollsHandle, PumpControl, PumpHandleGone, BackoffReconnect,
       BackoffDisconnect, BackoffHandleGone, BackoffIgnores, BackoffElapsed,
       BackoffOver, Proceed, Lost, EndConnected
  <2>4. size' \in Sizes /\ shellSize' \in Sizes
    <3>1. control # <<>> /\ Head(control).kind = "Resize" => Head(control).size \in Sizes
      BY DEF ChannelsOK, Controls, Resize
    <3>2. QED
      BY <1>4, <3>1 DEF PollsHandle, PumpControl, PumpHandleGone, BackoffReconnect,
       BackoffDisconnect, BackoffHandleGone, BackoffIgnores, BackoffElapsed,
       BackoffOver, Proceed, Lost, EndConnected
  <2>5. reason' \in Reasons /\ far' \in {"none", "running", "exited", "closed"}
    BY <1>4 DEF Reasons, PollsHandle, PumpControl, PumpHandleGone, BackoffReconnect,
       BackoffDisconnect, BackoffHandleGone, BackoffIgnores, BackoffElapsed,
       BackoffOver, Proceed, Lost, EndConnected
  <2>6. request' \in {"none", "taken"} /\ sizeLost' \in {"no", "refused", "swallowed"}
    BY <1>4 DEF PollsHandle, PumpControl, PumpHandleGone, BackoffReconnect,
       BackoffDisconnect, BackoffHandleGone, BackoffIgnores, BackoffElapsed,
       BackoffOver, Proceed, Lost, EndConnected
  <2>7. QED
    BY <1>1, <2>1, <2>2, <2>3, <2>4, <2>5, <2>6
<1>5. CASE Relays
  <2>1. UNCHANGED <<backend, handle, far, shellSize, accepted, request, paneSize, sizeLost>>
    BY <1>5 DEF Relays, PaneReceives, PaneFinished, PaneReads, EventsRelayExits,
       OutputRelayExits
  <2>2. prompt' \in {"none", "queued", "HostKey", "Credential"} \cup Replies
    BY <1>5 DEF Replies, Relays, PaneReceives, PaneFinished, PaneReads, EventsRelayExits,
       OutputRelayExits
  <2>3. seen' \in Lifecycle \cup {"Idle", "Finished"}
    BY <1>5 DEF Relays, PaneReceives, PaneFinished, PaneReads, EventsRelayExits,
       OutputRelayExits
  <2>4. QED
    BY <1>1, <2>1, <2>2, <2>3
<1>6. CASE UserStep
  BY <1>1, <1>6 DEF Replies, TrustDecisions, UserStep, PaneTypes, PaneResizes, HandleDropped, HandleSends,
       AnswerHostKey, AnswerCredential
<1>7. CASE FarStep
  BY <1>1, <1>7 DEF FarStep, FarData, FarExits, FarCloses, LinkLost, FarSays
<1>8. CASE UNCHANGED vars
  BY <1>1, <1>8 DEF vars
<1>9. QED
  BY <1>2, <1>3, <1>4, <1>5, <1>6, <1>7, <1>8 DEF Next, TaskStep, Returned

\* Only the task's own poll of its shell channel takes the chunk it holds.
LEMMA HoldsChunkStep == TypeOK /\ HoldsChunk /\ [Next]_vars => HoldsChunk'
<1> SUFFICES ASSUME TypeOK, HoldsChunk, [Next]_vars PROVE HoldsChunk'
  OBVIOUS
<1> USE DEF HoldsChunk
<1>0. inbox \in Seq(ChannelMsgs)
  BY DEF TypeOK, ChannelsOK
<1>1. CASE Establish
  <2>1. FirstStep[AuthOf[hop]] \subseteq {"askCred", "verdict", "authError"}
    BY HopsAssumption DEF FirstStep, Methods, TypeOK
  <2>2. QED
    BY <1>1, <2>1 DEF Establish, Start, Connect, AskKey, KeyDecided, BeginAuth,
       AskCredential, CredentialGiven, HopRefused, HopAccepted, ReportAuthError,
       Fail, Proceed, Report, Ask, Hear
<1>2. CASE RunConnected
  BY <1>2 DEF RunConnected, Authenticated, OpenShell, ShellRefused, Connected,
       PumpInput, Written, WriteFailed, PumpData, Relayed, PumpExitStatus,
       PumpClose, PumpVanished, WindowChanged, TargetClosed, Ended, Proceed, Report, Lost, EndConnected
<1>3. CASE PollsHandle \/ BackoffElapsed
  BY <1>3 DEF PollsHandle, PumpControl, PumpHandleGone, BackoffReconnect,
       BackoffDisconnect, BackoffHandleGone, BackoffIgnores, BackoffElapsed,
       BackoffOver, Proceed, Lost, EndConnected
<1>4. CASE Relays
  BY <1>4 DEF Relays, PaneReceives, PaneFinished, PaneReads, EventsRelayExits,
       OutputRelayExits
<1>5. CASE UserStep
  BY <1>5 DEF UserStep, PaneTypes, PaneResizes, HandleDropped, HandleSends,
       AnswerHostKey, AnswerCredential
<1>6. CASE FarStep
  <2>1. inbox' = inbox \/ \E m \in ChannelMsgs : inbox' = Append(inbox, m)
    BY <1>6 DEF ChannelMsgs, FarStep, FarData, FarExits, FarCloses, LinkLost, FarSays
  <2>2. inbox # <<>> => inbox' # <<>>
    BY <1>0, <2>1
  <2>3. UNCHANGED pc
    BY <1>6 DEF FarStep, FarData, FarExits, FarCloses, LinkLost, FarSays
  <2>4. QED
    BY <2>2, <2>3
<1>7. CASE UNCHANGED vars
  BY <1>7 DEF vars
<1>8. QED
  BY <1>1, <1>2, <1>3, <1>4, <1>5, <1>6, <1>7 DEF Next, TaskStep, Returned

\* Every variable always holds a value of its type: no channel outgrows its
\* capacity and the backoff stays within its bounds, for every number of hops,
\* mix of authentication methods, channel capacity and backoff.
THEOREM TypeCorrect == Spec => []TypeOK
<1>1. Init => TypeOK /\ HoldsChunk
  BY InitTypeOK DEF Init, HoldsChunk
<1>2. TypeOK /\ HoldsChunk /\ [Next]_vars => (TypeOK /\ HoldsChunk)'
  BY TypeStep, HoldsChunkStep
<1>3. QED
  BY <1>1, <1>2, PTL DEF Spec
--------------------------------------------------------------------------------
(* Prompts.  A question is in the events channel only while the task waits   *)
(* for its answer and the pane has not read it, and is the last event there. *)

Questions == {"HostKey", "Credential"}
Quiet(q)  == \A i \in 1..Len(q) : q[i] \notin Questions

QueuedOnce ==
  \A i \in 1..Len(events) : events[i] \in Questions =>
    /\ i = Len(events) /\ prompt = "queued"
    /\ pc = IF events[i] = "HostKey" THEN "awaitKey" ELSE "awaitCred"

PromptInv == WaitHasAnswerer /\ QueuedOnce

LEMMA QuietAppend ==
  ASSUME NEW S, NEW q \in Seq(S), NEW e \in S, Quiet(q), e \notin Questions
  PROVE  Quiet(Append(q, e))
  BY DEF Quiet

\* With no question under way, a step of the task that asks none leaves none.
LEMMA StaysQuiet ==
  ASSUME ChannelsOK, Quiet(events), pc' \notin {"awaitKey", "awaitCred"},
         prompt' = "none",
         UNCHANGED events \/ \E e \in EventKinds \ Questions : Emit(e)
  PROVE  PromptInv'
<1>1. Quiet(events')
  <2>1. CASE UNCHANGED events
    BY <2>1 DEF Quiet
  <2>2. ASSUME NEW e \in EventKinds \ Questions, Emit(e) PROVE Quiet(events')
    <3>1. CASE eventsOpen
      BY <2>2, <3>1, QuietAppend DEF Emit, ChannelsOK
    <3>2. CASE ~eventsOpen
      BY <2>2, <3>2 DEF Emit, Quiet
    <3>3. QED
      BY <3>1, <3>2
  <2>3. QED
    BY <2>1, <2>2
<1>2. QED
  BY <1>1 DEF PromptInv, WaitHasAnswerer, QueuedOnce, Quiet

\* While no prompt is queued, no question is in the channel.
LEMMA NotQueuedQuiet == QueuedOnce /\ prompt # "queued" => Quiet(events)
  BY DEF QueuedOnce, Quiet

\* A question asked of an open channel is the last event in it.
LEMMA AskedLast ==
  ASSUME ChannelsOK, Quiet(events), eventsOpen, UNCHANGED eventsOpen,
         prompt' = "queued", NEW e \in Questions, Emit(e),
         pc' = IF e = "HostKey" THEN "awaitKey" ELSE "awaitCred"
  PROVE  PromptInv'
<1>1. events' = Append(events, e) /\ events \in Seq(EventKinds)
  BY DEF Emit, ChannelsOK
<1>2. Len(events') = Len(events) + 1 /\ events'[Len(events')] = e
  BY <1>1
<1>3. \A i \in 1..Len(events') : i # Len(events') => events'[i] \notin Questions
  BY <1>1 DEF Quiet
<1>4. QueuedOnce'
  BY <1>2, <1>3 DEF QueuedOnce, Questions
<1>5. WaitHasAnswerer'
  <2>1. events' # <<>> /\ Len(events') \in Nat
    BY <1>1
  <2>2. QED
    BY <1>2, <2>1 DEF WaitHasAnswerer, Questions
<1>6. QED
  BY <1>4, <1>5 DEF PromptInv

LEMMA PromptStep == TypeOK /\ PromptInv /\ [Next]_vars => PromptInv'
<1> SUFFICES ASSUME TypeOK, PromptInv, [Next]_vars PROVE PromptInv'
  OBVIOUS
<1>0. ChannelsOK /\ prompt \in {"none", "queued", "HostKey", "Credential"} \cup Replies
  BY DEF TypeOK
<1>1. CASE Establish
  <2>1. prompt # "queued"
    BY <1>1 DEF PromptInv, WaitHasAnswerer, Replies, TrustDecisions, Establish, Start, Connect, AskKey, KeyDecided, BeginAuth,
       AskCredential, CredentialGiven, HopRefused, HopAccepted, ReportAuthError,
       Fail, Proceed, Report, Ask, Hear
  <2>2. Quiet(events)
    BY <2>1, NotQueuedQuiet DEF PromptInv
  <2>3. CASE AskKey \/ AskCredential
    <3>1. UNCHANGED eventsOpen /\ prompt = "none"
      BY <2>3 DEF AskKey, AskCredential, Ask, PromptInv, WaitHasAnswerer
    <3>2. CASE eventsOpen
      BY <1>0, <2>2, <2>3, <3>1, <3>2, AskedLast DEF AskKey, AskCredential, Ask, Questions
    <3>3. CASE ~eventsOpen
      BY <1>0, <2>2, <2>3, <3>1, <3>3, StaysQuiet DEF AskKey, AskCredential, Ask
    <3>4. QED
      BY <3>2, <3>3
  <2>4. CASE ~(AskKey \/ AskCredential)
    <3>1. FirstStep[AuthOf[hop]] \subseteq {"askCred", "verdict", "authError"}
      BY HopsAssumption DEF FirstStep, Methods, TypeOK
    <3>2. pc' \notin {"awaitKey", "awaitCred"}
      BY <1>1, <2>4, <3>1 DEF Establish, Start, Connect, KeyDecided, BeginAuth, CredentialGiven,
         HopRefused, HopAccepted, ReportAuthError, Fail, Proceed, Report, Hear
    <3>3. prompt' = "none"
      BY <1>1, <2>4 DEF PromptInv, WaitHasAnswerer, Establish, Start, Connect, KeyDecided, BeginAuth, CredentialGiven,
         HopRefused, HopAccepted, ReportAuthError, Fail, Proceed, Report, Hear
    <3>4. UNCHANGED events \/ Emit("Connecting") \/ Emit("Error") \/ Emit("Failed")
      BY <1>1, <2>4 DEF Establish, Start, Connect, KeyDecided, BeginAuth, CredentialGiven,
         HopRefused, HopAccepted, ReportAuthError, Fail, Proceed, Report, Hear
    <3>5. QED
      BY <1>0, <2>2, <3>2, <3>3, <3>4, StaysQuiet DEF EventKinds, Reasons, Questions
  <2>5. QED
    BY <2>3, <2>4
<1>2. CASE RunConnected \/ PollsHandle \/ BackoffElapsed
  <2>1. pc \notin {"awaitKey", "awaitCred"} /\ UNCHANGED prompt
    BY <1>2 DEF RunConnected, Authenticated, OpenShell, ShellRefused, Connected,
       PumpInput, Written, WriteFailed, PumpData, Relayed, PumpExitStatus,
       PumpClose, PumpVanished, WindowChanged, TargetClosed, Ended, Proceed, Report, Lost, EndConnected,
       PollsHandle, PumpControl, PumpHandleGone, BackoffReconnect,
       BackoffDisconnect, BackoffHandleGone, BackoffIgnores, BackoffElapsed,
       BackoffOver
  <2>2. prompt = "none" /\ Quiet(events)
    BY <2>1, NotQueuedQuiet DEF PromptInv, WaitHasAnswerer
  <2>3. pc' \notin {"awaitKey", "awaitCred"}
    BY <1>2, <2>1 DEF RunConnected, Authenticated, OpenShell, ShellRefused, Connected,
       PumpInput, Written, WriteFailed, PumpData, Relayed, PumpExitStatus,
       PumpClose, PumpVanished, WindowChanged, TargetClosed, Ended, Proceed, Report, Lost, EndConnected,
       PollsHandle, PumpControl, PumpHandleGone, BackoffReconnect,
       BackoffDisconnect, BackoffHandleGone, BackoffIgnores, BackoffElapsed,
       BackoffOver
  <2>4. \/ UNCHANGED events \/ Emit("Authenticated") \/ Emit("Connected")
        \/ Emit(reason)
    BY <1>2 DEF RunConnected, Authenticated, OpenShell, ShellRefused, Connected,
       PumpInput, Written, WriteFailed, PumpData, Relayed, PumpExitStatus,
       PumpClose, PumpVanished, WindowChanged, TargetClosed, Ended, Proceed, Report, Lost, EndConnected,
       PollsHandle, PumpControl, PumpHandleGone, BackoffReconnect,
       BackoffDisconnect, BackoffHandleGone, BackoffIgnores, BackoffElapsed,
       BackoffOver
  <2>5. reason \in EventKinds \ Questions
    BY DEF TypeOK, Reasons, EventKinds, Questions
  <2>6. QED
    BY <1>0, <2>1, <2>2, <2>3, <2>4, <2>5, StaysQuiet DEF EventKinds, Questions
<1>3. CASE PaneReceives
  <2>1. /\ UNCHANGED <<pc, eventsOpen>> /\ events # <<>> /\ events' = Tail(events)
        /\ prompt' = IF Head(events) \in Questions THEN Head(events) ELSE prompt
    BY <1>3 DEF PaneReceives, Questions
  <2>2. /\ Len(events) \in Nat /\ Len(events) > 0 /\ Len(events') = Len(events) - 1
        /\ Head(events) = events[1]
        /\ \A i \in 1..Len(events') : events'[i] = events[i + 1]
    BY <1>0, <2>1 DEF ChannelsOK
  <2>3. CASE Head(events) \in Questions
    <3>1. /\ Len(events) = 1
          /\ pc = IF Head(events) = "HostKey" THEN "awaitKey" ELSE "awaitCred"
      BY <2>2, <2>3 DEF PromptInv, QueuedOnce
    <3>2. QED
      BY <2>1, <2>2, <2>3, <3>1 DEF PromptInv, QueuedOnce, WaitHasAnswerer, Questions
  <2>4. CASE Head(events) \notin Questions
    <3>1. QueuedOnce'
      <4>1. SUFFICES ASSUME NEW i \in 1..Len(events'), events'[i] \in Questions
                     PROVE  /\ i = Len(events') /\ prompt' = "queued"
                            /\ pc' = IF events'[i] = "HostKey" THEN "awaitKey" ELSE "awaitCred"
        BY DEF QueuedOnce
      <4>2. i + 1 \in 1..Len(events) /\ events'[i] = events[i + 1]
        BY <2>2
      <4>3. /\ i + 1 = Len(events) /\ prompt = "queued"
            /\ pc = IF events[i + 1] = "HostKey" THEN "awaitKey" ELSE "awaitCred"
        BY <4>1, <4>2 DEF PromptInv, QueuedOnce
      <4>4. i = Len(events')
        BY <2>2, <4>3
      <4>5. prompt' = "queued"
        BY <2>1, <2>4, <4>3
      <4>6. QED
        BY <2>1, <4>2, <4>3, <4>4, <4>5
    <3>2. events[Len(events)] \in Questions =>
            events' # <<>> /\ events'[Len(events')] = events[Len(events)]
      BY <2>2, <2>4
    <3>3. WaitHasAnswerer'
      BY <2>1, <2>4, <3>2 DEF PromptInv, WaitHasAnswerer, Questions
    <3>4. QED
      BY <3>1, <3>3 DEF PromptInv
  <2>5. QED
    BY <2>3, <2>4
<1>4. CASE EventsRelayExits
  <2>1. /\ UNCHANGED pc /\ Len(events') = 0
        /\ prompt' = IF prompt = "queued" THEN "Dropped" ELSE prompt
    BY <1>4 DEF EventsRelayExits, backend
  <2>2. QED
    BY <2>1 DEF PromptInv, WaitHasAnswerer, QueuedOnce
<1>5. CASE AnswerHostKey \/ AnswerCredential
  <2>1. UNCHANGED <<pc, events, eventsOpen>> /\ prompt \in Questions
    BY <1>5 DEF AnswerHostKey, AnswerCredential, Questions
  <2>2. Quiet(events)
    BY <2>1, NotQueuedQuiet DEF PromptInv, Questions
  <2>3. \/ pc = "awaitKey" /\ prompt' \in TrustDecisions \cup {"Dropped"}
        \/ pc = "awaitCred" /\ prompt' \in {"Answered", "Cancelled", "Dropped"}
    BY <1>5 DEF AnswerHostKey, AnswerCredential, PromptInv, WaitHasAnswerer, TrustDecisions
  <2>4. QED
    BY <2>1, <2>2, <2>3 DEF PromptInv, WaitHasAnswerer, QueuedOnce, Quiet
<1>6. CASE UNCHANGED <<pc, events, eventsOpen, prompt>>
  BY <1>6 DEF PromptInv, WaitHasAnswerer, QueuedOnce
<1>7. QED
  BY <1>1, <1>2, <1>3, <1>4, <1>5, <1>6
     DEF Next, TaskStep, Returned, Relays, PaneFinished, PaneReads, OutputRelayExits,
       UserStep, PaneTypes, PaneResizes, HandleDropped, HandleSends,
       FarStep, FarData, FarExits, FarCloses, LinkLost, FarSays, vars

\* A task that waits on a oneshot waits for an answer somebody can still give,
\* to the question it asked.
THEOREM PromptsHaveAnswerers == Spec => []WaitHasAnswerer
<1>1. Init => TypeOK /\ HoldsChunk /\ PromptInv
  BY InitTypeOK DEF Init, HoldsChunk, PromptInv, WaitHasAnswerer, QueuedOnce
<1>2. TypeOK /\ HoldsChunk /\ PromptInv /\ [Next]_vars
        => (TypeOK /\ HoldsChunk /\ PromptInv)'
  BY TypeStep, HoldsChunkStep, PromptStep
<1>3. PromptInv => WaitHasAnswerer
  BY DEF PromptInv
<1>4. QED
  BY <1>1, <1>2, <1>3, PTL DEF Spec
--------------------------------------------------------------------------------
(* Host keys.  The keys of the hops behind the current one are accepted, and *)
(* an acceptance the task has yet to hear is that of the current hop.        *)

KeysInv ==
  /\ HostKeyBeforeAuth
  /\ pc \in {"connect", "askKey", "awaitKey"} => 1..(hop - 1) \subseteq accepted
  /\ prompt \in {"AcceptOnce", "AcceptAndRemember"} => hop \in accepted

AtHop  == {"auth", "askCred", "awaitCred", "verdict", "authError"}
Beyond == {"authenticated", "shell"} \cup InShell

LEMMA KeysStep == TypeOK /\ PromptInv /\ KeysInv /\ [Next]_vars => KeysInv'
<1> SUFFICES ASSUME TypeOK, PromptInv, KeysInv, [Next]_vars PROVE KeysInv'
  OBVIOUS
<1>0. /\ hop \in 1..NumHops /\ NumHops \in Nat
      /\ pc \notin {"awaitKey", "awaitCred"} => prompt = "none"
  BY HopsAssumption DEF TypeOK, PromptInv, WaitHasAnswerer
<1> USE DEF KeysInv, HostKeyBeforeAuth, InShell
<1>1. CASE Start
  BY <1>0, <1>1 DEF Start
<1>2. CASE HopAccepted
  BY <1>0, <1>2 DEF HopAccepted
<1>3. CASE KeyDecided
  BY <1>0, <1>3 DEF KeyDecided, Hear, Accepts
<1>4. CASE Establish /\ ~Start /\ ~HopAccepted /\ ~KeyDecided
  <2>1. FirstStep[AuthOf[hop]] \subseteq {"askCred", "verdict", "authError"}
    BY HopsAssumption DEF FirstStep, Methods, TypeOK
  <2>2. UNCHANGED <<hop, accepted>>
    BY <1>4 DEF Establish, Connect, AskKey, BeginAuth,
       AskCredential, CredentialGiven, HopRefused, ReportAuthError,
       Fail, Proceed, Report, Ask, Hear
  <2>3. prompt' \in {prompt, "none", "queued"}
    BY <1>4 DEF Establish, Connect, AskKey, BeginAuth,
       AskCredential, CredentialGiven, HopRefused, ReportAuthError,
       Fail, Proceed, Report, Ask, Hear
  <2>4. \/ pc \in {"connect", "askKey"} /\ pc' \in {"askKey", "awaitKey", "failing"}
        \/ pc \in AtHop /\ pc' \in AtHop \cup {"failing"}
        \/ pc' \in {"backoff", "done", "failing"}
    BY <1>4, <2>1 DEF AtHop, Establish, Connect, AskKey, BeginAuth,
       AskCredential, CredentialGiven, HopRefused, ReportAuthError,
       Fail, Proceed, Report, Ask, Hear
  <2>5. QED
    BY <2>2, <2>3, <2>4 DEF AtHop
<1>5. CASE RunConnected \/ PollsHandle \/ BackoffElapsed
  <2>1. UNCHANGED <<hop, accepted, prompt>>
    BY <1>5 DEF RunConnected, Authenticated, OpenShell, ShellRefused, Connected,
       PumpInput, Written, WriteFailed, PumpData, Relayed, PumpExitStatus,
       PumpClose, PumpVanished, WindowChanged, TargetClosed, Ended, Proceed, Report, Lost, EndConnected,
       PollsHandle, PumpControl, PumpHandleGone, BackoffReconnect,
       BackoffDisconnect, BackoffHandleGone, BackoffIgnores, BackoffElapsed,
       BackoffOver
  <2>2. (pc \in Beyond /\ pc' \in Beyond) \/ pc' \in {"closing", "ended", "backoff", "start", "done"}
    BY <1>5 DEF Beyond, RunConnected, Authenticated, OpenShell, ShellRefused, Connected,
       PumpInput, Written, WriteFailed, PumpData, Relayed, PumpExitStatus,
       PumpClose, PumpVanished, WindowChanged, TargetClosed, Ended, Proceed, Report, Lost, EndConnected,
       PollsHandle, PumpControl, PumpHandleGone, BackoffReconnect,
       BackoffDisconnect, BackoffHandleGone, BackoffIgnores, BackoffElapsed,
       BackoffOver
  <2>3. QED
    BY <2>1, <2>2 DEF Beyond
<1>6. CASE AnswerHostKey
  BY <1>0, <1>6 DEF AnswerHostKey, TrustDecisions, backend
<1>7. CASE Relays \/ (UserStep /\ ~AnswerHostKey) \/ FarStep \/ UNCHANGED vars
  <2>1. UNCHANGED <<pc, hop, accepted>>
    BY <1>7 DEF Relays, PaneReceives, PaneFinished, PaneReads, EventsRelayExits,
       OutputRelayExits,
       UserStep, PaneTypes, PaneResizes, HandleDropped, HandleSends,
       AnswerHostKey, AnswerCredential,
       FarStep, FarData, FarExits, FarCloses, LinkLost, FarSays, vars
  <2>2. prompt' = prompt \/ prompt' \in {"HostKey", "Credential", "Answered", "Cancelled", "Dropped"}
    BY <1>7 DEF Relays, PaneReceives, PaneFinished, PaneReads, EventsRelayExits,
       OutputRelayExits,
       UserStep, PaneTypes, PaneResizes, HandleDropped, HandleSends,
       AnswerHostKey, AnswerCredential,
       FarStep, FarData, FarExits, FarCloses, LinkLost, FarSays, vars
  <2>3. QED
    BY <2>1, <2>2
<1>8. QED
  BY <1>1, <1>2, <1>3, <1>4, <1>5, <1>6, <1>7 DEF Next, TaskStep, Returned

\* FR-23: through any chain of jump hosts no credential is asked for or offered
\* before the keys of that hop and of all before it were accepted.
THEOREM HostKeysComeFirst == Spec => []HostKeyBeforeAuth
<1>1. Init => TypeOK /\ HoldsChunk /\ PromptInv /\ KeysInv
  BY InitTypeOK DEF Init, HoldsChunk, PromptInv, WaitHasAnswerer, QueuedOnce,
       KeysInv, HostKeyBeforeAuth, InShell
<1>2. TypeOK /\ HoldsChunk /\ PromptInv /\ KeysInv /\ [Next]_vars
        => (TypeOK /\ HoldsChunk /\ PromptInv /\ KeysInv)'
  BY TypeStep, HoldsChunkStep, PromptStep, KeysStep
<1>3. KeysInv => HostKeyBeforeAuth
  BY DEF KeysInv
<1>4. QED
  BY <1>1, <1>2, <1>3, PTL DEF Spec

--------------------------------------------------------------------------------
(* How a session ends and is retried.                                        *)

\* The reason of an end a Disconnect brought about, and what the task knows of
\* an end the far end announced.
EndsInv ==
  /\ RetryStartsShort /\ DisconnectIsObeyed /\ TimeoutIsUnannounced
  /\ pc \in {"closing", "ended"} /\ request # "none" => reason = "Local"
  /\ pc = "connected" => ~loggedOut
  /\ pc \in {"pump", "writing", "resizing", "relaying"} /\ loggedOut => exited

LEMMA EndsStep == TypeOK /\ EndsInv /\ [Next]_vars => EndsInv'
<1> SUFFICES ASSUME TypeOK, EndsInv, [Next]_vars PROVE EndsInv'
  OBVIOUS
<1> USE DEF EndsInv, RetryStartsShort, DisconnectIsObeyed, TimeoutIsUnannounced, InShell
<1>1. CASE Establish
  <2>1. FirstStep[AuthOf[hop]] \subseteq {"askCred", "verdict", "authError"}
    BY HopsAssumption DEF FirstStep, Methods, TypeOK
  <2>2. QED
    BY <1>1, <2>1 DEF Restarted, Establish, Start, Connect, AskKey, KeyDecided, BeginAuth,
       AskCredential, CredentialGiven, HopRefused, HopAccepted, ReportAuthError,
       Fail, Proceed, Report, Ask, Hear
<1>2. CASE RunConnected
  BY <1>2 DEF Vanished, Reconnects, RunConnected, Authenticated, OpenShell, ShellRefused, Connected,
       PumpInput, Written, WriteFailed, PumpData, Relayed, PumpExitStatus,
       PumpClose, PumpVanished, WindowChanged, TargetClosed, Ended, Proceed, Report, Lost, EndConnected
<1>3. CASE PollsHandle \/ BackoffElapsed
  BY <1>3 DEF PollsHandle, PumpControl, PumpHandleGone, BackoffReconnect,
       BackoffDisconnect, BackoffHandleGone, BackoffIgnores, BackoffElapsed,
       BackoffOver, Proceed, Lost, EndConnected
<1>4. CASE Relays \/ UserStep \/ FarStep \/ UNCHANGED vars
  <2>1. UNCHANGED <<pc, backoff, request, reason, loggedOut, exited>>
    BY <1>4 DEF Relays, PaneReceives, PaneFinished, PaneReads, EventsRelayExits,
       OutputRelayExits,
       UserStep, PaneTypes, PaneResizes, HandleDropped, HandleSends,
       AnswerHostKey, AnswerCredential,
       FarStep, FarData, FarExits, FarCloses, LinkLost, FarSays, vars
  <2>2. QED
    BY <2>1
<1>5. QED
  BY <1>1, <1>2, <1>3, <1>4 DEF Next, TaskStep, Returned

LEMMA EndsHold == Spec => []EndsInv
<1>1. Init => TypeOK /\ HoldsChunk /\ EndsInv
  BY InitTypeOK DEF Init, HoldsChunk, EndsInv, RetryStartsShort,
       DisconnectIsObeyed, TimeoutIsUnannounced, InShell
<1>2. TypeOK /\ HoldsChunk /\ EndsInv /\ [Next]_vars
        => (TypeOK /\ HoldsChunk /\ EndsInv)'
  BY TypeStep, HoldsChunkStep, EndsStep
<1>3. QED
  BY <1>1, <1>2, PTL DEF Spec

\* FR-29: the retry ladder starts at the bottom after every established
\* connection, over any number of failed attempts and doublings.
THEOREM RetriesStartShort == Spec => []RetryStartsShort
<1>1. EndsInv => RetryStartsShort
  BY DEF EndsInv
<1>2. QED
  BY <1>1, EndsHold, PTL

\* A Disconnect the pump or the backoff has taken is never followed by another
\* attempt.
THEOREM DisconnectsAreObeyed == Spec => []DisconnectIsObeyed
<1>1. EndsInv => DisconnectIsObeyed
  BY DEF EndsInv
<1>2. QED
  BY <1>1, EndsHold, PTL

\* A shell's end that the far end announced is never mistaken for a lost link.
THEOREM LogoutsAreNoTimeouts == Spec => []TimeoutIsUnannounced
<1>1. EndsInv => TimeoutIsUnannounced
  BY DEF EndsInv
<1>2. QED
  BY <1>1, EndsHold, PTL

--------------------------------------------------------------------------------
(* The size of the remote terminal.                                          *)

\* The last Resize of a queue of control messages asks for size s.
LastIs(msgs, s) ==
  \E i \in 1..Len(msgs) :
    /\ msgs[i].kind = "Resize" /\ msgs[i].size = s
    /\ \A j \in 1..Len(msgs) : j > i => msgs[j].kind # "Resize"

\* What the task knows of the pane's size, and what is still on its way there.
SizeInv ==
  /\ pc \in InShell => shellSize = size
  /\ sizeLost = "no" =>
       IF ResizePending(control) THEN LastIs(control, paneSize) ELSE size = paneSize

\* Taking the first message leaves the others in their order.
LEMMA TailOfControl ==
  ASSUME control \in Seq(Controls), control # <<>>, NEW s
  PROVE  /\ ResizePending(control)
              <=> Head(control).kind = "Resize" \/ ResizePending(Tail(control))
         /\ ResizePending(Tail(control)) /\ LastIs(control, s) => LastIs(Tail(control), s)
         /\ ~ResizePending(Tail(control)) /\ LastIs(control, s)
              => Head(control).kind = "Resize" /\ Head(control).size = s
<1> DEFINE rest == Tail(control)
<1>1. /\ Len(control) \in Nat \ {0} /\ Len(rest) = Len(control) - 1
      /\ Head(control) = control[1]
      /\ \A i \in 1..Len(rest) : rest[i] = control[i + 1]
  OBVIOUS
<1>2. \A i \in 1..Len(control) : i = 1 \/ (i - 1 \in 1..Len(rest) /\ rest[i - 1] = control[i])
  BY <1>1
<1>3. \A i \in 1..Len(rest) : i + 1 \in 1..Len(control)
  BY <1>1
<1> HIDE DEF rest
<1>4. ResizePending(control) <=> Head(control).kind = "Resize" \/ ResizePending(rest)
  BY <1>1, <1>2, <1>3 DEF ResizePending
<1>5. ASSUME LastIs(control, s), ResizePending(rest) PROVE LastIs(rest, s)
  <2>1. PICK i \in 1..Len(control) :
          /\ control[i].kind = "Resize" /\ control[i].size = s
          /\ \A j \in 1..Len(control) : j > i => control[j].kind # "Resize"
    BY <1>5 DEF LastIs
  <2>2. PICK k \in 1..Len(rest) : rest[k].kind = "Resize"
    BY <1>5 DEF ResizePending
  <2>3. i # 1
    BY <1>1, <1>3, <2>1, <2>2
  <2>4. i - 1 \in 1..Len(rest) /\ rest[i - 1] = control[i]
    BY <1>2, <2>3
  <2>5. \A j \in 1..Len(rest) : j > i - 1 => rest[j].kind # "Resize"
    BY <1>1, <1>3, <2>1
  <2>6. QED
    BY <2>1, <2>4, <2>5 DEF LastIs
<1>6. ASSUME LastIs(control, s), ~ResizePending(rest)
      PROVE  Head(control).kind = "Resize" /\ Head(control).size = s
  <2>1. PICK i \in 1..Len(control) : control[i].kind = "Resize" /\ control[i].size = s
    BY <1>6 DEF LastIs
  <2>2. i = 1
    BY <1>2, <1>6, <2>1 DEF ResizePending
  <2>3. QED
    BY <1>1, <2>1, <2>2
<1>7. QED
  BY <1>4, <1>5, <1>6 DEF rest

\* A message sent after the others is the last.
LEMMA AppendToControl ==
  ASSUME control \in Seq(Controls), NEW m, NEW s
  PROVE  /\ m.kind # "Resize" =>
              /\ ResizePending(Append(control, m)) <=> ResizePending(control)
              /\ LastIs(control, s) => LastIs(Append(control, m), s)
         /\ m.kind = "Resize" =>
              ResizePending(Append(control, m)) /\ LastIs(Append(control, m), m.size)
<1> DEFINE more == Append(control, m)
<1>1. /\ Len(control) \in Nat /\ Len(more) = Len(control) + 1 /\ more[Len(more)] = m
      /\ \A i \in 1..Len(control) : more[i] = control[i]
  OBVIOUS
<1> HIDE DEF more
<1>2. ASSUME m.kind # "Resize"
      PROVE  (ResizePending(more) <=> ResizePending(control))
               /\ (LastIs(control, s) => LastIs(more, s))
  BY <1>1, <1>2 DEF ResizePending, LastIs
<1>3. ASSUME m.kind = "Resize" PROVE ResizePending(more) /\ LastIs(more, m.size)
  <2>1. Len(more) \in 1..Len(more) /\ \A j \in 1..Len(more) : ~(j > Len(more))
    BY <1>1
  <2>2. QED
    BY <1>1, <1>3, <2>1 DEF ResizePending, LastIs
<1>4. QED
  BY <1>2, <1>3 DEF more

LEMMA SizeStep == TypeOK /\ SizeInv /\ [Next]_vars => SizeInv'
<1> SUFFICES ASSUME TypeOK, SizeInv, [Next]_vars PROVE SizeInv'
  OBVIOUS
<1>1. control \in Seq(Controls)
  BY DEF TypeOK, ChannelsOK
<1> USE DEF SizeInv, InShell
<1>2. CASE Establish
  <2>1. UNCHANGED <<control, size, shellSize, sizeLost, paneSize>> /\ pc' \notin InShell
    <3>1. FirstStep[AuthOf[hop]] \subseteq {"askCred", "verdict", "authError"}
      BY HopsAssumption DEF FirstStep, Methods, TypeOK
    <3>2. QED
      BY <1>2, <3>1 DEF Establish, Start, Connect, AskKey, KeyDecided, BeginAuth,
         AskCredential, CredentialGiven, HopRefused, HopAccepted, ReportAuthError,
         Fail, Proceed, Report, Ask, Hear
  <2>2. QED
    BY <2>1 DEF ResizePending, LastIs
<1>3. CASE RunConnected
  <2>1. UNCHANGED <<control, size, sizeLost, paneSize>>
    BY <1>3 DEF RunConnected, Authenticated, OpenShell, ShellRefused, Connected,
       PumpInput, Written, WriteFailed, PumpData, Relayed, PumpExitStatus,
       PumpClose, PumpVanished, WindowChanged, TargetClosed, Ended, Proceed, Report, Lost, EndConnected
  <2>2. pc' \in InShell => shellSize' = size'
    BY <1>3 DEF OpenedAt, RunConnected, Authenticated, OpenShell, ShellRefused, Connected,
       PumpInput, Written, WriteFailed, PumpData, Relayed, PumpExitStatus,
       PumpClose, PumpVanished, WindowChanged, TargetClosed, Ended, Proceed, Report, Lost, EndConnected
  <2>3. QED
    BY <2>1, <2>2 DEF ResizePending, LastIs
<1>4. CASE PollsHandle
  <2>1. CASE PumpControl
    BY <1>1, <2>1, TailOfControl DEF PumpControl, EndConnected
  <2>2. CASE BackoffReconnect
    BY <1>1, <2>2, TailOfControl DEF BackoffReconnect, BackoffOver
  <2>3. CASE BackoffDisconnect
    BY <1>1, <2>3, TailOfControl DEF BackoffDisconnect
  <2>4. CASE BackoffIgnores
    BY <1>1, <2>4, TailOfControl DEF BackoffIgnores
  <2>5. CASE PumpHandleGone \/ BackoffHandleGone
    BY <2>5 DEF PumpHandleGone, BackoffHandleGone, Proceed, Lost, EndConnected,
       ResizePending, LastIs
  <2>6. QED
    BY <1>4, <2>1, <2>2, <2>3, <2>4, <2>5 DEF PollsHandle
<1>5. CASE BackoffElapsed
  BY <1>5 DEF BackoffElapsed, BackoffOver, ResizePending, LastIs
<1>6. CASE UserStep
  <2>1. ASSUME NEW s \in Sizes, PaneResizes(s) PROVE SizeInv'
    <3>1. Resize(s).kind = "Resize" /\ Resize(s).size = s
      BY DEF Resize
    <3>2. QED
      BY <1>1, <2>1, <3>1, AppendToControl DEF PaneResizes
  <2>2. ASSUME NEW kind \in {"Reconnect", "Disconnect"}, HandleSends(kind) PROVE SizeInv'
    <3>1. [kind |-> kind].kind # "Resize"
      OBVIOUS
    <3>2. QED
      BY <1>1, <2>2, <3>1, AppendToControl DEF HandleSends
  <2>3. CASE UNCHANGED <<pc, control, size, shellSize, sizeLost, paneSize>>
    BY <2>3 DEF ResizePending, LastIs
  <2>4. QED
    BY <1>6, <2>1, <2>2, <2>3 DEF UserStep, PaneTypes, HandleDropped, AnswerHostKey,
       AnswerCredential
<1>7. CASE Relays \/ FarStep \/ UNCHANGED vars
  <2>1. UNCHANGED <<pc, control, size, shellSize, sizeLost, paneSize>>
    BY <1>7 DEF Relays, PaneReceives, PaneFinished, PaneReads, EventsRelayExits,
       OutputRelayExits, FarStep, FarData, FarExits, FarCloses, LinkLost, FarSays, vars
  <2>2. QED
    BY <2>1 DEF ResizePending, LastIs
<1>8. QED
  BY <1>2, <1>3, <1>4, <1>5, <1>6, <1>7 DEF Next, TaskStep, Returned

\* The remote PTY agrees with the pane's size across resizes, reconnects and
\* backoffs, whenever no Resize is under way and none was lost on the way.
THEOREM SizesAgree == Spec => []SizeAgrees
<1>1. Init => TypeOK /\ HoldsChunk /\ SizeInv
  BY InitTypeOK DEF Init, HoldsChunk, SizeInv, InShell, ResizePending
<1>2. TypeOK /\ HoldsChunk /\ SizeInv /\ [Next]_vars => (TypeOK /\ HoldsChunk /\ SizeInv)'
  BY TypeStep, HoldsChunkStep, SizeStep
<1>3. SizeInv => SizeAgrees
  BY DEF SizeInv, SizeAgrees
<1>4. QED
  BY <1>1, <1>2, <1>3, PTL DEF Spec

--------------------------------------------------------------------------------
(* The contract of the events channel.                                       *)

\* What the contract lets follow what.
Follows(a, b) ==
  \/ b = "Connecting" /\ a \in {"Idle", "Timeout", "Failed"}
  \/ b = "Authenticated" /\ a = "Connecting"
  \/ b = "Connected" /\ a = "Authenticated"
  \/ b \in {"Timeout", "Failed"} /\ a \in {"Connecting", "Authenticated", "Connected"}
  \/ b \in {"Local", "Remote"} /\ a = "Connected"

Phases == Lifecycle \cup {"Idle"}
After(e, a) == IF e \in Lifecycle THEN e ELSE a
\* What taking one event does to whoever has seen `a'.
Moves ==
  {m \in Phases \X EventKinds \X Phases :
     m[3] = After(m[2], m[1]) /\ (m[2] \in Lifecycle => Follows(m[1], m[2]))}

\* What the newest lifecycle event was, at each place of the task.
Establishing ==
  {"connect", "askKey", "awaitKey", "auth", "askCred", "awaitCred", "verdict", "authError",
   "failing", "authenticated"}
Announced(b) ==
  /\ pc = "start" => b \in {"Idle", "Timeout", "Failed"}
  /\ pc \in Establishing => b = "Connecting"
  /\ pc \in {"shell", "connected"} => b = "Authenticated"
  /\ pc \in {"pump", "writing", "resizing", "relaying", "closing"} => b = "Connected"
  /\ pc = "ended" => b = "Connected" \/ (b = "Authenticated" /\ reason \in {"Timeout", "Failed"})
  /\ pc = "backoff" => b \in {"Timeout", "Failed"}
  /\ pc = "done" => b \in Reasons

\* As long as there is a pane, what is queued leads from what it has seen to what
\* the task has announced, and it has seen the end only when there is no more.
ContractInv ==
  handle = "open" =>
    /\ eventsOpen
    /\ IF seen = "Finished" THEN pc = "done" /\ events = <<>>
       ELSE seen \in Phases /\ \E b \in Phases : Announced(b) /\ Path(events, seen, b, Phases, Moves)

\* A step that says nothing, and one that says e, keep to the order.
Silently == UNCHANGED events /\ \A b \in Phases : Announced(b) => Announced(b)'
Says(e) ==
  /\ Emit(e)
  /\ \A b \in Phases : Announced(b) =>
       Announced(After(e, b))' /\ (e \in Lifecycle => Follows(b, e))

LEMMA TaskSays ==
  ASSUME TypeOK, TaskStep
  PROVE  /\ UNCHANGED <<handle, seen, eventsOpen>> /\ pc # "done"
         /\ Silently \/ \E e \in EventKinds : Says(e)
<1> USE DEF Announced, Establishing
<1>1. CASE Establish
  <2>1. FirstStep[AuthOf[hop]] \subseteq {"askCred", "verdict", "authError"}
    BY HopsAssumption DEF FirstStep, Methods, TypeOK
  <2>2. UNCHANGED <<handle, seen, eventsOpen>> /\ pc # "done"
    BY <1>1 DEF Establish, Start, Connect, AskKey, KeyDecided, BeginAuth,
       AskCredential, CredentialGiven, HopRefused, HopAccepted, ReportAuthError,
       Fail, Proceed, Report, Ask, Hear
  <2>3. CASE Start \/ AskKey \/ AskCredential \/ ReportAuthError \/ Fail
    <3>1. Silently \/ Says("Connecting") \/ Says("HostKey") \/ Says("Credential")
            \/ Says("Error") \/ Says("Failed")
      BY <2>3 DEF Start, AskKey, AskCredential, ReportAuthError, Fail, Report, Ask, Silently,
         Says, After, Lifecycle, EventKinds, Reasons, Follows
    <3>2. QED
      BY <2>2, <3>1 DEF EventKinds, Reasons
  <2>4. CASE ~(Start \/ AskKey \/ AskCredential \/ ReportAuthError \/ Fail)
    <3>1. Silently
      BY <1>1, <2>1, <2>4 DEF Establish, Connect, KeyDecided, BeginAuth, CredentialGiven,
         HopRefused, HopAccepted, Proceed, Hear, Silently
    <3>2. QED
      BY <2>2, <3>1
  <2>5. QED
    BY <2>3, <2>4
<1>2. CASE RunConnected
  <2>1. UNCHANGED <<handle, seen, eventsOpen>> /\ pc # "done"
    BY <1>2 DEF RunConnected, Authenticated, OpenShell, ShellRefused, Connected,
       PumpInput, Written, WriteFailed, PumpData, Relayed, PumpExitStatus,
       PumpClose, PumpVanished, WindowChanged, TargetClosed, Ended, Proceed, Report, Lost, EndConnected
  <2>2. CASE Authenticated \/ Connected
    <3>1. Says("Authenticated") \/ Says("Connected")
      BY <2>2 DEF Authenticated, Connected, Report, Says, After, Lifecycle, EventKinds,
         Reasons, Follows
    <3>2. QED
      BY <2>1, <3>1 DEF EventKinds
  <2>3. CASE Ended
    <3>1. reason \in Reasons
      BY DEF TypeOK
    <3>2. Says(reason)
      BY <2>3, <3>1 DEF Ended, Reconnects, Says, After, Lifecycle, EventKinds, Reasons, Follows
    <3>3. QED
      BY <2>1, <3>1, <3>2 DEF EventKinds
  <2>4. CASE ~(Authenticated \/ Connected \/ Ended)
    <3>1. Silently
      BY <1>2, <2>4 DEF RunConnected, OpenShell, ShellRefused,
         PumpInput, Written, WriteFailed, PumpData, Relayed, PumpExitStatus,
         PumpClose, PumpVanished, WindowChanged, TargetClosed, Proceed, Lost, EndConnected, Silently
    <3>2. QED
      BY <2>1, <3>1
  <2>5. QED
    BY <2>2, <2>3, <2>4
<1>3. CASE PollsHandle \/ BackoffElapsed
  <2>1. UNCHANGED <<handle, seen, eventsOpen>> /\ pc # "done"
    BY <1>3 DEF PollsHandle, PumpControl, PumpHandleGone, BackoffReconnect,
       BackoffDisconnect, BackoffHandleGone, BackoffIgnores, BackoffElapsed,
       BackoffOver, Proceed, Lost, EndConnected
  <2>2. Silently
    BY <1>3 DEF PollsHandle, PumpControl, PumpHandleGone, BackoffReconnect,
       BackoffDisconnect, BackoffHandleGone, BackoffIgnores, BackoffElapsed,
       BackoffOver, Proceed, Lost, EndConnected, Silently, Reasons
  <2>3. QED
    BY <2>1, <2>2
<1>4. QED
  BY <1>1, <1>2, <1>3 DEF TaskStep

LEMMA ContractStep == TypeOK /\ ContractInv /\ [Next]_vars => ContractInv'
<1> SUFFICES ASSUME TypeOK, ContractInv, [Next]_vars, handle' = "open" PROVE ContractInv'
  BY DEF ContractInv
<1>1. events \in Seq(EventKinds)
  BY DEF TypeOK, ChannelsOK
<1>2. CASE TaskStep
  <2>1. /\ UNCHANGED <<handle, seen, eventsOpen>> /\ pc # "done"
        /\ Silently \/ \E e \in EventKinds : Says(e)
    BY <1>2, TaskSays
  <2>2. eventsOpen /\ seen # "Finished" /\ seen \in Phases
    BY <2>1 DEF ContractInv
  <2>3. PICK b \in Phases : Announced(b) /\ Path(events, seen, b, Phases, Moves)
    BY <2>1, <2>2 DEF ContractInv
  <2>4. CASE Silently
    BY <2>1, <2>2, <2>3, <2>4 DEF Silently, ContractInv
  <2>5. ASSUME NEW e \in EventKinds, Says(e) PROVE ContractInv'
    <3>1. events' = Append(events, e) /\ After(e, b) \in Phases
      BY <2>2, <2>5 DEF Says, Emit, After, Phases
    <3>2. Announced(After(e, b))' /\ (e \in Lifecycle => Follows(b, e))
      BY <2>3, <2>5 DEF Says
    <3>3. <<b, e, After(e, b)>> \in Moves
      BY <3>1, <3>2 DEF Moves
    <3>4. Path(events', seen, After(e, b), Phases, Moves)
      BY <1>1, <2>3, <3>1, <3>3, PathAppend
    <3>5. QED
      BY <2>1, <2>2, <3>1, <3>2, <3>4 DEF ContractInv
  <2>6. QED
    BY <2>1, <2>4, <2>5
<1>3. CASE PaneReceives
  <2>1. /\ handle = "open" /\ events # <<>> /\ events' = Tail(events)
        /\ seen' = After(Head(events), seen) /\ UNCHANGED <<pc, reason, eventsOpen>>
    BY <1>3 DEF PaneReceives, backend, After
  <2>2. PICK b \in Phases : Announced(b) /\ Path(events, seen, b, Phases, Moves)
    BY <2>1 DEF ContractInv
  <2>3. seen \in Phases /\ eventsOpen
    BY <2>1 DEF ContractInv
  <2>4. Path(events', seen', b, Phases, Moves)
    <3>1. PICK c \in Phases : /\ <<seen, Head(events), c>> \in Moves
                              /\ Path(Tail(events), c, b, Phases, Moves)
      BY <1>1, <2>1, <2>2, PathTail
    <3>2. c = seen'
      BY <2>1, <3>1 DEF Moves
    <3>3. QED
      BY <2>1, <3>1, <3>2
  <2>5. seen' \in Phases /\ seen' # "Finished"
    BY <2>1, <2>3 DEF After, Phases, Lifecycle, EventKinds, Reasons
  <2>6. Announced(b)'
    BY <2>1, <2>2 DEF Announced
  <2>7. QED
    BY <2>1, <2>2, <2>3, <2>4, <2>5, <2>6 DEF ContractInv
<1>4. CASE PaneFinished
  BY <1>4 DEF PaneFinished, backend, ContractInv
<1>5. CASE PaneReads \/ EventsRelayExits \/ OutputRelayExits \/ UserStep \/ FarStep \/ UNCHANGED vars
  <2>1. UNCHANGED <<pc, reason, events, seen, handle, eventsOpen>>
    BY <1>5 DEF PaneReads, EventsRelayExits, OutputRelayExits, backend,
       UserStep, PaneTypes, PaneResizes, HandleDropped, HandleSends,
       AnswerHostKey, AnswerCredential,
       FarStep, FarData, FarExits, FarCloses, LinkLost, FarSays, vars
  <2>2. QED
    BY <2>1 DEF ContractInv, Announced
<1>6. QED
  BY <1>2, <1>3, <1>4, <1>5 DEF Next, Relays, Returned

\* The pane's view changes only as the contract says.
LEMMA ContractSteps == TypeOK /\ ContractInv /\ [Next]_vars => [Contract!Next]_seen
<1> SUFFICES ASSUME TypeOK, ContractInv, [Next]_vars, seen' # seen PROVE Contract!Next
  OBVIOUS
<1>1. events \in Seq(EventKinds)
  BY DEF TypeOK, ChannelsOK
<1>2. PaneReceives \/ PaneFinished
  <2>1. ~TaskStep
    BY TaskSays
  <2>2. QED
    BY <2>1 DEF Next, Relays, Returned, vars, PaneReads, EventsRelayExits, OutputRelayExits,
       UserStep, PaneTypes, PaneResizes, HandleDropped, HandleSends,
       AnswerHostKey, AnswerCredential,
       FarStep, FarData, FarExits, FarCloses, LinkLost, FarSays
<1> USE DEF Contract!Next, Contract!Connecting, Contract!Authenticated, Contract!Connected,
            Contract!Disconnected, Contract!Finished
<1>3. CASE PaneReceives
  <2>1. /\ handle = "open" /\ events # <<>> /\ seen' = After(Head(events), seen)
    BY <1>3 DEF PaneReceives, After
  <2>2. PICK b \in Phases : Path(events, seen, b, Phases, Moves)
    BY <2>1 DEF ContractInv
  <2>3. Head(events) \in Lifecycle /\ seen' = Head(events)
    BY <2>1 DEF After
  <2>4. Follows(seen, seen')
    <3>1. PICK c \in Phases : <<seen, Head(events), c>> \in Moves
      BY <1>1, <2>1, <2>2, PathTail
    <3>2. QED
      BY <2>3, <3>1 DEF Moves
  <2>5. QED
    BY <2>4 DEF Follows
<1>4. CASE PaneFinished
  <2>1. handle = "open" /\ events = <<>> /\ pc = "done" /\ seen # "Finished" /\ seen' = "Finished"
    BY <1>4 DEF PaneFinished
  <2>2. PICK b \in Phases : Announced(b) /\ Path(events, seen, b, Phases, Moves)
    BY <2>1 DEF ContractInv
  <2>3. seen \in Reasons
    BY <2>1, <2>2, PathEmpty DEF ContractInv, Announced
  <2>4. QED
    BY <2>1, <2>3 DEF Reasons
<1>5. QED
  BY <1>2, <1>3, <1>4

\* The detailed session implements the abstract lifecycle: whatever the channel
\* holds back, the retries repeat and the far end does, the pane sees the events
\* in the order of the contract.
THEOREM ContractIsKept == Spec => LifecycleContract
<1>1. Init => TypeOK /\ HoldsChunk /\ ContractInv /\ Contract!Init
  <2>1. ASSUME Init PROVE ContractInv
    <3>1. "Idle" \in Phases /\ Announced("Idle") /\ Path(events, seen, "Idle", Phases, Moves)
      BY <2>1, PathEmpty DEF Init, Phases, Announced, Establishing
    <3>2. QED
      BY <2>1, <3>1 DEF Init, ContractInv
  <2>2. QED
    BY <2>1, InitTypeOK DEF Init, HoldsChunk, Contract!Init
<1>2. TypeOK /\ HoldsChunk /\ ContractInv /\ [Next]_vars
        => (TypeOK /\ HoldsChunk /\ ContractInv)' /\ [Contract!Next]_seen
  BY TypeStep, HoldsChunkStep, ContractStep, ContractSteps
<1>3. QED
  BY <1>1, <1>2, PTL DEF Spec, LifecycleContract, Contract!Spec
================================================================================
