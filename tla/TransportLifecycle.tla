-------------------------- MODULE TransportLifecycle --------------------------
(***************************************************************************)
(* What a transport backend promises the holder of its TransportHandle     *)
(* about the events channel: the contract stated on TransportEvent and     *)
(* ControlMsg in polyterm-core.  `phase' is the last lifecycle event the   *)
(* holder has seen; prompts and errors are interludes that leave it alone. *)
(* Backends refine this module: SshSession maps `phase' to what the pane   *)
(* has consumed from its end of the channel.                               *)
(***************************************************************************)
CONSTANTS
  Retryable,  \* DisconnectReasons after which the link may come back
  Final,      \* DisconnectReasons after which it may not; no reason is both
  Direct      \* the backend has nothing to connect or authenticate: a device or a child

VARIABLE phase

\* A phase that is a reason means `Disconnected { reason }' was seen.
Phases ==
  {"Idle", "Connecting", "Authenticated", "Connected", "Finished"}
    \cup Retryable \cup Final

Init == phase = "Idle"

\* An attempt is announced first, and again only after a drop that is retried.
Connecting    == phase \in {"Idle"} \cup Retryable /\ phase' = "Connecting"

Authenticated == phase = "Connecting"              /\ phase' = "Authenticated"

\* Usable: never before authentication of this same attempt.
Connected     == phase = "Authenticated"           /\ phase' = "Connected"

\* A direct backend was opened before there was a handle: it starts out usable.
\* Coming back is a new attempt, announced as any other.
Opened        == Direct /\ phase = "Idle"           /\ phase' = "Connected"

\* The link is down.  Before the session was usable the only reason is a
\* failure; a usable one may end for any.
Disconnected  ==
  \/ phase \in {"Connecting", "Authenticated"} /\ phase' \in Retryable
  \/ phase = "Connected"                       /\ phase' \in Retryable \cup Final

\* `events' closes.  A session never ends without having said why.
Finished      == phase \in Retryable \cup Final    /\ phase' = "Finished"

Next == Connecting \/ Authenticated \/ Connected \/ Opened \/ Disconnected \/ Finished

Spec == Init /\ [][Next]_phase
================================================================================
