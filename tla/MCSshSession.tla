----------------------------- MODULE MCSshSession -----------------------------
(* Instances of SshSession for model checking.                              *)
EXTENDS SshSession

\* A jump host and the target, each with a different way in: between them they
\* take every branch of authenticate_with.
KeyThenInteractive == <<"PublicKey", "KeyboardInteractive">>
AgentOnly          == <<"Agent">>
================================================================================
