--------------------------- MODULE MCPromptAnswerer ---------------------------
(* PromptAnswerer for TLC: sessions to one host, of which two meet different *)
(* keys, one session with a key file in either format, and a password.       *)
EXTENDS PromptAnswerer, TLC

CONSTANTS h1, h2, q1, q2, w1, i1, s1, kA, kB, openssh, pem, cred

HostKey(key)           == [kind |-> "HostKey", slot |-> s1, key |-> key]
Passphrase(path, c)    == [kind |-> "Passphrase", path |-> path, credential |-> c]
Password               == [kind |-> "Password", credential |-> cred]
Interactive            == [kind |-> "Interactive"]

\* TLC passes over the domain's members that a configuration leaves out of Prompts.
All == (h1 :> HostKey(kA)) @@ (h2 :> HostKey(kB)) @@ (i1 :> Interactive)
    @@ (q1 :> Passphrase(openssh, cred)) @@ (q2 :> Passphrase(pem, cred)) @@ (w1 :> Password)
Asked == [p \in Prompts |-> All[p]]
================================================================================
