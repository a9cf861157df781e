---------------------------- MODULE PromptAnswerer ----------------------------
(***************************************************************************)
(* The party that answers prompts: `handle_prompt', the modal and its      *)
(* queue, `resolve_modal', the known-hosts store with its file, the        *)
(* keyring and the passphrase cache.  Each prompt carries a oneshot to the *)
(* session that waits for it; SshSession has that other end.               *)
(*                                                                         *)
(* A secret is "good" or "bad": whether it opens the key, or is the        *)
(* password the server knows.                                              *)
(***************************************************************************)
EXTENDS Integers, Sequences, FiniteSets

CONSTANTS
  Prompts,      \* the questions sessions may put
  Request,      \* Request[p]: what p asks, a member of Requests
  Slots,        \* (host, port, key_type)
  Keys,         \* public keys
  Paths,        \* private-key files
  Readable,     \* those in OpenSSH format, which `ssh-key' can check
  Credentials,  \* CredentialRefs
  None,
  MaxAsks, MaxRestarts    \* bounds: how often each question is put; restarts

Requests ==
  [kind : {"HostKey"}, slot : Slots, key : Keys] \cup
  [kind : {"Passphrase"}, path : Paths, credential : Credentials \cup {None}] \cup
  [kind : {"Password"}, credential : Credentials \cup {None}] \cup
  [kind : {"Interactive"}]

Modals == [prompt : Prompts, status : {"Unknown", "Changed", "none"}]

ASSUME PromptsAssumption ==
  /\ Request \in [Prompts -> Requests] /\ Readable \subseteq Paths
  /\ None \notin Prompts \cup Keys \cup Credentials \cup Modals
ASSUME BoundsAssumption == MaxAsks \in Nat /\ MaxRestarts \in Nat

VARIABLES
  open,         \* the known-hosts store could be opened (app.known_hosts is Some)
  known, file,  \* its keys in memory, and in known_hosts.json
  keyring, cache,
  modal, queue, \* self.modal, self.modal_queue
  reply,        \* what each prompt's oneshot has: see Replies
  asked, restarts,
  accepted      \* history: the keys the user accepted, ever, by slot

stores == <<open, known, file, keyring, cache>>
modals == <<modal, queue>>
vars   == <<stores, modals, reply, asked, restarts, accepted>>

Secrets == {"good", "bad"}
\* "waiting": the session awaits it; "gone": the session was closed meanwhile.
Replies == {"none", "waiting", "gone", "accepted", "rejected", "cancelled", "responses"} \cup Secrets
KnownHosts == [Slots -> Keys \cup {None}]

Kind(p)  == Request[p].kind
Modal(p, status) == [prompt |-> p, status |-> status]
Held == {queue[i].prompt : i \in DOMAIN queue} \cup (IF modal = None THEN {} ELSE {modal.prompt})

\* The Mutant definitions of this module are wrong variants of what they precede.
StatusMutant(p) ==
  CASE ~open \/ known[Request[p].slot] = None -> "Unknown" [] OTHER -> "Match"
Status(p) ==
  CASE ~open \/ known[Request[p].slot] = None -> "Unknown"
    [] known[Request[p].slot] = Request[p].key -> "Match"
    [] OTHER -> "Changed"

SilentMutant(status) == FALSE
Silent(status) == status = "Match"

NoHosts == [s \in Slots |-> None]
Pairs(hosts) == {<<s, hosts[s]>> : s \in {t \in Slots : hosts[t] # None}}

Init ==
  /\ open \in BOOLEAN /\ file \in KnownHosts /\ known = IF open THEN file ELSE NoHosts
  /\ keyring \in [Credentials -> Secrets \cup {"none"}]
  /\ cache = [k \in Paths |-> "none"]
  /\ modal = None /\ queue = <<>>
  /\ reply = [p \in Prompts |-> "none"] /\ asked = [p \in Prompts |-> 0] /\ restarts = 0
  /\ accepted = Pairs(file)

--------------------------------------------------------------------------------
(* A prompt comes out of a pane's pump.                                      *)

Raised(p) ==
  /\ p \notin Held /\ reply[p] # "waiting" /\ asked[p] < MaxAsks
  /\ asked' = [asked EXCEPT ![p] = @ + 1]

\* A oneshot whose receiver is gone swallows what is sent.
Reply(p, r) == reply' = [reply EXCEPT ![p] = IF @ = "gone" THEN "none" ELSE r]

\* enqueue_modal: straight onto the screen if nothing is there, even past a queue.
EnqueueMutant(m) ==
  IF modal = None THEN modal' = m /\ UNCHANGED queue
  ELSE modal' = m /\ UNCHANGED queue
Enqueue(m) ==
  IF modal = None THEN modal' = m /\ UNCHANGED queue
  ELSE queue' = Append(queue, m) /\ UNCHANGED modal

HostKeyPrompt(p) ==
  /\ Kind(p) = "HostKey" /\ Raised(p)
  /\ IF Silent(Status(p)) THEN Reply(p, "accepted") /\ UNCHANGED modals
     ELSE Enqueue(Modal(p, Status(p))) /\ Reply(p, "waiting")
  /\ UNCHANGED <<stores, restarts, accepted>>

Cached(p) == Kind(p) = "Passphrase" /\ cache[Request[p].path] # "none"
Stored(p) ==
  /\ Kind(p) \in {"Password", "Passphrase"} /\ Request[p].credential # None
  /\ keyring[Request[p].credential] # "none"

\* A keyring that cannot be read is a miss, as an absent entry is.
CredentialPrompt(p) ==
  /\ Kind(p) # "HostKey" /\ Raised(p)
  /\ \/ Cached(p) /\ Reply(p, cache[Request[p].path]) /\ UNCHANGED modals
     \/ ~Cached(p) /\ Stored(p) /\ Reply(p, keyring[Request[p].credential]) /\ UNCHANGED modals
     \/ ~Cached(p) /\ Enqueue(Modal(p, "none")) /\ Reply(p, "waiting")
  /\ UNCHANGED <<stores, restarts, accepted>>

HandlePrompt(p) == HostKeyPrompt(p) \/ CredentialPrompt(p)

--------------------------------------------------------------------------------
(* The modal on the screen.                                                  *)

ShowNextMutant == modal = None /\ Len(queue) > 1 /\ modal' = Head(queue) /\ queue' = Tail(queue)
           /\ UNCHANGED <<stores, reply, asked, restarts, accepted>>
ShowNext ==
  /\ modal = None /\ queue # <<>> /\ modal' = Head(queue) /\ queue' = Tail(queue)
  /\ UNCHANGED <<stores, reply, asked, restarts, accepted>>

Shown(kinds) == modal # None /\ Kind(modal.prompt) \in kinds
Closed == modal' = None /\ UNCHANGED queue

\* The Reject button, and closing the window.
HostKeyRejected ==
  /\ Shown({"HostKey"}) /\ Closed /\ Reply(modal.prompt, "rejected")
  /\ UNCHANGED <<stores, asked, restarts, accepted>>

\* Memory changes, whether the file can be written or not; the answer counts either way.
Remember(slot, key) ==
  /\ known' = [known EXCEPT ![slot] = key]
  /\ file' = known' \/ UNCHANGED file

HostKeyAccepted ==
  /\ Shown({"HostKey"}) /\ Closed /\ Reply(modal.prompt, "accepted")
  /\ LET r == Request[modal.prompt] IN
     /\ accepted' = accepted \cup {<<r.slot, r.key>>}
     /\ IF open THEN Remember(r.slot, r.key) ELSE UNCHANGED <<known, file>>
  /\ UNCHANGED <<open, keyring, cache, asked, restarts>>

CredentialCancelled ==
  /\ Shown({"Password", "Passphrase", "Interactive"}) /\ Closed /\ Reply(modal.prompt, "cancelled")
  /\ UNCHANGED <<stores, asked, restarts, accepted>>

Responses ==
  /\ Shown({"Interactive"}) /\ Closed /\ Reply(modal.prompt, "responses")
  /\ UNCHANGED <<stores, asked, restarts, accepted>>

\* verify_passphrase: what it may say of a secret for a key file.  Any error is
\* "Unverifiable": another format, but also a file that cannot be read just now.
Verdicts(path, secret) ==
  {"Unverifiable"} \cup
  {verdict \in {"Correct", "Incorrect"} : path \in Readable /\ (verdict = "Correct" <=> secret = "good")}

\* The modal was taken off the screen, so the retry is put straight back on it.
WrongPassphrase ==
  /\ Shown({"Passphrase"})
  /\ \E secret \in Secrets : "Incorrect" \in Verdicts(Request[modal.prompt].path, secret)
  /\ modal' = Modal(modal.prompt, "none")
  /\ UNCHANGED <<stores, queue, reply, asked, restarts, accepted>>

\* What cannot be judged counts, and is cached, as what is correct does.
\* `credentials::store' may fail, unnoticed.  The box is only offered with a credential.
SecretGiven(secret, remember) ==
  /\ Shown({"Password", "Passphrase"}) /\ Closed /\ Reply(modal.prompt, secret)
  /\ LET r == Request[modal.prompt] IN
     /\ r.kind = "Passphrase" => \E verdict \in Verdicts(r.path, secret) : verdict # "Incorrect"
     /\ IF r.kind = "Passphrase" THEN cache' = [cache EXCEPT ![r.path] = secret]
        ELSE UNCHANGED cache
     /\ remember => r.credential # None
     /\ \/ remember /\ keyring' = [keyring EXCEPT ![r.credential] = secret]
        \/ UNCHANGED keyring
  /\ UNCHANGED <<open, known, file, asked, restarts, accepted>>

\* Settings, "Forget key passphrases".
Forget ==
  /\ \E k \in Paths : cache[k] # "none"
  /\ cache' = [k \in Paths |-> "none"]
  /\ UNCHANGED <<open, known, file, keyring, modals, reply, asked, restarts, accepted>>

--------------------------------------------------------------------------------
(* Around it.                                                                *)

\* The session that asked is closed; its modal stays.
SessionGone(p) ==
  /\ reply[p] = "waiting" /\ reply' = [reply EXCEPT ![p] = "gone"]
  /\ UNCHANGED <<stores, modals, asked, restarts, accepted>>

\* KnownHosts::open: a file that does not parse is an empty store, one that
\* cannot be read is none.
Loaded(readable, parses) == IF readable /\ parses THEN file ELSE NoHosts

Restart ==
  /\ restarts < MaxRestarts /\ restarts' = restarts + 1
  /\ \E readable, parses \in BOOLEAN : open' = readable /\ known' = Loaded(readable, parses)
  /\ cache' = [k \in Paths |-> "none"] /\ modal' = None /\ queue' = <<>>
  /\ reply' = [p \in Prompts |-> "none"]
  /\ UNCHANGED <<file, keyring, asked, accepted>>

Resolve ==
  \/ HostKeyRejected \/ HostKeyAccepted \/ CredentialCancelled \/ Responses
  \/ \E secret \in Secrets, remember \in BOOLEAN : SecretGiven(secret, remember)
Next ==
  \/ \E p \in Prompts : HandlePrompt(p) \/ SessionGone(p)
  \/ ShowNext \/ Resolve \/ WrongPassphrase \/ Forget \/ Restart

Spec == Init /\ [][Next]_vars
\* A frame follows a frame, and the user does not leave a modal for ever, or
\* type nothing but wrong passphrases.
FairSpec == Spec /\ WF_vars(ShowNext) /\ WF_vars(Resolve)

--------------------------------------------------------------------------------
(* Properties.                                                               *)

TypeOK ==
  /\ open \in BOOLEAN /\ known \in KnownHosts /\ file \in KnownHosts
  /\ keyring \in [Credentials -> Secrets \cup {"none"}]
  /\ cache \in [Paths -> Secrets \cup {"none"}]
  /\ modal \in Modals \cup {None} /\ queue \in Seq(Modals)
  /\ reply \in [Prompts -> Replies] /\ asked \in [Prompts -> Nat] /\ restarts \in Nat
  /\ accepted \subseteq Slots \X Keys

\* A session that waits for an answer has its prompt on the screen or in the
\* queue, once: through retries, the queue and closed sessions no oneshot is
\* dropped or answered twice.
WaitingAreHeld ==
  /\ \A p \in Prompts : reply[p] = "waiting" => p \in Held
  /\ \A i, j \in DOMAIN queue : queue[i].prompt = queue[j].prompt => i = j
  /\ modal # None => \A i \in DOMAIN queue : queue[i].prompt # modal.prompt

\* A host key is accepted, on the user's word or silently, only if the user
\* accepted that very key for that host, port and type; so is whatever the
\* store or its file holds, after failed writes and restarts too.
KeysAreAccepted ==
  /\ Pairs(known) \cup Pairs(file) \subseteq accepted
  /\ \A p \in Prompts :
       Kind(p) = "HostKey" /\ reply[p] = "accepted" => <<Request[p].slot, Request[p].key>> \in accepted

\* Whoever asks is answered, if the user answers what is on the screen: a
\* prompt may be overtaken, but is not forgotten.
EveryoneIsAnswered ==
  \A p \in Prompts : reply[p] = "waiting" ~> reply[p] # "waiting"
================================================================================
