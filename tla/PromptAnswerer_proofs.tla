------------------------- MODULE PromptAnswerer_proofs -------------------------
(***************************************************************************)
(* Theorems about PromptAnswerer, for every set of prompts, hosts, keys,   *)
(* key files and credentials, and any number of restarts.  Each invariant  *)
(* is inductive given the types.                                           *)
(***************************************************************************)
EXTENDS PromptAnswerer, TLAPS

\* What a request has, by its kind.
LEMMA Shapes ==
  ASSUME NEW p \in Prompts
  PROVE  /\ Kind(p) \in {"HostKey", "Passphrase", "Password", "Interactive"}
         /\ Kind(p) = "HostKey" => Request[p].slot \in Slots /\ Request[p].key \in Keys
         /\ Kind(p) = "Passphrase" => /\ Request[p].path \in Paths
                                      /\ Request[p].credential \in Credentials \cup {None}
         /\ Kind(p) = "Password" => Request[p].credential \in Credentials \cup {None}
<1>1. Request[p] \in Requests
  BY PromptsAssumption
<1>2. QED
  BY <1>1 DEF Requests, Kind

\* The modal on the screen is about a prompt.
LEMMA ModalType ==
  ASSUME TypeOK, modal # None
  PROVE  modal.prompt \in Prompts /\ modal \in Modals
BY DEF TypeOK, Modals

\* What an answer does to the oneshots.
LEMMA ReplyType ==
  ASSUME TypeOK, NEW p \in Prompts, NEW r \in Replies, Reply(p, r)
  PROVE  /\ reply' \in [Prompts -> Replies]
         /\ \A q \in Prompts \ {p} : reply'[q] = reply[q]
         /\ reply'[p] \in {"none", r}
BY DEF TypeOK, Reply, Replies

\* What queueing a modal, or showing it, does to the ones held.
LEMMA EnqueueType ==
  ASSUME TypeOK, NEW m \in Modals, Enqueue(m)
  PROVE  modal' \in Modals \cup {None} /\ queue' \in Seq(Modals)
<1>1. queue \in Seq(Modals) /\ modal \in Modals \cup {None}
  BY DEF TypeOK
<1>2. Append(queue, m) \in Seq(Modals)
  BY <1>1
<1>3. QED
  BY <1>1, <1>2 DEF Enqueue

LEMMA NewModal ==
  ASSUME NEW p \in Prompts, NEW status \in {"Unknown", "Changed", "none"}
  PROVE  Modal(p, status) \in Modals /\ Modal(p, status).prompt = p
BY DEF Modal, Modals

--------------------------------------------------------------------------------
(* Types.                                                                    *)

LEMMA InitTypes == Init => TypeOK
<1> SUFFICES ASSUME Init PROVE TypeOK
  OBVIOUS
<1>1. Pairs(file) \subseteq Slots \X Keys
  BY DEF Init, Pairs, KnownHosts
<1>2. QED
  BY <1>1 DEF Init, TypeOK, KnownHosts, NoHosts, Replies

LEMMA TypesStep == TypeOK /\ [Next]_vars => TypeOK'
<1> SUFFICES ASSUME TypeOK, [Next]_vars PROVE TypeOK'
  OBVIOUS
<1> USE DEF TypeOK
<1>1. ASSUME NEW p \in Prompts, HostKeyPrompt(p) PROVE TypeOK'
  <2>1. Status(p) \in {"Unknown", "Changed", "Match"}
    BY DEF Status
  <2>2. asked' \in [Prompts -> Nat]
    BY <1>1 DEF HostKeyPrompt, Raised
  <2>3. CASE Silent(Status(p))
    <3>1. Reply(p, "accepted") /\ UNCHANGED modals
      BY <1>1, <2>3 DEF HostKeyPrompt
    <3>2. reply' \in [Prompts -> Replies]
      BY <3>1, ReplyType DEF Replies
    <3>3. QED
      BY <1>1, <2>2, <3>1, <3>2 DEF HostKeyPrompt, stores, modals
  <2>4. CASE ~Silent(Status(p))
    <3>1. Enqueue(Modal(p, Status(p))) /\ Reply(p, "waiting")
      BY <1>1, <2>4 DEF HostKeyPrompt
    <3>2. Modal(p, Status(p)) \in Modals
      BY <2>1, <2>4, NewModal DEF Silent
    <3>3. modal' \in Modals \cup {None} /\ queue' \in Seq(Modals)
      BY <3>1, <3>2, EnqueueType
    <3>4. reply' \in [Prompts -> Replies]
      BY <3>1, ReplyType DEF Replies
    <3>5. QED
      BY <1>1, <2>2, <3>3, <3>4 DEF HostKeyPrompt, stores
  <2>5. QED
    BY <2>3, <2>4
<1>2. ASSUME NEW p \in Prompts, CredentialPrompt(p) PROVE TypeOK'
  <2>1. asked' \in [Prompts -> Nat]
    BY <1>2 DEF CredentialPrompt, Raised
  <2>2. ASSUME NEW r \in Replies, Reply(p, r), UNCHANGED modals PROVE TypeOK'
    <3>1. reply' \in [Prompts -> Replies]
      BY <2>2, ReplyType
    <3>2. QED
      BY <1>2, <2>1, <2>2, <3>1 DEF CredentialPrompt, stores, modals
  <2>3. CASE Enqueue(Modal(p, "none")) /\ Reply(p, "waiting")
    <3>1. modal' \in Modals \cup {None} /\ queue' \in Seq(Modals)
      BY <2>3, NewModal, EnqueueType
    <3>2. reply' \in [Prompts -> Replies]
      BY <2>3, ReplyType DEF Replies
    <3>3. QED
      BY <1>2, <2>1, <3>1, <3>2 DEF CredentialPrompt, stores
  <2>4. Cached(p) => cache[Request[p].path] \in Replies
    BY Shapes DEF Cached, Secrets, Replies
  <2>5. Stored(p) => keyring[Request[p].credential] \in Replies
    BY Shapes DEF Stored, Secrets, Replies
  <2>6. QED
    BY <1>2, <2>2, <2>3, <2>4, <2>5 DEF CredentialPrompt
<1>3. CASE ShowNext
  BY <1>3 DEF ShowNext, stores
<1>4. CASE HostKeyRejected \/ CredentialCancelled \/ Responses
  <2>1. PICK r \in Replies : Reply(modal.prompt, r)
    BY <1>4 DEF HostKeyRejected, CredentialCancelled, Responses, Replies
  <2>2. modal # None
    BY <1>4 DEF HostKeyRejected, CredentialCancelled, Responses, Shown
  <2>3. reply' \in [Prompts -> Replies]
    BY <2>1, <2>2, ModalType, ReplyType
  <2>4. QED
    BY <1>4, <2>3 DEF HostKeyRejected, CredentialCancelled, Responses, Closed, stores
<1>5. CASE HostKeyAccepted
  <2>1. modal # None /\ Kind(modal.prompt) = "HostKey" /\ modal.prompt \in Prompts
    BY <1>5, ModalType DEF HostKeyAccepted, Shown
  <2>2. Request[modal.prompt].slot \in Slots /\ Request[modal.prompt].key \in Keys
    BY <2>1, Shapes
  <2>3. reply' \in [Prompts -> Replies]
    BY <1>5, <2>1, ReplyType DEF HostKeyAccepted, Replies
  <2>4. known' \in KnownHosts /\ file' \in KnownHosts
    BY <1>5, <2>2 DEF HostKeyAccepted, Remember, KnownHosts
  <2>5. accepted' \subseteq Slots \X Keys
    BY <1>5, <2>2 DEF HostKeyAccepted
  <2>6. QED
    BY <1>5, <2>3, <2>4, <2>5 DEF HostKeyAccepted, Closed
<1>6. ASSUME NEW secret \in Secrets, NEW remember \in BOOLEAN, SecretGiven(secret, remember)
      PROVE  TypeOK'
  <2>1. modal.prompt \in Prompts /\ Kind(modal.prompt) \in {"Password", "Passphrase"}
    BY <1>6, ModalType DEF SecretGiven, Shown
  <2>2. reply' \in [Prompts -> Replies]
    BY <1>6, <2>1, ReplyType DEF SecretGiven, Replies
  <2>3. cache' \in [Paths -> Secrets \cup {"none"}]
    BY <1>6, <2>1, Shapes DEF SecretGiven, Kind
  <2>4. keyring' \in [Credentials -> Secrets \cup {"none"}]
    BY <1>6, <2>1, Shapes DEF SecretGiven
  <2>5. QED
    BY <1>6, <2>2, <2>3, <2>4 DEF SecretGiven, Closed
<1>7. CASE WrongPassphrase
  BY <1>7, ModalType, NewModal DEF WrongPassphrase, Shown, stores
<1>8. CASE Forget
  BY <1>8 DEF Forget, modals
<1>9. ASSUME NEW p \in Prompts, SessionGone(p) PROVE TypeOK'
  BY <1>9 DEF SessionGone, stores, modals, Replies
<1>10. CASE Restart
  BY <1>10 DEF Restart, Loaded, NoHosts, KnownHosts, Replies
<1>11. CASE UNCHANGED vars
  BY <1>11 DEF vars, stores, modals
<1>12. QED
  BY <1>1, <1>2, <1>3, <1>4, <1>5, <1>6, <1>7, <1>8, <1>9, <1>10, <1>11
     DEF Next, HandlePrompt, Resolve

\* Every variable keeps its type, through every order of prompts, answers and restarts.
THEOREM TypeCorrect == Spec => []TypeOK
  BY InitTypes, TypesStep, PTL DEF Spec

--------------------------------------------------------------------------------
(* Waiting prompts.                                                          *)

\* A prompt that is not held is queued or shown, and the others stay where they are.
LEMMA EnqueueHolds ==
  ASSUME TypeOK, WaitingAreHeld, NEW p \in Prompts, p \notin Held,
         NEW m \in Modals, m.prompt = p, Enqueue(m)
  PROVE  /\ Held' = Held \cup {p}
         /\ \A i, j \in DOMAIN queue' : queue'[i].prompt = queue'[j].prompt => i = j
         /\ modal' # None => \A i \in DOMAIN queue' : queue'[i].prompt # modal'.prompt
<1>1. m # None
  BY PromptsAssumption
<1>2. CASE modal = None
  BY <1>1, <1>2 DEF Enqueue, Held, WaitingAreHeld
<1>3. CASE modal # None
  <2>1. queue' = Append(queue, m) /\ modal' = modal
    BY <1>3 DEF Enqueue
  <2>2. /\ Len(queue') = Len(queue) + 1
        /\ \A i \in 1..Len(queue) : queue'[i] = queue[i]
        /\ queue'[Len(queue) + 1] = m
        /\ DOMAIN queue = 1..Len(queue) /\ DOMAIN queue' = 1..(Len(queue) + 1)
        /\ Len(queue) \in Nat
    BY <2>1 DEF TypeOK
  <2>3. \A i \in 1..Len(queue) : queue[i].prompt # p
    BY <2>2 DEF Held
  <2>4. Held' = Held \cup {p}
    BY <2>1, <2>2, <1>3 DEF Held
  <2>5. modal.prompt # p
    BY <1>3 DEF Held
  <2>6. QED
    BY <1>3, <2>1, <2>2, <2>3, <2>4, <2>5 DEF WaitingAreHeld
<1>4. QED
  BY <1>2, <1>3

\* A modal that closes leaves only its own prompt unheld.
LEMMA ClosedHolds ==
  ASSUME TypeOK, WaitingAreHeld, modal # None, Closed, NEW r \in Replies \ {"waiting"},
         Reply(modal.prompt, r)
  PROVE  WaitingAreHeld'
<1>1. /\ \A q \in Prompts \ {modal.prompt} : reply'[q] = reply[q]
      /\ reply'[modal.prompt] # "waiting"
  BY ModalType, ReplyType
<1>2. Held \ {modal.prompt} \subseteq Held'
  BY DEF Held, Closed
<1>3. QED
  BY <1>1, <1>2 DEF WaitingAreHeld, Closed

LEMMA WaitingStep == TypeOK /\ WaitingAreHeld /\ [Next]_vars => WaitingAreHeld'
<1> SUFFICES ASSUME TypeOK, WaitingAreHeld, [Next]_vars PROVE WaitingAreHeld'
  OBVIOUS
<1>1. ASSUME NEW p \in Prompts, NEW r \in Replies \ {"waiting"}, Reply(p, r), UNCHANGED modals
      PROVE  WaitingAreHeld'
  <2>1. \A q \in Prompts : reply'[q] = "waiting" => reply[q] = "waiting"
    BY <1>1, ReplyType
  <2>2. QED
    BY <1>1, <2>1 DEF WaitingAreHeld, Held, modals
<1>2. ASSUME NEW p \in Prompts, NEW m \in Modals, m.prompt = p, p \notin Held,
             Enqueue(m), Reply(p, "waiting")
      PROVE  WaitingAreHeld'
  <2>1. \A q \in Prompts \ {p} : reply'[q] = reply[q]
    BY <1>2, ReplyType DEF Replies
  <2>2. QED
    BY <1>2, <2>1, EnqueueHolds DEF WaitingAreHeld
<1>3. ASSUME NEW p \in Prompts, HostKeyPrompt(p) PROVE WaitingAreHeld'
  <2>1. Status(p) \in {"Unknown", "Changed", "Match"} /\ p \notin Held
    BY <1>3 DEF HostKeyPrompt, Status, Raised
  <2>2. CASE Silent(Status(p))
    BY <1>1, <1>3, <2>2 DEF HostKeyPrompt, Replies
  <2>3. CASE ~Silent(Status(p))
    <3>1. Modal(p, Status(p)) \in Modals /\ Modal(p, Status(p)).prompt = p
      BY <2>1, <2>3, NewModal DEF Silent
    <3>2. QED
      BY <1>2, <1>3, <2>1, <2>3, <3>1 DEF HostKeyPrompt
  <2>4. QED
    BY <2>2, <2>3
<1>4. ASSUME NEW p \in Prompts, CredentialPrompt(p) PROVE WaitingAreHeld'
  <2>1. p \notin Held /\ Modal(p, "none") \in Modals /\ Modal(p, "none").prompt = p
    BY <1>4, NewModal DEF CredentialPrompt, Raised
  <2>2. Cached(p) => cache[Request[p].path] \in Replies \ {"waiting"}
    BY Shapes DEF Cached, Secrets, Replies, TypeOK
  <2>3. Stored(p) => keyring[Request[p].credential] \in Replies \ {"waiting"}
    BY Shapes DEF Stored, Secrets, Replies, TypeOK
  <2>4. QED
    BY <1>1, <1>2, <1>4, <2>1, <2>2, <2>3 DEF CredentialPrompt
<1>5. CASE ShowNext
  <2>1. /\ Len(queue) \in Nat \ {0} /\ DOMAIN queue = 1..Len(queue)
        /\ DOMAIN queue' = 1..(Len(queue) - 1) /\ modal' = queue[1]
        /\ \A i \in 1..(Len(queue) - 1) : queue'[i] = queue[i + 1]
    BY <1>5 DEF ShowNext, TypeOK
  <2>2. modal' # None
    BY <2>1, PromptsAssumption DEF TypeOK
  <2>3. Held' = Held
    <3>1. ASSUME NEW i \in 1..Len(queue) PROVE queue[i].prompt \in Held'
      <4>1. CASE i = 1
        BY <2>1, <2>2, <4>1 DEF Held
      <4>2. CASE i # 1
        <5>1. i - 1 \in DOMAIN queue' /\ queue'[i - 1] = queue[i]
          BY <2>1, <4>2
        <5>2. QED
          BY <5>1 DEF Held
      <4>3. QED
        BY <4>1, <4>2
    <3>2. Held' \subseteq Held
      BY <1>5, <2>1, <2>2 DEF Held, ShowNext
    <3>3. Held = {queue[i].prompt : i \in 1..Len(queue)}
      BY <1>5, <2>1 DEF Held, ShowNext
    <3>4. QED
      BY <3>1, <3>2, <3>3
  <2>4. \A i \in DOMAIN queue' : i + 1 \in DOMAIN queue /\ i + 1 # 1
    BY <2>1
  <2>5. QED
    BY <1>5, <2>1, <2>3, <2>4 DEF WaitingAreHeld, ShowNext
<1>6. CASE HostKeyRejected \/ HostKeyAccepted \/ CredentialCancelled \/ Responses
  <2>1. modal # None /\ Closed
    BY <1>6 DEF HostKeyRejected, HostKeyAccepted, CredentialCancelled, Responses, Shown
  <2>2. \E r \in Replies \ {"waiting"} : Reply(modal.prompt, r)
    BY <1>6 DEF HostKeyRejected, HostKeyAccepted, CredentialCancelled, Responses, Replies
  <2>3. QED
    BY <2>1, <2>2, ClosedHolds
<1>7. ASSUME NEW secret \in Secrets, NEW remember \in BOOLEAN, SecretGiven(secret, remember)
      PROVE  WaitingAreHeld'
  BY <1>7, ClosedHolds DEF SecretGiven, Shown, Secrets, Replies
<1>8. CASE WrongPassphrase
  <2>1. modal' # None /\ modal'.prompt = modal.prompt /\ modal # None
    BY <1>8, ModalType, NewModal, PromptsAssumption DEF WrongPassphrase, Shown
  <2>2. QED
    BY <1>8, <2>1 DEF WrongPassphrase, WaitingAreHeld, Held
<1>9. CASE Forget \/ UNCHANGED vars
  BY <1>9 DEF Forget, vars, modals, WaitingAreHeld, Held
<1>10. ASSUME NEW p \in Prompts, SessionGone(p) PROVE WaitingAreHeld'
  BY <1>10 DEF SessionGone, modals, WaitingAreHeld, Held, TypeOK
<1>11. CASE Restart
  BY <1>11 DEF Restart, WaitingAreHeld
<1>12. QED
  BY <1>3, <1>4, <1>5, <1>6, <1>7, <1>8, <1>9, <1>10, <1>11 DEF Next, HandlePrompt, Resolve

\* Whoever waits has its prompt on the screen or in the queue, once.
THEOREM WaitingPromptsAreHeld == Spec => []WaitingAreHeld
<1>1. Init => WaitingAreHeld
  BY DEF Init, WaitingAreHeld
<1>2. QED
  BY <1>1, InitTypes, TypesStep, WaitingStep, PTL DEF Spec

--------------------------------------------------------------------------------
(* Host keys and passphrases.                                                *)

LEMMA KeysStep == TypeOK /\ KeysAreAccepted /\ [Next]_vars => KeysAreAccepted'
<1> SUFFICES ASSUME TypeOK, KeysAreAccepted, [Next]_vars PROVE KeysAreAccepted'
  OBVIOUS
\* Most steps store no key and accept none.
<1>1. ASSUME UNCHANGED <<known, file, accepted>>,
             \A p \in Prompts : Kind(p) = "HostKey" /\ reply'[p] = "accepted" => reply[p] = "accepted"
      PROVE  KeysAreAccepted'
  BY <1>1 DEF KeysAreAccepted, Pairs
<1>2. ASSUME NEW p \in Prompts, NEW r \in Replies, Reply(p, r), r # "accepted" \/ Kind(p) # "HostKey"
      PROVE  \A q \in Prompts : Kind(q) = "HostKey" /\ reply'[q] = "accepted" => reply[q] = "accepted"
  BY <1>2, ReplyType
<1>3. ASSUME NEW p \in Prompts, HostKeyPrompt(p) PROVE KeysAreAccepted'
  <2>1. CASE Silent(Status(p))
    <3>1. Kind(p) = "HostKey" /\ Reply(p, "accepted") /\ UNCHANGED <<known, file, accepted>>
      BY <1>3, <2>1 DEF HostKeyPrompt, stores
    <3>2. <<Request[p].slot, Request[p].key>> \in Pairs(known)
      BY <2>1, <3>1, Shapes, PromptsAssumption DEF Silent, Status, Pairs
    <3>3. \A q \in Prompts \ {p} : reply'[q] = reply[q]
      BY <3>1, ReplyType DEF Replies
    <3>4. QED
      BY <3>1, <3>2, <3>3 DEF KeysAreAccepted, Pairs
  <2>2. CASE ~Silent(Status(p))
    BY <1>1, <1>2, <1>3, <2>2 DEF HostKeyPrompt, stores, Replies
  <2>3. QED
    BY <2>1, <2>2
<1>4. ASSUME NEW p \in Prompts, CredentialPrompt(p) PROVE KeysAreAccepted'
  <2>1. Kind(p) # "HostKey" /\ UNCHANGED <<known, file, accepted>>
    BY <1>4 DEF CredentialPrompt, stores
  <2>2. \E r \in Replies : Reply(p, r)
    BY <1>4, Shapes DEF CredentialPrompt, Cached, Stored, Secrets, Replies, TypeOK
  <2>3. QED
    BY <1>1, <1>2, <2>1, <2>2
<1>5. CASE HostKeyRejected \/ CredentialCancelled \/ Responses
  <2>1. \E r \in Replies \ {"accepted"} : Reply(modal.prompt, r)
    BY <1>5 DEF HostKeyRejected, CredentialCancelled, Responses, Replies
  <2>2. modal.prompt \in Prompts /\ UNCHANGED <<known, file, accepted>>
    BY <1>5, ModalType DEF HostKeyRejected, CredentialCancelled, Responses, Shown, stores
  <2>3. QED
    BY <1>1, <1>2, <2>1, <2>2
<1>6. CASE HostKeyAccepted
  <2> DEFINE slot == Request[modal.prompt].slot
             key  == Request[modal.prompt].key
  <2>1. modal.prompt \in Prompts /\ Kind(modal.prompt) = "HostKey"
    BY <1>6, ModalType DEF HostKeyAccepted, Shown
  <2>2. slot \in Slots /\ key \in Keys
    BY <2>1, Shapes
  <2>3. accepted' = accepted \cup {<<slot, key>>}
    BY <1>6 DEF HostKeyAccepted
  <2>4. known' \in {known, [known EXCEPT ![slot] = key]} /\ file' \in {file, known'}
    BY <1>6 DEF HostKeyAccepted, Remember
  <2>5. Pairs(known') \subseteq Pairs(known) \cup {<<slot, key>>}
    BY <2>2, <2>4 DEF Pairs, TypeOK, KnownHosts
  <2>6. \A q \in Prompts \ {modal.prompt} : reply'[q] = reply[q]
    BY <1>6, <2>1, ReplyType DEF HostKeyAccepted, Replies
  <2>7. Pairs(file') \subseteq Pairs(file) \cup Pairs(known')
    BY <2>4
  <2> HIDE DEF slot, key
  <2>8. Pairs(known)' \cup Pairs(file)' \subseteq accepted'
    BY <2>3, <2>5, <2>7 DEF KeysAreAccepted, Pairs
  <2>9. QED
    BY <2>3, <2>6, <2>8 DEF KeysAreAccepted, slot, key
<1>7. ASSUME NEW secret \in Secrets, NEW remember \in BOOLEAN, SecretGiven(secret, remember)
      PROVE  KeysAreAccepted'
  <2>1. modal.prompt \in Prompts /\ Reply(modal.prompt, secret) /\ UNCHANGED <<known, file, accepted>>
    BY <1>7, ModalType DEF SecretGiven, Shown
  <2>2. QED
    BY <1>1, <1>2, <2>1 DEF Secrets, Replies
<1>8. CASE ShowNext \/ WrongPassphrase \/ Forget \/ UNCHANGED vars
  BY <1>1, <1>8 DEF ShowNext, WrongPassphrase, Forget, vars, stores
<1>9. ASSUME NEW p \in Prompts, SessionGone(p) PROVE KeysAreAccepted'
  BY <1>1, <1>9 DEF SessionGone, stores, TypeOK
<1>10. CASE Restart
  <2>1. Pairs(known') \subseteq Pairs(file) /\ UNCHANGED <<file, accepted>>
    BY <1>10 DEF Restart, Loaded, NoHosts, Pairs
  <2>2. \A q \in Prompts : reply'[q] # "accepted"
    BY <1>10 DEF Restart
  <2>3. QED
    BY <2>1, <2>2 DEF KeysAreAccepted, Pairs
<1>11. QED
  BY <1>3, <1>4, <1>5, <1>6, <1>7, <1>8, <1>9, <1>10 DEF Next, HandlePrompt, Resolve

\* No host key is accepted, or stored, that the user did not accept for that very
\* host, port and key type: after failed writes, unreadable files and restarts too.
THEOREM KeysAreTheUsers == Spec => []KeysAreAccepted
<1>1. Init => KeysAreAccepted
  BY DEF Init, KeysAreAccepted, Pairs, NoHosts
<1>2. QED
  BY <1>1, InitTypes, TypesStep, KeysStep, PTL DEF Spec
================================================================================
