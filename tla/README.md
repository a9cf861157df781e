# PolyTerm, specified

TLA+ models of PolyTerm, the TLC runs that check them on small instances, and
theorems about them that TLAPS proves for every instance. The code is in `src/`;
paths below leave out `src/crates/` where there is no doubt. `PROJECT.json` maps every definition that
models code to its lines, lists the hazards the properties are for, and names for
each property a wrong variant of the code that it catches.

## The system

PolyTerm is a desktop terminal. A UI thread paints frames; a multi-threaded tokio
runtime (`apps/polyterm/src/main.rs:109`) runs one or more tasks per session. The
two meet only in channels.

| Component | State | Operations |
|---|---|---|
| SSH session task, `polyterm-ssh/src/lib.rs` | backoff, `connected_before`, the size, the hop chain, the shell channel, `exited` | `run`, `establish`, `authenticate_with`, `open_shell`, `pump`, `wait_backoff`, `check_server_key` |
| SSH port forwards, `polyterm-ssh/src/forward.rs` | `forwards` of the pump, a task per forward, the shared map of remote targets | `start`, `stop`, `abort_all`, `listen`, the remote request, `accept_remote` |
| Transport contract, `polyterm-core/src/transport.rs` | four bounded channels: output, input, control, events | `new_pair`; the order of `TransportEvent`s |
| Pane, `polyterm-ui/src/pane.rs` | the UI's channel ends, `pending_input`, `dropping_input`, rows of forwards, last size, `finished` | `pump`, `send_input`, `drain_input`, `add_forward`, `remove_forward`, resize |
| Prompt answering, `polyterm-ui/src/app.rs`, `polyterm-store/src/known_hosts.rs` | the modal and its queue, passphrase cache, known hosts, keyring | `handle_prompt`, `enqueue_modal`, `resolve_modal`, `remember_host_key` |
| Tiles, focus, broadcast, `polyterm-ui/src/app.rs` | tile tree, focus, `multi_exec`, pending paste, close confirmation | `route_keyboard`, `recipients`, `close_tile`, `restart_pane`, dialogs |
| Serial backend, `polyterm-serial/src/session.rs` | port, BREAK timer, modem lines | one thread: `run`, `wait_and_reopen` |
| Local shell, `polyterm-pty/src/lib.rs` | the child process | reader, writer and controller tasks |
| Session library, `polyterm-store/src/library.rs` | index, one file per top-level folder | upsert, move, delete, include, remove; `atomic_write` |
| Session log, `polyterm-ui/src/session_log.rs` | a queue to a writer thread | `write`, `Drop` |
| SFTP service, `polyterm-ssh/src/sftp.rs` | a client per channel | `serve`, `handle` |
| Terminal emulation, `polyterm-term` | an alacritty terminal | feed, snapshot, scroll |
| RDP, `polyterm-rdp`, `polyterm-core/src/rdp.rs` | none, a stub | `spawn` fails |
| Palette, key encoding, session editor, settings, `polyterm-ui`, `polyterm-core` | forms and data | sequential |
| Program start, `apps/polyterm/src` | wiring | runtime, logging, spawner |

They interact like this. A backend emits prompts, status and lifecycle on `events`;
a relay task carries them to the pane, which drains them at the start of each frame
and gives prompts to the app. The app answers over a oneshot inside the prompt. Keys
go by `try_send` to the input channel of every recipient, or to the pane's own queue
when that is full; resizes and forwards go by `try_send` to `control`. Forwards
share the SSH session's connection and its `events`. Closing a tab drops the UI's
ends, which is how a backend learns of it.

What makes it hard: `select!` takes whichever branch is ready, so input, control and
channel messages are seen in any order; a prompt waits on somebody who may be gone;
everything is bounded, so a send can wait for a reader that waits for it, or a
`try_send` can be refused; links drop at any moment and the session starts over with
what it remembers; tasks are aborted, or outlive what they belong to.

What makes each correct:

- SSH session: no credential before an accepted host key (FR-23); retries exactly what
  dropped (FR-29); ends when told to; events in the order of the contract; a remote
  PTY of the pane's size.
- Forwards: the list tells the truth, and nothing listens or delivers that should not
  (FR-27).
- Input: order, no stall, bounded, no silent loss (NFR-16, ARCHITECTURE 10.3).
- Prompts: every oneshot answered or dropped once; nothing trusted that is stale.
- Tiles: keys reach the recipients of the moment they were typed and no others.
- Serial, PTY: the contract, without losing the last output or the end.
- Library: what the tree shows is what the files hold, and no crash, failed write or
  unreadable file costs a session.

`PROJECT.json` lists each hazard at the line where it bites.

## The modules

| Module | Models |
|---|---|
| `TransportLifecycle` | the contract of the events channel, abstractly |
| `SshSession` (`MCSshSession`) | the session task, its four channels, the relays and the pane, the dialogs, the far end |
| `SshForwards` (`MCSshForwards`) | forwards: pane, pump, tasks, target map, server |
| `InputFifo` | the promise of the input path: a FIFO that drops only new keys |
| `InputQueue` | the input channel, the pending queue and the frame loop, for several sessions |
| `PromptAnswerer` (`MCPromptAnswerer`) | whoever answers the prompts: modals, known hosts, keyring, passphrase cache |
| `TransportPair` | the channels and the pane as the two direct backends meet them |
| `SerialSession`, `PtySession` | the two direct backends, each over `TransportPair` |
| `MCBackends` | one session over either of them, and what the two promise alike |
| `SessionLibrary` (`MCSessionLibrary`) | the session tree in memory and its files |
| `Tiles` (`MCTiles`) | the tile tree, the live sessions, focus, broadcast, closing, save and restore |
| `SharedLemmas` | lemmas of several proofs: induction with a set for the predicate, and queues of events as paths through a set of moves |
| `SshSession_proofs`, `SshForwards_proofs`, `InputQueue_proofs`, `Backends_proofs`, `PromptAnswerer_proofs`, `SessionLibrary_proofs`, `Tiles_proofs` | theorems and proofs |

Three refinements: `SshSession` and either direct backend implement `TransportLifecycle`
(`LifecycleContract`, `DirectContract`), `phase` being the last lifecycle event the pane has
consumed; the serial backend does so but for one step that `DirectContract` names; `InputQueue` implements `InputFifo` (`KeysAreQueued`), its queue being the channel
followed by the pending queue. `PromptAnswerer` is the other end of the prompts of
`SshSession`, which lets a dialog answer whatever it likes and whenever it likes, as those
modals do. `Tiles` decides who the recipients of a key are, and `InputQueue` takes any set
of them. A definition named `...Mutant` is a wrong variant of the one after it. It is in no
specification; it is there so that a property can be seen to fail.

### SshSession

`pc` is an await point of `run` and all it awaits inline; the code between two awaits
is one action, for nothing else of the task can run there.

| `pc` | code |
|---|---|
| start, connect, askKey, awaitKey | `Connecting` sent; TCP or tunnel; `check_server_key` sends its prompt, and waits |
| auth, askCred, awaitCred, verdict, authError, failing | `authenticate_with` and its four methods; `fail` |
| authenticated, shell, connected | `run` and `run_connected` up to the pump |
| pump, writing, resizing, relaying | the `select!` of `pump`; `data_bytes`; `window_change`; `output.send` |
| closing, ended, backoff, done | `target.disconnect`; `Disconnected` sent; `wait_backoff`; `run` has returned |

Data is abstract. Input and output are counts. An event is its kind, a `Disconnected`
its reason, a prompt its kind and where it is (`queued`, in a dialog, or resolved). What
the methods of authentication do with the server is one step, `verdict`, which goes any
way that method allows. `backoff` counts units of time and elapses whenever it likes.
History variables (`accepted`, `loggedOut`, `request`, `paneSize`, `sizeLost`) serve the
properties and constrain nothing. `HandleSends` sends what the contract has any holder
send; the UI of today never sends `Reconnect` or `Disconnect`. Port forwards and SFTP,
which travel on `control` and `events` too, are left out here; what the pump awaits for them
(`cancel_tcpip_forward`) is in `SshForwards`.

### SshForwards

The session is pumping, in the middle of `stop`, or down. A forward's task goes from
binding (or requesting) through its report, which may park on a full events channel, to
listening or its end. An abort takes effect at the task's next await, so it may be
late. `owner` is whose listen the server granted; `targets` is `RemoteForwards`, left as it is by
`abort_all` and new with each connection. `clashed` is history: the remote forwards that met
another one of their bind on one connection. A server listens once per bind and may refuse. A task that asks on a dead
connection (`stale`) is refused.

### InputQueue

One frame is `pump` for every pane, `route_keyboard`, the drawing, the dialogs, of which one
delivers a confirmed paste after all has been drawn. Inside `drain_input` each `try_send` is a step of its own, as the backend may read between two. A fan-out to
recipients is one step: their channels are independent, so nothing is lost by it. Items
are numbered in the order they are typed.

### PromptAnswerer

`handle_prompt` is one step of the UI thread: it answers from the known hosts, the cache or
the keyring, or puts the prompt on the screen or in the queue. Each button of the modals is
an action of `resolve_modal`; a wrong passphrase is put straight back on the screen. A
secret is good or bad, which for a key file in OpenSSH format the program can tell, if it can read
the file at that moment (`Verdicts`): any error there passes for a format it does not know.
`known` and `file` differ when a write failed. `SessionGone` closes the receiving end of a
oneshot whose prompt is still held. `Restart` loads the file again, as nothing when it
cannot be parsed, and without a store when it cannot be read. `accepted` is what the user
said, over all runs.

### SerialSession and PtySession

`TransportPair` has the four channels as counts and short sequences, the events as the pane
takes them, and the dropped handle; a `send` waits for room, and fails once the UI is gone.

The serial thread is a loop: everything pending on control, the end of a BREAK, the modem
lines when due, input to the port, the port to output. `pc` is the place in it, with a value
of its own for each blocking send and for a write to the line, which flow control may hold
(`writing`). The device can be pulled, plugged and change its
lines at any moment; after a pull the open port stays dead (`alive`) until `wait_and_reopen`
opens it again. `BreakElapses` and `ModemElapses` are the two deadlines.

The PTY has three tasks: the reader and the writer on the blocking pool and the controller,
which waits for the child and for control. The child writes, exits, is told
to end by a signal, which it may ignore, and may leave a job that keeps the terminal open: the reader sees its end only when nobody is left.

### SessionLibrary

An operation changes memory and leaves in `todo` what it has still to write; `Write` does
one file, the index before the folders and those in the order of the tree, so that `Stop` and
`WriteFails` may come between any two. `atomic_write` replaces a file or leaves it.
Opening reads the index and then one file after the other, each of which may be missing,
corrupt or unreadable, migrates the legacy default folder and saves. `saved` are the sessions ever written
that the user did not delete; `failed` says that a write of this run failed.

### Tiles

One turn of `ui()` is a frame: pumps and what they close, keyboard and session panel,
drawing with its menus, dialogs. `tiles` is `egui_tiles`' tree as the code uses it. `Tidy` is what that
library does to it unasked before it draws (empty groups and splits of one child go, a bare pane gets a
tab bar, nested splits of one direction are joined), `Drag` what the user does to it with any tab.
A click on the x of a tab is `RequestClose` if the tile is a pane and `CloseGroup` if it is a group;
what was below such a group is collected at once here, and by the library in its next pass. `add_tab_beside` and `split_tile` turn a tile into
a group in place, so a tile id may change its meaning while something holds it. `Relaunch`
is an exit or crash and the start from the last saved layout, some of whose sessions
may no longer open.

## The runs

| Run | Instance | Shows |
|---|---|---|
| `SshSession` | jump host by key, target keyboard-interactive; events 2, the other channels 1 | types; keys before credentials; somebody answers; backoff restarts short; only unannounced ends are timeouts; Disconnect obeyed; sizes agree; the contract; a dropped or disconnected session ends |
| `SshForwards` | one local, two remote forwards of one bind, events 1, control 2, two lost links | no orphan local listener; no stale target; settled rows tell the truth; what was taken reports |
| `InputQueue` | two sessions, one wedged; channel 1, pending 2; five items | order, bounds, loss only when full and marked, FIFO, others served if frames recur |
| `PromptAnswerer` | two keys of one host, a key file, an interactive prompt; one restart | who waits is held once and answered; no key trusted unasked |
| `Backends` | serial or PTY; every channel of size 1; three moves of the device, two writes of the child | the contract but for one named step; the end after the reaping; the last output; BREAK ends; lines shown; a closed tab ends its threads, each unless a write or the shell holds it |
| `SessionLibrary` | two files of any content, an index of two entries, two sessions, a folder and one in it; three operations over any number of runs | tree and files agree; names and files differ; nothing unreadable is written over |
| `Tiles` | two sessions, four tiles | the tree is whole; input stays inside its group; a session with forwards is closed only through the dialog |

Five more runs state what a comment of the repository says and the code does not do;
TLC finds each violated, and `findings` in `PROJECT.json` tells how it comes about:

| Run | What the comment says | What happens |
|---|---|---|
| `SshLogoutIsFinal` | "logging back in on a logout is exactly what must not happen" (`polyterm-ssh/src/lib.rs:118`) | a key typed after the exit makes a write fail, which is retried |
| `LibraryMoveSurvives` | "Every mutation rewrites exactly the one file it touches, atomically" (`library.rs:14`) | a move touches two, and a stop between them leaves the session in neither |
| `TilesNeverSilent` | "closing tears its tunnels down, so it is never silent" (`app.rs:1038`) | the tile the dialog asks about became a group; all of it closes |
| `TilesNoneUnseen` | "Drop the live terminal: that closes the input/control senders and the relay receivers" (`app.rs:2126`) | for the tab of a group nothing is dropped or asked; its panes go and their sessions run on, tunnels included, with no pane to see or close them |
| `TilesTypedAsMeant` | "keystrokes never reach a pane that was not focused when they were typed" (`app.rs:1854`) | keys before a focus shortcut of the same frame go where the focus moves |

Other places where the code and its comments, or what a user would suppose, part. No run is
about them; the hazards in `PROJECT.json` note them where a property has to step around them:

- `connected_before` is set before the shell opens, so a server that authenticates and refuses
  the shell is retried for ever, not only a link that was up (`polyterm-ssh/src/lib.rs:104`).
- A resize taken during the backoff is forgotten (`lib.rs:207`), though the next shell is said to
  open at the current size. `SizeAgrees` sets it aside by `sizeLost`.
- A Disconnect taken during the backoff ends the session without another `Disconnected`.
- Rows of forwards stay Active over a reconnect, as `abort_all` reports nothing (`forward.rs:125`).
- An answer under way brings the row of a removed remote forward back (`forward.rs:69`).
- A second remote forward on one bind takes over the traffic of the first, even when it
  is refused (`forward.rs:62`). `RowsTellTruth` leaves out the forwards that met so (`clashed`).
- What was typed while a serial device was unplugged is written to it in one burst when it
  is back (`polyterm-serial/src/session.rs:169`).
- A reopened serial device is announced as `Connected` straight after `Disconnected`
  (`session.rs:205`), where `transport.rs:200-205` and `218-221` have `Connecting` between.
  `TransportLifecycle` is what `transport.rs` says; `DirectContract` names the departure
  (`ReopensUnannounced`) and allows that step and no other. The header of `session.rs` (15-20) says
  too that modem lines are not implemented there, though they are (154-163).
- A write to a serial line waits out flow control with BREAK, modem poll, Disconnect and the close
  of the tab unheard (`session.rs:169-170`); the SSH pump waits likewise for the far end's window
  (`polyterm-ssh/src/lib.rs:594-599`), and `establish` for a server that is silent or asks one
  keyboard-interactive question after another. None of these has a timeout of its own.
- `kill()` on a local shell is a SIGHUP on Unix, which it may ignore (`polyterm-pty/src/lib.rs:180`).
- Lost input may go unsaid: a paste is delivered after the frame was drawn (`app.rs:1904-1928`) and
  the drain of the next frame can clear the mark first (`pane.rs:374-390`); a tab in the background draws
  none (`pane.rs:548-562`). Nothing asks for a repaint while input is pending
  (`pane.rs:161-176`), so a backend that reads all it has and says nothing gets the rest at the next event.
- A wrong passphrase is cached when the key file cannot be read or parsed at that moment: any error is
  `Unverifiable` (`keys.rs:48`, `app.rs:1250-1253`), which the comment there means for other formats.
- A host-key prompt that waited keeps the status it was given on arrival (`app.rs:1154`), and
  a waiting passphrase prompt is asked although the cache has the answer by then (`app.rs:1196`).

### Bounds

The capacities of the code (16 to 256) are 1 to 3 here. The code tests them only for room,
so a channel of one is full as often as it can be, and two tell the head of a queue from
the rest. Theorems need none of the bounds below.

- `SshSession`: two hops tell the first, the last, a direct connection and a tunnel; the methods are
  key and keyboard-interactive, and `SshLogoutIsFinal` has the agent.
  Backoff 1 to 2 has a first wait and one that is doubled and would pass the cap next. There is no
  bound on reconnects.
- `MaxAsked` 2 and `MaxDrops` 2 in `SshForwards`: two forwards of any two kinds, and
  after one lost connection everything an earlier one may leave behind is there (its tasks,
  requests and rows), with one more to lose. The two remote forwards share their bind, the harder case.
- `MaxItems` 5 in `InputQueue`: enough to fill both queues of a session and drop a key, with room
  for a report or a key to the other.
- `MaxAsks` 1 and `MaxRestarts` 1 in `PromptAnswerer`: each of four prompts is put once in each
  behaviour, before or after a restart; a wrong passphrase may be given any number of times.
- `MaxSends` 2, `MaxPlugs` 3, `PtyBuf` 2, `MaxWrites` 2 in the backends: a message behind
  another; a pull, a plug and one more event of the device; a chunk delivered while one waits.
- `MaxOps` 3 and `MaxEntries` 2 in `SessionLibrary`, from every content of the two files (an id may be
  in both) and every index of up to two entries (of one name or path, too): an operation that
  fails or is cut off, and two on what it left. Starts and stops are not bounded. The sessions are alike.
  A path stands for a file, as `load_entry` and `add_file` compare paths: two spellings of one file are two.
- `MaxTiles` 4 in `Tiles`: two panes under two nested groups. The instances are alike, and TLC
  uses their symmetry (no liveness is checked there).

`SshForwards`, `PromptAnswerer` and `Backends` do not check for deadlock: ids, questions and
messages are used up under these bounds, and an idle or ended session has nothing left to do.

### Fairness

- The session task is weakly fair wherever the runtime alone can run it: at every await but those
  that only the network or an agent ends (`NetworkAwaits`: connecting, the server's verdicts, opening
  the shell, a write, a resize, the disconnect). Nothing bounds those but an optional keepalive, which a
  live link answers. The polling of the handle is strongly fair: `select!` chooses at random among the
  branches that are ready, so one ready again and again is taken. Relays and pane are weakly
  fair: the relays ask for a repaint, and each frame drains.
- Nothing obliges a user to type, answer or close, or a far end to do anything. `DropEnds` and
  `DisconnectEnds` name what they suppose instead (`NothingHoldsIt`): no prompt stays on screen
  for ever, no server goes on asking for ever in one attempt, and no single network operation is held for
  ever. Each is a real way for a closed tab to leave its task behind; nothing else is.
- In `SshForwards` the pump, each task and the pane are weakly fair, the server's answer
  being part of the task.
- In `InputQueue` a frame that has begun ends, and every session that is not wedged reads. That
  another frame begins is not assumed but named in `OthersAreServed` (`FramesRecur`). `MaxItems` is an assumption of `OthersAreServed` too: reports
  sent for ever past the pending queue could fill each free place first.
- In `PromptAnswerer` the next modal comes up, since frames follow each other, and the user
  resolves the one on the screen, not by wrong passphrases alone for ever. Without
  that, nobody behind it is answered: `EveryoneIsAnswered` says that nothing else is needed.
- The threads and tasks of the backends, their timers and the frames are weakly fair. A write to a
  serial line or to a PTY nobody reads may block for ever, so it is not, and a shell need not
  die when told; user, device, shell and its jobs do as they like. The properties name what they wait for
  (`WritesReturn`, `ShellsDie`).

## What is proved

For every value of the constants under the assumptions of the modules (at least one hop,
positive capacities, an initial backoff below the cap; the binds of forwards known; the
requests of prompts well formed; names, paths and folders of the library told apart). TLC
evaluates these assumptions in the runs. Each proof has one step per action.

| Theorem | States | By |
|---|---|---|
| `SshSession_proofs!TypeCorrect` | `[]TypeOK` | a task that relays a message must know that there is one (`HoldsChunk`) |
| `PromptsHaveAnswerers` | `[]WaitHasAnswerer` | `PromptInv`: at most one prompt in the events channel, the newest thing in it, and only while the task waits for it |
| `HostKeysComeFirst` | `[]HostKeyBeforeAuth` | `KeysInv`: the keys of all earlier hops are accepted at every point of the chain, and a resolved acceptance is one of this hop; rests on `PromptInv`, as otherwise an old answer could be heard |
| `RetriesStartShort`, `DisconnectsAreObeyed`, `LogoutsAreNoTimeouts` | `[]RetryStartsShort`, `[]DisconnectIsObeyed`, `[]TimeoutIsUnannounced` | `EndsInv`: `exited` holds in the pump once the far end announced its end, and a request that was taken ends as `Local` |
| `SizesAgree` | `[]SizeAgrees` | `SizeInv`: in a shell the remote size is the task's, and the last Resize in the queue, or else the task's size, is the pane's |
| `ContractIsKept` | `LifecycleContract`, a refinement | `ContractInv`: the queued events are a path in the contract from what the pane has seen to what the task has announced last (`SharedLemmas`), and the pane is finished only when nothing is left |
| `SshForwards_proofs!TypeCorrect` | `[]TypeOK` | `TypeInv`: what is in a channel, a row or a task was asked for, and only a remote forward is cancelled |
| `ListenersAreOwned`, `TargetsAreCurrent` | `[]NoOrphanListener`, `[]DeliveryIsCurrent` | `TargetsInv`: a registered target is under the bind its forward asks for, and that forward is held, so stopping it takes the target away; also when forwards share a bind |
| `RowsAreTrue` | `[]RowsTellTruth` | `RowsInv`: each id is added once and removed by the user only; a forward with no task has left no trace; a held one has its target; and what has been or is being said of it is its task's state |
| `InputQueue_proofs!QueuesAreBounded` | `[]TypeOK` | itself |
| `KeysStayInOrder` | `KeysInOrder`, an action property | `OrderInv`: read keys before keys of the channel before keys pending, each ascending, whatever reports sit between them |
| `KeysGoThroughOneQueue` | `KeysAreQueued`, a refinement | `OrderInv`, which has only keys pending, `LatestInv` (a new key is newer than all before), and lemmas on `KeysOf`, below |
| `LossesAreMarked` | `[]LossIsMarked` | `LossInv`: no discarded key is newer than the newest typed; and only a drain that leaves nothing behind clears the mark |
| `Backends_proofs!TypeCorrect` | `[]TypeOK` | `TypeInv`: what is shown, queued, held by the reader and unread is no more than what the child wrote; lines are reported only after they were read |
| `EndsAreReaped` | `[]EndMeansReaped` | `ReapInv`: the controller gets to its report by way of the reaping only |
| `DirectContractIsKept` | `DirectContract`, a refinement but for one named step | `ContractInv`, as for `ContractIsKept`, over the places of either backend |
| `PromptAnswerer_proofs!TypeCorrect`, `WaitingPromptsAreHeld`, `KeysAreTheUsers` | `[]` of `TypeOK`, `WaitingAreHeld`, `KeysAreAccepted` | each is inductive together with `TypeOK` |
| `SessionLibrary_proofs!TypeCorrect`, `TopFoldersDiffer`, `TreeShowsFiles` | `[]` of `TypeOK`, `TopsDiffer`, `FilesAgree` | `LibInv`, below |
| `NothingIsClobbered` | `NothingClobbered`, an action property | `LibInv`, below |
| `Tiles_proofs!Invariant`, `TypeCorrect`, `TreesAreSound` | `[]` of `Inv`, `TypeOK`, `TreeIsSound` | `Inv`, below |
| `InputStaysPut` | `[]InputStays` | `Inv` and `Nested`: of two subtrees that meet, one is inside the other |
| `ForwardsAreAskedFor` | `ForwardsAreAsked`, an action property | `Inv`: the session an action closes is that of the pane it names |

`LibInv` is the strengthening the library needs. `FilesAgree` and `NothingClobbered` speak of what is written,
and neither is inductive: a folder that was not read must be known to be empty, never due
and never Missing on disk (`ReadOnly`), a folder just read to be as its file (`JustRead`), nothing
to be due or loaded outside a run (`Quiet`), and, as long as no write failed, a saved session
in a writable folder's file to be somewhere in memory (`Kept`). Without `Kept`, writing
the folder a session was moved out of might lose one that memory had dropped.

`Inv` of `Tiles` says that all tiles are within the root, by one parent each and without a circle,
that no two panes show one instance, and that the sources are those of the live sessions.
That a live session has a pane is not among it, as it is not so (`TilesNoneUnseen`).
`TypeOK` alone would not do: adding, wrapping, dissolving and dragging keep a tree a tree only if
no tile has a second parent. There is one lemma for each way the code changes a tree (`AddLeaf`,
`WrapTile`, `Dissolve`, `MoveTile`, `MinusTree` and others), and each action is a sequence of them.

Two proofs are inductions over data. The prover cannot instantiate a theorem over predicates, so
`SharedLemmas!SetInduction` has a set in the place of the predicate, drawn from the least element of a
set of naturals. By it `Within`, a walk of `MaxTiles` rounds down the tree, is shown to be the least set
with the top and the children of its members (`WithinClosed`, `WithinLeast`); all else about subtrees
follows from that without looking at the walk again. And `KeysOf`, which collects the keys of a queue,
is shown to gain a key at the end when one is added (`KeysAppend`) and to lose its head when one is read
(`KeysHead`): what `KeysGoThroughOneQueue` needs to see two queues, with reports between their
keys, as one queue of keys.

Only model-checked are the liveness properties (`DropEnds`, `DisconnectEnds`, `TakenForwardsReport`,
`OthersAreServed`, `EveryoneIsAnswered`, `OutputIsShown`, `BreakEnds`, `LinesAreShown`,
`ClosedSessionsEnd`), as fairness and ENABLED are beyond the prover. Every other property of a passing run is a
theorem. The runs that find a violation prove nothing, of course.

## Not modelled

- The traffic of forwards, `accept_remote` and the SOCKS handshake: copying between sockets,
  and parsing that a unit test reaches.
- SFTP: no part of the UI opens it, each request is served in turn on a channel of its own
  and touches no state of the session.
- The session log: a queue that drops on purpose, and nothing else to relate it to.
- Terminal emulation: a sequential wrapper of `alacritty_terminal`, whose rules are that library's.
- RDP: a stub. Palette, key encoding, session editor, settings, start-up, logging: sequential or
  wiring. What the editor hands on is in `SessionLibrary`, what settings forget in `PromptAnswerer`.
- In modelled parts: the recipients kept in `pending_paste` (fixed by the question that names
  them), the rectangles the focus shortcuts look at (any other pane may be the neighbour), `SetSignal`
  and the line settings of a serial port, drawing, selection and the encoding of the mouse.

russh, tokio, `egui_tiles`, the device, the child and the file system are modelled from how
the code uses them.
