------------------------------- MODULE InputFifo -------------------------------
(***************************************************************************)
(* What the path of typed input toward one session promises (ARCHITECTURE  *)
(* 10.3): a queue that keeps the order of typing.  Its writer never waits, *)
(* so a keystroke may be discarded, but only a new one, and only while at  *)
(* least Patience others wait; a session whose backend is gone takes       *)
(* nothing.  InputQueue implements this with a channel and a second queue. *)
(***************************************************************************)
EXTENDS Naturals, Sequences

CONSTANT Patience   \* keystrokes a wedged session is given before it drops one

VARIABLES queue,    \* keystrokes on their way, oldest first
          latest,   \* the newest keystroke typed, delivered or not
          open      \* the backend still has its receiver

fifo == <<queue, latest, open>>

Init == queue = <<>> /\ latest = 0 /\ open = TRUE

\* A keystroke is typed, and joins the queue behind the others or is discarded.
Type ==
  /\ latest' > latest /\ UNCHANGED open
  /\ \/ queue' = Append(queue, latest')
     \/ (Len(queue) >= Patience \/ ~open) /\ UNCHANGED queue

Deliver == open /\ queue # <<>> /\ queue' = Tail(queue) /\ UNCHANGED <<latest, open>>

\* The backend goes; what it had not read is lost, at once or piecemeal.
Close ==
  /\ open' = FALSE /\ UNCHANGED latest
  /\ Len(queue') <= Len(queue)

Next == Type \/ Deliver \/ Close

Step == [Next]_fifo

Spec == Init /\ [][Next]_fifo
================================================================================
