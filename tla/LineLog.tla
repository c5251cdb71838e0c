-------------------------------- MODULE LineLog --------------------------------
(***************************************************************************)
(* What the callers of LOG_INFO and its like are promised by log/log.cpp:  *)
(* a line goes to the file at once, or waits in a bounded queue that is    *)
(* written in order; it is given up only when the queue is full.           *)
(***************************************************************************)
EXTENDS Naturals, Sequences

CONSTANTS Lines,      \* what can be logged
          Capacity    \* lines that can wait, one of them with its writer

VARIABLES pending,    \* lines that wait, in order
          written,    \* lines in the file, in order
          lost        \* lines that were given up

vars == <<pending, written, lost>>

Init == pending = <<>> /\ written = <<>> /\ lost = {}

Seen == {pending[i] : i \in DOMAIN pending} \cup {written[i] : i \in DOMAIN written} \cup lost

Queue(l) ==
    /\ l \notin Seen /\ Len(pending) < Capacity
    /\ pending' = Append(pending, l)
    /\ UNCHANGED <<written, lost>>

WriteThrough(l) ==
    /\ l \notin Seen
    /\ written' = Append(written, l)
    /\ UNCHANGED <<pending, lost>>

GiveUp(l) ==
    /\ l \notin Seen /\ Len(pending) >= Capacity - 1
    /\ lost' = lost \cup {l}
    /\ UNCHANGED <<pending, written>>

Drain ==
    /\ pending # <<>>
    /\ written' = Append(written, Head(pending))
    /\ pending' = Tail(pending)
    /\ UNCHANGED lost

Next == Drain \/ \E l \in Lines : Queue(l) \/ WriteThrough(l) \/ GiveUp(l)

SafeSpec == Init /\ [][Next]_vars

Spec == SafeSpec /\ WF_vars(Drain)
===============================================================================
