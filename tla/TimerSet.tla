------------------------------- MODULE TimerSet -------------------------------
(***************************************************************************)
(* What the server needs of sort_timer_lst (timer/lst_timer.h): a set of   *)
(* timers, each with the time that remains until it expires, and a tick    *)
(* that removes exactly the expired ones.                                  *)
(*                                                                         *)
(* The list of the code keeps this promise only until adjust_timer() is    *)
(* called for its first timer while it holds three or more.  That     *)
(* drops timers, and from then on ("broken") nothing is promised.          *)
(***************************************************************************)
EXTENDS Naturals, FiniteSets

CONSTANTS Timers,     \* timer objects
          Lifetime    \* 3 * TIMESLOT, in units of TIMESLOT

VARIABLES timers,     \* timers that were added and neither deleted nor expired
          remaining,  \* time until a timer expires, 0 once it has
          broken      \* timers were dropped by Break

vars == <<timers, remaining, broken>>

Init ==
    /\ timers = {}
    /\ remaining = [t \in Timers |-> 0]
    /\ broken = FALSE

Add(t) ==
    /\ t \notin timers
    /\ timers' = timers \cup {t}
    /\ remaining' = [remaining EXCEPT ![t] = Lifetime]

Adjust(t) ==
    /\ t \in timers
    /\ remaining' = [remaining EXCEPT ![t] = Lifetime]
    /\ UNCHANGED timers

Delete(t) ==
    /\ t \in timers
    /\ timers' = timers \ {t}
    /\ remaining' = [remaining EXCEPT ![t] = 0]

Tick ==
    /\ timers' = {t \in timers : remaining[t] > 0}
    /\ UNCHANGED remaining

TimePasses ==
    /\ remaining' = [t \in Timers |-> IF remaining[t] > 0 THEN remaining[t] - 1 ELSE 0]
    /\ UNCHANGED timers

Keep ==
    /\ ~broken /\ UNCHANGED broken
    /\ \/ \E t \in Timers : Add(t) \/ Adjust(t) \/ Delete(t)
       \/ Tick \/ TimePasses

Break ==
    /\ ~broken /\ broken'
    /\ Cardinality(timers) >= 3
    /\ \E t \in timers : Adjust(t)

Next == Keep \/ Break \/ (broken /\ broken')

(* An expired timer does not stay. *)
ExpiredIsRemoved ==
    \A t \in Timers :
        (t \in timers /\ remaining[t] = 0)
            ~> (t \notin timers \/ remaining[t] > 0 \/ broken)

Spec == Init /\ [][Next]_vars /\ ExpiredIsRemoved
===============================================================================
