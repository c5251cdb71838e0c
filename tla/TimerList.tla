------------------------------- MODULE TimerList ------------------------------
(***************************************************************************)
(* sort_timer_lst of timer/lst_timer.h: the doubly linked list of timers   *)
(* ordered by expire, at the level of its pointers.  Only the event loop   *)
(* uses it, so every operation is one step.                                *)
(*                                                                         *)
(* expire is kept as the time that remains: WXP_websever always sets it to *)
(* time(NULL) + 3 * TIMESLOT just before it calls add_timer or             *)
(* adjust_timer, so expire values are compared with one that has Lifetime  *)
(* left, and a clock that is not set back makes two expired timers         *)
(* indistinguishable.  The unit of time is TIMESLOT.                       *)
(*                                                                         *)
(* Callers use a timer from its new to its deletion only; what a caller    *)
(* with a stale pointer does is the subject of Server.  An operation that  *)
(* would follow a NULL pointer or one to a deleted timer ends the program  *)
(* (fault).                                                                *)
(***************************************************************************)
EXTENDS Naturals, FiniteSets

CONSTANTS Timers,     \* addresses operator new can return
          NULL,
          Lifetime    \* 3 * TIMESLOT, in units of TIMESLOT

ASSUME ListAssumption ==
    /\ IsFiniteSet(Timers)
    /\ NULL \notin Timers
    /\ Lifetime \in Nat \ {0}

VARIABLES list,       \* head, tail and the links next and prev of each timer
          remaining,  \* expire, minus the present time, never below 0
          allocated,  \* timers between new and delete
          fault,      \* "none", or how the program ended
          everLost    \* history: some live timer was no longer in the list

vars == <<list, remaining, allocated, fault, everLost>>

N == Cardinality(Timers)

Links == [head : Timers \cup {NULL}, tail : Timers \cup {NULL},
          next : [Timers -> Timers \cup {NULL}],
          prev : [Timers -> Timers \cup {NULL}]]

(* sort_timer_lst(): head(NULL), tail(NULL) *)
Init ==
    /\ list = [head |-> NULL, tail |-> NULL,
               next |-> [t \in Timers |-> NULL], prev |-> [t \in Timers |-> NULL]]
    /\ remaining = [t \in Timers |-> 0]
    /\ allocated = {}
    /\ fault = "none"
    /\ everLost = FALSE

(* The timers met when the next pointers of l are followed from start. *)
Chain(l, start) ==
    LET c[i \in 0 .. N] == IF i = 0 THEN start
                           ELSE IF c[i-1] = NULL THEN NULL
                           ELSE l.next[c[i-1]]
    IN  c

Listed(l) == {Chain(l, l.head)[i] : i \in 0 .. N} \ {NULL}

(* Assignments through pointers that may be NULL, as the code tests them. *)
SetPrev(l, t, p) == IF t = NULL THEN l ELSE [l EXCEPT !.prev[t] = p]

(* What a deleted timer contained is not kept; a new one has no links. *)
Forget(l, live) ==
    [l EXCEPT !.next = [t \in Timers |-> IF t \in live THEN l.next[t] ELSE NULL],
              !.prev = [t \in Timers |-> IF t \in live THEN l.prev[t] ELSE NULL]]

(* The program follows pointers and leaves the list l and the timers live, *)
(* unless one of them is NULL or a deleted timer: that ends it.            *)
Follow(pointers, l, live) ==
    IF pointers \subseteq live \cup allocated
    THEN /\ list' = Forget(l, live) /\ allocated' = live
         /\ everLost' = (everLost \/ ~(live \subseteq Listed(l)))
         /\ UNCHANGED fault
    ELSE /\ fault' = IF NULL \in pointers THEN "null pointer" ELSE "deleted timer"
         /\ UNCHANGED <<list, allocated, everLost>>

(* How far the loop of add_timer(timer, lst_head) walks, and its effect.   *)
(* The loop starts at head->next whatever lst_head is, and ends at the     *)
(* first timer that expires later than t.                                  *)
WalkEnd(l, left, t) ==
    LET c == Chain(l, l.next[l.head])
    IN  CHOOSE i \in 0 .. N :
            /\ c[i] = NULL \/ left[t] < left[c[i]]
            /\ \A j \in 0 .. i - 1 : c[j] # NULL /\ left[t] >= left[c[j]]

WalkedOver(l, left, t) ==       \* besides the head, which may be NULL after a loss
    LET c == Chain(l, l.next[l.head])
    IN  IF l.head = NULL THEN {}
        ELSE {c[i] : i \in 0 .. WalkEnd(l, left, t)} \ {NULL}

InsertAfter_NoPrev(l, left, t, lst_head) ==    \* forgets timer->prev
    LET c == Chain(l, l.next[l.head])
        i == WalkEnd(l, left, t)
        before == IF i = 0 THEN lst_head ELSE c[i-1]
    IN  SetPrev([l EXCEPT !.next[before] = t, !.next[t] = c[i],
                          !.tail = IF c[i] = NULL THEN t ELSE @],
                c[i], t)

InsertAfter(l, left, t, lst_head) ==
    LET c == Chain(l, l.next[l.head])
        i == WalkEnd(l, left, t)
        before == IF i = 0 THEN lst_head ELSE c[i-1]
    IN  SetPrev([l EXCEPT !.next[before] = t, !.next[t] = c[i], !.prev[t] = before,
                          !.tail = IF c[i] = NULL THEN t ELSE @],
                c[i], t)

-------------------------------------------------------------------------------
Renewed_Longer(t) == [remaining EXCEPT ![t] = @ + Lifetime]    \* expire += ...

(* timer->expire = cur + 3 * TIMESLOT *)
Renewed(t) == [remaining EXCEPT ![t] = Lifetime]

(* new util_timer with its expire, then add_timer(timer).  A timer that    *)
(* has Lifetime left never expires before the head.                        *)
AddTimer(t) ==
    LET left == Renewed(t)
        live == allocated \cup {t}
    IN  /\ fault = "none"
        /\ t \notin allocated
        /\ remaining' = left
        /\ IF list.head = NULL
           THEN Follow({}, [list EXCEPT !.head = t, !.tail = t], live)
           ELSE Follow({list.head} \cup WalkedOver(list, left, t),
                       InsertAfter(list, left, t, list.head), live)

(* A new expire, then adjust_timer(timer).  For the head, head->next is    *)
(* cleared after head was moved to the second timer.                       *)
AdjustTimer(t) ==
    LET left    == Renewed(t)
        earlier == list.prev[t]
        later   == list.next[t]
        behead  == [list EXCEPT !.head = later, !.prev[later] = NULL, !.next[later] = NULL]
        unlink  == [list EXCEPT !.next[earlier] = later, !.prev[later] = earlier]
    IN  /\ fault = "none"
        /\ t \in allocated
        /\ remaining' = left
        /\ \/ /\ later # NULL => left[t] < left[later]
              /\ UNCHANGED <<list, allocated, fault, everLost>>
           \/ /\ later # NULL /\ left[t] >= left[later]
              /\ t = list.head
              /\ Follow({later}, InsertAfter(behead, left, t, later), allocated)
           \/ /\ later # NULL /\ left[t] >= left[later]
              /\ t # list.head
              /\ Follow({earlier, later} \cup
                            IF {earlier, later} \subseteq allocated
                            THEN {list.head} \cup WalkedOver(unlink, left, t) ELSE {},
                        InsertAfter(unlink, left, t, later), allocated)

(* del_timer(timer) *)
DelTimer(t) ==
    LET earlier == list.prev[t]
        later   == list.next[t]
        rest    == allocated \ {t}
    IN  /\ fault = "none"
        /\ t \in allocated
        /\ remaining' = [remaining EXCEPT ![t] = 0]
        /\ \/ /\ t = list.head /\ t = list.tail
              /\ Follow({}, [list EXCEPT !.head = NULL, !.tail = NULL], rest)
           \/ /\ t = list.head /\ t # list.tail
              /\ Follow({later}, [list EXCEPT !.head = later, !.prev[later] = NULL], rest)
           \/ /\ t # list.head /\ t = list.tail
              /\ Follow({earlier}, [list EXCEPT !.tail = earlier, !.next[earlier] = NULL], rest)
           \/ /\ t # list.head /\ t # list.tail
              /\ Follow({earlier, later},
                        [list EXCEPT !.next[earlier] = later, !.prev[later] = earlier], rest)

Expired_Early(t) == remaining[t] <= 1          \* fires a TIMESLOT too soon

(* cur < tmp->expire ends the loop of tick(). *)
Expired(t) == remaining[t] = 0

(* tick(): callback and deletion of the expired timers at the front.  tail *)
(* is not touched, not even when the list becomes empty.                   *)
Tick ==
    LET c == Chain(list, list.head)
        front == {i \in 0 .. N : \A j \in 0 .. i : c[j] # NULL /\ Expired(c[j])}
        k == Cardinality(front)
        expired == {c[i] : i \in front}
    IN  /\ fault = "none"
        /\ Follow({c[i] : i \in 0 .. k} \ {NULL},
                  IF expired = {} THEN list
                  ELSE SetPrev([list EXCEPT !.head = c[k]], c[k], NULL),
                  allocated \ expired)
        /\ UNCHANGED remaining          \* 0 already for the deleted timers

TimePasses ==
    /\ fault = "none"
    /\ remaining' = [t \in Timers |-> IF remaining[t] > 0 THEN remaining[t] - 1 ELSE 0]
    /\ UNCHANGED <<list, allocated, fault, everLost>>

Next ==
    \/ \E t \in Timers : AddTimer(t) \/ AdjustTimer(t) \/ DelTimer(t)
    \/ Tick
    \/ TimePasses

(* SIGALRM comes every TIMESLOT and timer_handler() ticks. *)
Spec == Init /\ [][Next]_vars /\ WF_vars(Tick)

-------------------------------------------------------------------------------
(* Type invariant. *)
TypeOK ==
    /\ list \in Links
    /\ remaining \in [Timers -> 0 .. Lifetime]
    /\ allocated \subseteq Timers
    /\ fault \in {"none", "null pointer", "deleted timer"}
    /\ everLost \in BOOLEAN

(* "升序、双向连表，带有头节点和尾节点": from head, next leads through all    *)
(* live timers in ascending order to tail, and prev leads back.            *)
WellFormedList ==
    /\ fault = "none"
    /\ Listed(list) = allocated
    /\ list.head = NULL <=> allocated = {}
    /\ list.head # NULL => list.prev[list.head] = NULL /\ list.next[list.tail] = NULL
    /\ \A t \in Listed(list) : list.next[t] # NULL =>
          /\ list.prev[list.next[t]] = t
          /\ remaining[t] <= remaining[list.next[t]]

(* Losing a timer is the only way the list of sort_timer_lst goes wrong:   *)
(* as long as no live timer was lost it is well formed and no operation    *)
(* follows a bad pointer.                                                  *)
WellFormedUntilLoss == ~everLost => WellFormedList

(* Until a timer is lost the list does what TimerSet promises: adding,     *)
(* adjusting and deleting touch one timer only, tick() removes all expired *)
(* timers and no other, an expired timer is removed eventually, and a      *)
(* timer is lost only by adjust_timer() with three timers or more.         *)
Abstract == INSTANCE TimerSet
    WITH timers <- allocated, broken <- everLost

ImplementsTimerSet == Abstract!Spec
===============================================================================
