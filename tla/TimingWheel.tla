------------------------------ MODULE TimingWheel -----------------------------
(***************************************************************************)
(* time_wheel of timer/TimingWheel.h: a ring of N slots, each a doubly     *)
(* linked list of timers that fire when the ring stands at their slot and  *)
(* their rotation is 0.  The server does not use it.  SI is 1 as in the    *)
(* code.  A callback does not call back into the wheel.                    *)
(*                                                                         *)
(* When tick() removes a timer that is not the first of its slot, it sets  *)
(* the prev of the next timer to that timer itself (spoiled); from then on *)
(* del_timer() and tick() may follow pointers to deleted timers, which     *)
(* ends the program.                                                       *)
(***************************************************************************)
EXTENDS Naturals, FiniteSets

CONSTANTS Timers,      \* addresses operator new can return
          NULL,
          Slots,       \* N, 60 in the code
          MaxTimeout   \* bound on the argument of add_timer()

WheelAssumption == /\ IsFiniteSet(Timers) /\ NULL \notin Timers
                   /\ Slots \in Nat \ {0} /\ MaxTimeout \in Nat

VARIABLES wheel,       \* slots, and next, prev, rotation, time_slot of a timer
          cur_slot,
          wired,       \* timers between new and delete
          due,         \* history: in how many ticks a timer is to fire
          end,         \* "none", or how the program ended
          spoiled      \* history: tick() made a prev link wrong

wheelVars == <<wheel, cur_slot, wired, due, end, spoiled>>

Ring == 0 .. Slots - 1

Empty == [slots |-> [s \in Ring |-> NULL],
          next |-> [t \in Timers |-> NULL], prev |-> [t \in Timers |-> NULL],
          rotation |-> [t \in Timers |-> 0], time_slot |-> [t \in Timers |-> 0]]

Init ==
    /\ wheel = Empty
    /\ cur_slot = 0 /\ wired = {} /\ due = [t \in Timers |-> 0]
    /\ end = "none" /\ spoiled = FALSE

(* What a deleted timer contained is not kept. *)
Deleted(w, t) == [w EXCEPT !.next[t] = NULL, !.prev[t] = NULL,
                           !.rotation[t] = 0, !.time_slot[t] = 0]

SetNext(w, t, x) == IF t = NULL THEN w ELSE [w EXCEPT !.next[t] = x]
SetPrev(w, t, x) == IF t = NULL THEN w ELSE [w EXCEPT !.prev[t] = x]

Place_FromZero(ticks) ==
    [slot |-> (cur_slot + ticks) % Slots, rotation |-> (cur_slot + ticks) \div Slots]

(* The slot and the rotation of a timer that fires in ticks ticks.         *)
Place(ticks) == [slot |-> (cur_slot + (ticks % Slots)) % Slots, rotation |-> ticks \div Slots]

(* add_timer(timeout), where a timeout of 0 counts 0 ticks. *)
WheelAdd(t, timeout) ==
    LET p     == Place(timeout)
        first == wheel.slots[p.slot]
    IN  /\ end = "none"
        /\ t \notin wired
        /\ wired' = wired \cup {t}
        /\ due' = [due EXCEPT ![t] = timeout + 1]
        /\ wheel' = SetPrev([wheel EXCEPT !.rotation[t] = p.rotation, !.time_slot[t] = p.slot,
                                          !.next[t] = first, !.slots[p.slot] = t],
                            first, t)
        /\ end' = IF first \in wired \cup {NULL} THEN "none" ELSE "deleted timer"
        /\ UNCHANGED <<cur_slot, spoiled>>

(* A timer that is not the first of its slot leaves its list: the next     *)
(* timer, if there is one, gets back as its prev.                          *)
Unlinked(w, t, back) == SetPrev(SetNext(w, w.prev[t], w.next[t]), w.next[t], back)

Beheaded_KeepsPrev(w, s) == [w EXCEPT !.slots[s] = w.next[w.slots[s]]]

(* The first timer of slot s leaves its list. *)
Beheaded(w, s) ==
    LET later == w.next[w.slots[s]]
    IN  SetPrev([w EXCEPT !.slots[s] = later], later, NULL)

(* del_timer(timer) *)
WheelDel(t) ==
    LET s       == wheel.time_slot[t]
        first   == wheel.slots[s] = t
        touched == IF first THEN {wheel.next[t]} \ {NULL}
                   ELSE {wheel.prev[t]} \cup ({wheel.next[t]} \ {NULL})
    IN  /\ end = "none"
        /\ t \in wired
        /\ wheel' = Deleted(IF first THEN Beheaded(wheel, s)
                            ELSE Unlinked(wheel, t, wheel.prev[t]), t)
        /\ wired' = wired \ {t}
        /\ due' = [due EXCEPT ![t] = 0]
        /\ end' = IF touched \subseteq wired THEN "none" ELSE "deleted timer"
        /\ UNCHANGED <<cur_slot, spoiled>>

Waits_OffByOne(w, t) == w.rotation[t] >= 0

Waits(w, t) == w.rotation[t] > 0

(* One pass of the loop of tick() at the timer p.at. *)
Pass(p) ==
    LET t     == p.at
        later == p.w.next[t]
        first == p.w.slots[cur_slot] = t
    IN  IF t = NULL \/ p.end # "none" THEN p
        ELSE IF t \notin p.wired THEN [p EXCEPT !.end = "deleted timer"]
        ELSE IF Waits(p.w, t)
        THEN [p EXCEPT !.w.rotation[t] = @ - 1, !.at = later]
        ELSE [w     |-> Deleted(IF first THEN Beheaded(p.w, cur_slot)
                                ELSE Unlinked(p.w, t, later), t),
              at    |-> later,
              wired |-> p.wired \ {t},
              end   |-> IF ({later} \cup IF first THEN {} ELSE {p.w.prev[t]})
                              \subseteq p.wired \cup {NULL}
                        THEN "none" ELSE "deleted timer",
              spoiled |-> p.spoiled \/ (~first /\ later # NULL)]

(* tick().  Each pass ends at a timer or lowers its rotation, which bounds *)
(* their number.                                                           *)
WheelTick ==
    LET passes == Cardinality(Timers) * (MaxTimeout + 1)
        loop[k \in 0 .. passes] ==
            IF k = 0 THEN [w |-> wheel, at |-> wheel.slots[cur_slot], wired |-> wired,
                           end |-> "none", spoiled |-> spoiled]
            ELSE Pass(loop[k - 1])
        done == loop[passes]
    IN  /\ end = "none"
        /\ wheel' = done.w /\ wired' = done.wired /\ end' = done.end /\ spoiled' = done.spoiled
        /\ due' = [t \in Timers |-> IF t \in done.wired /\ due[t] > 0 THEN due[t] - 1 ELSE 0]
        /\ cur_slot' = (cur_slot + 1) % Slots

(* ~time_wheel(): deletes what each slot leads to. *)
WheelDestroy ==
    LET size       == Cardinality(Timers)
        walk       == [s \in Ring |->
                         LET at[k \in 0 .. size] ==
                                 IF k = 0 THEN wheel.slots[s]
                                 ELSE IF at[k - 1] = NULL THEN NULL ELSE wheel.next[at[k - 1]]
                         IN  at]
        reached(s) == {walk[s][k] : k \in 0 .. size} \ {NULL}
        once       == /\ \A s \in Ring : walk[s][size] = NULL /\ reached(s) \subseteq wired
                      /\ \A s, u \in Ring : s # u => reached(s) \cap reached(u) = {}
    IN  /\ end = "none"
        /\ wired' = wired \ UNION {reached(s) : s \in Ring}
        /\ end' = IF once THEN "destroyed" ELSE "deleted timer"
        /\ wheel' = Empty /\ due' = [t \in Timers |-> 0]
        /\ UNCHANGED <<cur_slot, spoiled>>

Next ==
    \/ WheelDestroy
    \/ \E t \in Timers, timeout \in 0 .. MaxTimeout : WheelAdd(t, timeout)
    \/ \E t \in Timers : WheelDel(t)
    \/ WheelTick

Spec == Init /\ [][Next]_wheelVars

-------------------------------------------------------------------------------
(* Type invariant. *)
TypeOK ==
    /\ wheel \in [slots : [Ring -> Timers \cup {NULL}],
                  next : [Timers -> Timers \cup {NULL}], prev : [Timers -> Timers \cup {NULL}],
                  rotation : [Timers -> 0 .. MaxTimeout \div Slots], time_slot : [Timers -> Ring]]
    /\ cur_slot \in Ring /\ wired \subseteq Timers
    /\ due \in [Timers -> 0 .. MaxTimeout + 1]
    /\ end \in {"none", "destroyed", "deleted timer"} /\ spoiled \in BOOLEAN

(* Until spoiled, prev undoes next, a list starts at its slot and stays in *)
(* it, every timer is in one, no deleted timer is touched, and the         *)
(* destructor deletes all that are left.                                   *)
ListsUntilSpoiled == ~spoiled =>
    /\ end # "deleted timer" /\ (end = "destroyed" => wired = {})
    /\ \A s \in Ring : wheel.slots[s] # NULL =>
          /\ wheel.slots[s] \in wired
          /\ wheel.time_slot[wheel.slots[s]] = s
          /\ wheel.prev[wheel.slots[s]] = NULL
    /\ \A t \in wired :
          /\ wheel.next[t] # NULL =>
                /\ wheel.next[t] \in wired
                /\ wheel.prev[wheel.next[t]] = t
                /\ wheel.time_slot[wheel.next[t]] = wheel.time_slot[t]
          /\ IF wheel.prev[t] = NULL THEN wheel.slots[wheel.time_slot[t]] = t
                                     ELSE wheel.next[wheel.prev[t]] = t

(* Until spoiled, add_timer(timeout) fires with the tick after timeout     *)
(* others, however often the ring goes round: no tick takes a timer early, *)
(* and none passes one over.                                               *)
FiresOnTime ==
    [][WheelTick /\ ~spoiled' => wired' = {t \in wired : due[t] > 1}]_wheelVars
===============================================================================
