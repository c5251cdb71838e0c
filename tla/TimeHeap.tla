------------------------------- MODULE TimeHeap -------------------------------
(***************************************************************************)
(* time_heap of timer/time_heap.h: a binary heap of timers in an array,    *)
(* the earliest first.  The server does not use it.                        *)
(*                                                                         *)
(* percolate_down() compares (array[hole]==array[child]) where it means to *)
(* assign, so as soon as the timer it moves has an earlier child, a timer  *)
(* is overwritten and another is in the array twice (lost).  top() and     *)
(* empty() only read, and tick() does nothing: its loop runs while array   *)
(* is NULL.  As time plays no part, only the order of expire matters.      *)
(***************************************************************************)
EXTENDS Naturals, FiniteSets

CONSTANTS Timers,      \* addresses operator new can return
          NULL,
          Capacities,  \* arguments cap of the constructors
          MaxExpire    \* bound on expire

HeapAssumption == /\ IsFiniteSet(Timers) /\ NULL \notin Timers
                  /\ Capacities \subseteq Nat /\ MaxExpire \in Nat

VARIABLES array,       \* array[0] to array[capacity-1]
          cur_size,
          expire,
          live,        \* timers between new and delete
          cancelled,   \* those whose cb_func del_timer() cleared
          fate,        \* "running", or how the heap ended
          lost         \* history: percolate_down() overwrote a timer

heapVars == <<array, cur_size, expire, live, cancelled, fate, lost>>

capacity == Cardinality(DOMAIN array)

Parent(i) == (i - 1) \div 2

(* The loop of percolate_down() for the timer t: the earlier child of h,   *)
(* and whether t has to go below it.                                       *)
Child(a, n, h) == IF 2*h + 2 < n /\ expire[a[2*h + 2]] < expire[a[2*h + 1]]
                  THEN 2*h + 2 ELSE 2*h + 1

Sinks(a, n, h, t) == 2*h + 1 < n /\ expire[a[Child(a, n, h)]] < expire[t]

(* What percolate_down(hole) makes of the array a with n timers.           *)
Percolate(a, n, hole) ==
    LET end[h \in 0 .. n] == IF Sinks(a, n, h, a[hole]) THEN end[Child(a, n, h)] ELSE h
    IN  [a EXCEPT ![end[hole]] = a[hole]]

Moves(a, n, hole) == Percolate(a, n, hole) # a

(* The timers percolate_down(0) reads. *)
ReadOf(a, n) ==
    LET read[h \in 0 .. n] ==
            IF 2*h + 1 >= n THEN {}
            ELSE {a[0]} \cup {a[i] : i \in {2*h + 1, 2*h + 2} \cap 0 .. n - 1}
                 \cup IF Sinks(a, n, h, a[0]) THEN read[Child(a, n, h)] ELSE {}
    IN  read[0]

Empty(c) == [i \in 0 .. c - 1 |-> NULL]

(* time_heap(cap), and time_heap(init_array, size, cap), which percolates  *)
(* from (size-1)/2 down to 0.  With size > cap the code leaves array       *)
(* uninitialised; callers are taken not to do that.                        *)
Init ==
    /\ fate = "running" /\ cancelled = {}
    /\ \E c \in Capacities, n \in 0 .. Cardinality(Timers) :
           /\ n <= c
           /\ cur_size = n
           /\ \E given \in [0 .. n - 1 -> Timers] :
                  LET built[i \in 0 .. n] ==
                          IF 2*i > n - 1
                          THEN [j \in 0 .. c - 1 |-> IF j < n THEN given[j] ELSE NULL]
                          ELSE Percolate(built[i + 1], n, i)
                  IN  /\ \A i, j \in 0 .. n - 1 : i # j => given[i] # given[j]
                      /\ live = {given[i] : i \in 0 .. n - 1}
                      /\ expire \in [Timers -> 0 .. MaxExpire]
                      /\ \A t \in Timers \ live : expire[t] = 0
                      /\ array = built[0]
                      /\ lost = \E i \in 0 .. n - 1 :
                                    2*i <= n - 1 /\ Moves(built[i + 1], n, i)

(* An access to deleted timers ends the program. *)
Reads(pointers) == fate' = IF pointers \subseteq live THEN "running" ELSE "deleted timer"

Raise_StaysLast(a, t, due) == [a EXCEPT ![cur_size] = t]

(* Parents that expire later move down, and t takes the place that frees.  *)
Raise(a, t, due) ==
    LET up[h \in 0 .. cur_size] ==
            IF h > 0 /\ expire[a[Parent(h)]] > due
            THEN [up[Parent(h)] EXCEPT ![h] = a[Parent(h)]]
            ELSE [a EXCEPT ![h] = t]
    IN  up[cur_size]

(* resize() doubles the capacity, and a capacity of 0 stays 0.             *)
NeedsRoom_OffByOne == cur_size > capacity

NeedsRoom == cur_size >= capacity

Resized == [i \in 0 .. 2 * capacity - 1 |-> IF i < cur_size THEN array[i] ELSE NULL]

HeapAdd(t, due) ==
    LET room == IF NeedsRoom THEN Resized ELSE array
        ancestors[h \in 0 .. cur_size] ==
            IF h = 0 THEN {}
            ELSE {room[Parent(h)]} \cup IF expire[room[Parent(h)]] > due
                                        THEN ancestors[Parent(h)] ELSE {}
    IN  /\ fate = "running"
        /\ t \notin live
        /\ expire' = [expire EXCEPT ![t] = due]
        /\ live' = live \cup {t}
        /\ cur_size' = cur_size + 1
        /\ \/ /\ capacity > 0
              /\ array' = Raise(room, t, due)
              /\ Reads(ancestors[cur_size])
           \/ /\ capacity = 0
              /\ fate' = "out of bounds"
              /\ UNCHANGED array
        /\ UNCHANGED <<cancelled, lost>>

(* del_timer() only clears the callback. *)
HeapDel(t) ==
    /\ fate = "running"
    /\ t \in live \ cancelled
    /\ cancelled' = cancelled \cup {t}
    /\ UNCHANGED <<array, cur_size, expire, live, fate, lost>>

HeapPop ==
    LET n == cur_size - 1
        a == [array EXCEPT ![0] = array[n]]
    IN  /\ fate = "running"
        /\ cur_size > 0
        /\ array' = Percolate(a, n, 0)
        /\ lost' = (lost \/ Moves(a, n, 0))
        /\ cur_size' = n
        /\ live' = live \ {array[0]}
        /\ cancelled' = cancelled \ {array[0]}
        /\ expire' = [t \in Timers |-> IF t = array[0] THEN 0 ELSE expire[t]]
        /\ fate' = IF /\ array[0] \in live
                      /\ ReadOf(a, n) \subseteq live \ {array[0]}
                   THEN "running" ELSE "deleted timer"

(* ~time_heap() deletes whatever any slot of the array holds. *)
HeapDestroy ==
    LET held == {i \in DOMAIN array : array[i] # NULL}
    IN  /\ fate = "running"
        /\ fate' = IF /\ \A i \in held : array[i] \in live
                      /\ \A i, j \in held : i # j => array[i] # array[j]
                   THEN "destroyed" ELSE "deleted timer"
        /\ UNCHANGED <<array, cur_size, expire, live, cancelled, lost>>

Next ==
    \/ \E t \in Timers, due \in 0 .. MaxExpire : HeapAdd(t, due)
    \/ \E t \in Timers : HeapDel(t)
    \/ HeapPop
    \/ HeapDestroy

Spec == Init /\ [][Next]_heapVars

-------------------------------------------------------------------------------
(* Type invariant. *)
TypeOK ==
    /\ array \in [0 .. capacity - 1 -> Timers \cup {NULL}]
    /\ cur_size \in 0 .. IF fate = "out of bounds" THEN capacity + 1 ELSE capacity
    /\ expire \in [Timers -> 0 .. MaxExpire]
    /\ cancelled \subseteq live /\ live \subseteq Timers
    /\ fate \in {"running", "destroyed", "deleted timer", "out of bounds"}
    /\ lost \in BOOLEAN

(* "最小堆": until percolate_down() has to move a timer, the first cur_size *)
(* slots hold every live timer once, no timer expires before its parent,   *)
(* and the program survives everything but add_timer() with a capacity of  *)
(* 0 and a destructor that finds a pointer pop_timer() left behind.        *)
HeapUntilLost == ~lost =>
    /\ fate = "out of bounds" => capacity = 0
    /\ fate = "deleted timer" => \E i \in cur_size .. capacity - 1 : array[i] # NULL
    /\ fate # "out of bounds" =>
          /\ {array[i] : i \in 0 .. cur_size - 1} = live
          /\ Cardinality(live) = cur_size
          /\ \A i \in 1 .. cur_size - 1 : expire[array[Parent(i)]] <= expire[array[i]]
===============================================================================
