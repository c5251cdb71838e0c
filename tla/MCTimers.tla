------------------------------- MODULE MCTimers -------------------------------
(***************************************************************************)
(* TLC instances of the three containers of timers: a behaviour is one of  *)
(* sort_timer_lst, of time_heap or of time_wheel, and the others rest.     *)
(***************************************************************************)
EXTENDS TimerList

CONSTANTS t1, t2, t3, t4, WheelTimers, Capacities, MaxExpire, Slots, MaxTimeout

VARIABLES subject,
          array, cur_size, expire, live, cancelled, fate, lost,
          wheel, cur_slot, wired, due, end, spoiled

Heap == INSTANCE TimeHeap WITH Timers <- Timers
Wheel == INSTANCE TimingWheel WITH Timers <- WheelTimers

ASSUME MCAssumption == Heap!HeapAssumption /\ Wheel!WheelAssumption

heapVars  == <<array, cur_size, expire, live, cancelled, fate, lost>>
wheelVars == <<wheel, cur_slot, wired, due, end, spoiled>>
allVars   == <<vars, heapVars, wheelVars, subject>>

MCTimers      == {t1, t2, t3, t4}
MCWheelTimers == {t1, t2, t3}

HeapRests ==
    /\ array = Heap!Empty(0) /\ cur_size = 0 /\ expire = [t \in Timers |-> 0]
    /\ live = {} /\ cancelled = {} /\ fate = "running" /\ lost = FALSE

MCInit ==
    /\ subject \in {"list", "heap", "wheel"}
    /\ Init /\ Wheel!Init
    /\ IF subject = "heap" THEN Heap!Init ELSE HeapRests

ListTick == subject = "list" /\ Tick /\ UNCHANGED <<heapVars, wheelVars, subject>>

MCNext ==
    /\ UNCHANGED subject
    /\ \/ subject = "list"  /\ Next       /\ UNCHANGED <<heapVars, wheelVars>>
       \/ subject = "heap"  /\ Heap!Next  /\ UNCHANGED <<vars, wheelVars>>
       \/ subject = "wheel" /\ Wheel!Next /\ UNCHANGED <<vars, heapVars>>

MCSpec == MCInit /\ [][MCNext]_allVars /\ WF_allVars(ListTick)

-------------------------------------------------------------------------------
(* The type invariants of the heap and of the wheel (TypeOK is the list's). *)
HeapTypeOK  == Heap!TypeOK
WheelTypeOK == Wheel!TypeOK

(* time_heap keeps the order and all timers until one has to move down. *)
HeapUntilLost == Heap!HeapUntilLost

(* The slots of time_wheel are well-formed lists until tick() removes a    *)
(* timer between two others.                                               *)
ListsUntilSpoiled == Wheel!ListsUntilSpoiled

(* Until then a timer fires with the tick it was added for. *)
FiresOnTime == Wheel!FiresOnTime
===============================================================================
