---------------------------------- MODULE Log ----------------------------------
(***************************************************************************)
(* The log of log/log.cpp and log/log.h, with the blocking queue of        *)
(* log/log_queue.h.  Threads call LOG_INFO and its like, which is          *)
(* write_log() followed by flush(); if the log was initialised as          *)
(* asynchronous, a thread of its own takes lines from the queue and writes *)
(* them.                                                                   *)
(*                                                                         *)
(* All that m_mutex guards is touched only between its lock and unlock,    *)
(* and the same holds for the queue and its own m_mutex, so a critical     *)
(* section is one step.                                                    *)
(***************************************************************************)
EXTENDS Integers, Sequences, FiniteSets

CONSTANTS Threads,    \* that call the macros: the event loop and the workers
          MaxLines,   \* bound: lines a thread logs
          MaxDay,     \* bound: midnights
          MaxQueue,   \* max_queue_size
          Split,      \* m_split_lines
          Modes,      \* values of m_is_async
          None        \* no line

ASSUME LogAssumption ==
    /\ MaxLines \in Nat /\ MaxDay \in Nat
    /\ MaxQueue \in Nat \ {0} /\ Split \in Nat \ {0}
    /\ Modes \subseteq BOOLEAN

VARIABLES
    today,        \* what time() and localtime() tell
    m_is_async,
    m_count, m_today,
    m_fp,         \* the open file: its day and its number among the day's files
    buffered,     \* lines in the buffer of m_fp
    disk,         \* lines in the files, in the order of their writing
    pc,           \* where a thread stands in the macro
    my_tm,        \* the day the thread read at the start of write_log()
    logged,       \* lines the thread began to log
    m_array, m_front, m_back, m_size,
    writer,       \* the writer thread: "pop", "wait" (for m_cond), "fputs"
    single_log,   \* the line it took
    refused,      \* history: lines push() did not take
    wentBack      \* history: m_today was set to an earlier day

fileVars  == <<m_count, m_today, m_fp, buffered, disk>>
queueVars == <<m_array, m_front, m_back, m_size>>
callVars  == <<pc, my_tm, logged>>
vars == <<today, m_is_async, fileVars, callVars, queueVars, writer, single_log,
          refused, wentBack>>

(* A line, by its thread, its number and the date it bears. *)
Lines == [thread : Threads, n : 1 .. MaxLines, day : 0 .. MaxDay]
Line(t) == [thread |-> t, n |-> logged[t], day |-> my_tm[t]]

ASSUME NoneAssumption == None \notin Lines

File(day, part) == [day |-> day, part |-> part]

(* Log::init() and log_queue() *)
Init ==
    /\ today = 0
    /\ m_is_async \in Modes
    /\ m_count = 0 /\ m_today = 0 /\ m_fp = File(0, 0)
    /\ buffered = <<>> /\ disk = <<>>
    /\ pc = [t \in Threads |-> "idle"]
    /\ my_tm = [t \in Threads |-> 0]
    /\ logged = [t \in Threads |-> 0]
    /\ m_array = [i \in 0 .. MaxQueue - 1 |-> None]
    /\ m_front = -1 /\ m_back = -1 /\ m_size = 0
    /\ writer = "pop" /\ single_log = None
    /\ refused = {} /\ wentBack = FALSE

Midnight ==
    /\ today < MaxDay
    /\ today' = today + 1
    /\ UNCHANGED <<m_is_async, fileVars, callVars, queueVars, writer, single_log,
                   refused, wentBack>>

-------------------------------------------------------------------------------
(* write_log().  A definition with a suffix, as Rotates_ByCount, is a      *)
(* plausible bug: a variant, which the specification does not use, of the  *)
(* definition that follows it.                                             *)

At(t, here, there) == pc[t] = here /\ pc' = [pc EXCEPT ![t] = there]

(* The time is read before m_mutex is taken. *)
ReadTime(t) ==
    /\ At(t, "idle", "count")
    /\ logged[t] < MaxLines
    /\ logged' = [logged EXCEPT ![t] = @ + 1]
    /\ my_tm' = [my_tm EXCEPT ![t] = today]
    /\ UNCHANGED <<today, m_is_async, fileVars, queueVars, writer, single_log,
                   refused, wentBack>>

Rotates_ByCount(day, count) == count % Split = 0

Rotates(day, count) == m_today # day \/ count % Split = 0

(* m_count++, and another file on another day or after m_split_lines.      *)
CountLine(t) ==
    LET count == m_count + 1
        day   == my_tm[t]
        fresh == m_today # day
    IN  /\ At(t, "count", "full")
        /\ IF Rotates(day, count)
           THEN /\ m_fp' = File(day, IF fresh THEN 0 ELSE count \div Split)
                /\ disk' = disk \o buffered /\ buffered' = <<>>
                /\ m_today' = day
                /\ m_count' = IF fresh THEN 0 ELSE count
                /\ wentBack' = (wentBack \/ day < m_today)
           ELSE m_count' = count /\ UNCHANGED <<m_fp, disk, buffered, m_today, wentBack>>
        /\ UNCHANGED <<today, m_is_async, my_tm, logged, queueVars, writer,
                       single_log, refused>>

Full == m_size >= MaxQueue

(* full(), in a critical section of its own.  The line was formatted into  *)
(* log_str before.                                                         *)
TestFull(t) ==
    /\ At(t, "full", IF m_is_async /\ ~Full THEN "push" ELSE "fputs")
    /\ UNCHANGED <<today, m_is_async, fileVars, my_tm, logged, queueVars, writer,
                   single_log, refused, wentBack>>

Broadcast_Forgotten == UNCHANGED writer

(* m_cond.broadcast() *)
Broadcast == writer' = IF writer = "wait" THEN "pop" ELSE writer

Push_NoLimit(t) ==              \* does not look at m_max_size
    /\ At(t, "push", "flush")
    /\ m_back' = (m_back + 1) % MaxQueue
    /\ m_array' = [m_array EXCEPT ![m_back'] = Line(t)]
    /\ m_size' = m_size + 1
    /\ Broadcast
    /\ UNCHANGED <<m_front, refused, today, m_is_async, fileVars, my_tm, logged,
                   single_log, wentBack>>

(* push(): refuses when the queue has become full; write_log() ignores it. *)
Push(t) ==
    /\ At(t, "push", "flush")
    /\ IF Full
       THEN refused' = refused \cup {Line(t)} /\ UNCHANGED <<m_array, m_back, m_size>>
       ELSE /\ m_back' = (m_back + 1) % MaxQueue
            /\ m_array' = [m_array EXCEPT ![m_back'] = Line(t)]
            /\ m_size' = m_size + 1
            /\ UNCHANGED refused
    /\ Broadcast
    /\ UNCHANGED <<m_front, today, m_is_async, fileVars, my_tm, logged, single_log, wentBack>>

Written(l, by) == [line |-> l, by |-> by, file |-> m_fp]

(* fputs() by the caller *)
WriteDirect(t) ==
    /\ At(t, "fputs", "flush")
    /\ buffered' = Append(buffered, Written(Line(t), "caller"))
    /\ UNCHANGED <<today, m_is_async, m_count, m_today, m_fp, disk, my_tm, logged,
                   queueVars, writer, single_log, refused, wentBack>>

Flush_Nothing(t) ==             \* the macro without flush()
    /\ At(t, "flush", "idle")
    /\ UNCHANGED <<today, m_is_async, fileVars, my_tm, logged, queueVars, writer,
                   single_log, refused, wentBack>>

(* flush(): fflush(m_fp) *)
Flush(t) ==
    /\ At(t, "flush", "idle")
    /\ disk' = disk \o buffered /\ buffered' = <<>>
    /\ UNCHANGED <<today, m_is_async, m_count, m_today, m_fp, my_tm, logged,
                   queueVars, writer, single_log, refused, wentBack>>

-------------------------------------------------------------------------------
(* async_write_log(), the thread that init() starts *)

writerUnchanged == <<today, m_is_async, callVars, m_array, m_back, refused, wentBack>>

PopTake_NextSlot ==             \* takes before it moves m_front
    /\ single_log' = m_array[IF m_front < 0 THEN 0 ELSE m_front]
    /\ m_front' = (m_front + 1) % MaxQueue

(* The element behind m_front, and m_front moves to it. *)
PopTake ==
    /\ m_front' = (m_front + 1) % MaxQueue
    /\ single_log' = m_array[m_front']

(* pop(): its loop waits for m_cond while the queue is empty ... *)
PopWaits ==
    /\ m_is_async /\ writer = "pop" /\ m_size <= 0
    /\ writer' = "wait"
    /\ UNCHANGED <<fileVars, m_front, m_size, single_log, writerUnchanged>>

(* ... from which pthread_cond_wait() may return without a broadcast ... *)
SpuriousWakeup ==
    /\ writer = "wait"
    /\ writer' = "pop"
    /\ UNCHANGED <<fileVars, m_front, m_size, single_log, writerUnchanged>>

(* ... and it takes a line. *)
Pop ==
    /\ m_is_async /\ writer = "pop" /\ m_size > 0
    /\ PopTake
    /\ m_size' = m_size - 1
    /\ writer' = "fputs"
    /\ UNCHANGED <<fileVars, writerUnchanged>>

(* fputs() by the writer thread, to the file that is open now.  Nobody     *)
(* flushes.                                                                *)
WriteQueued ==
    /\ writer = "fputs"
    /\ buffered' = Append(buffered, Written(single_log, "writer"))
    /\ single_log' = None
    /\ writer' = "pop"
    /\ UNCHANGED <<m_count, m_today, m_fp, disk, m_front, m_size, writerUnchanged>>

-------------------------------------------------------------------------------
LogCall(t) ==
    ReadTime(t) \/ CountLine(t) \/ TestFull(t) \/ Push(t) \/ WriteDirect(t) \/ Flush(t)

WriterStep == PopWaits \/ Pop \/ WriteQueued

Next ==
    \/ Midnight
    \/ \E t \in Threads : LogCall(t)
    \/ WriterStep \/ SpuriousWakeup

SafeSpec == Init /\ [][Next]_vars

(* The threads run.  The writer thread may be woken without cause, but the *)
(* fairness does not count on it.                                          *)
Spec == SafeSpec /\ WF_vars(WriterStep) /\ \A t \in Threads : WF_vars(LogCall(t))

-------------------------------------------------------------------------------
(* What the queue holds, from its first element to its last. *)
Queued == [i \in 1 .. m_size |-> m_array[(m_front + i) % MaxQueue]]

InHand == IF single_log = None THEN <<>> ELSE <<single_log>>

Output == disk \o buffered

(* Type invariant; the queue never holds more than m_max_size lines.       *)
TypeOK ==
    /\ today \in 0 .. MaxDay /\ m_is_async \in BOOLEAN
    /\ m_count \in Nat /\ m_today \in 0 .. MaxDay
    /\ m_fp \in [day : 0 .. MaxDay, part : Nat]
    /\ pc \in [Threads -> {"idle", "count", "full", "push", "fputs", "flush"}]
    /\ my_tm \in [Threads -> 0 .. MaxDay] /\ logged \in [Threads -> 0 .. MaxLines]
    /\ m_array \in [0 .. MaxQueue - 1 -> Lines \cup {None}]
    /\ m_front \in -1 .. MaxQueue - 1 /\ m_back \in -1 .. MaxQueue - 1
    /\ m_size \in 0 .. MaxQueue
    /\ writer \in {"pop", "wait", "fputs"} /\ single_log \in Lines \cup {None}
    /\ refused \subseteq Lines /\ wentBack \in BOOLEAN
    /\ \A i \in DOMAIN Output :
          Output[i] \in [line : Lines, by : {"caller", "writer"},
                         file : [day : 0 .. MaxDay, part : Nat]]

(* LOG_INFO has returned: its line is in the file, where a crash does not  *)
(* reach it, unless the line went through the queue.                       *)
DirectLinesAreOnDisk ==
    \A i \in DOMAIN buffered :
        LET e == buffered[i] IN e.by = "caller" => pc[e.line.thread] = "flush"
                                                   /\ e.line = Line(e.line.thread)

(* The lines of a thread are written in the order it logged them, except   *)
(* that a line it writes itself while the log is asynchronous (because the *)
(* queue was full) can overtake those it queued.                           *)
OwnOrder ==
    \A i, j \in DOMAIN Output :
        LET a == Output[i]  b == Output[j]
        IN  i < j /\ a.line.thread = b.line.thread /\ a.line.n > b.line.n
               => m_is_async /\ a.by = "caller" /\ b.by = "writer"

(* "everyday log": a line is never in the file of an earlier day than its  *)
(* date, unless a caller that had read the time before midnight counted    *)
(* its line after one that read it later, and opened yesterday's file      *)
(* again.                                                                  *)
NotInYesterdaysFile ==
    ~wentBack => \A i \in DOMAIN Output : Output[i].line.day <= Output[i].file.day

(* The same without the exception: log/log.h says of m_today               *)
(* "因为按天分类,记录当前时间是那一天" (sorted by day).                        *)
SortedByDay == \A i \in DOMAIN Output : Output[i].line.day <= Output[i].file.day

(* The ring buffer, its condition variable and the two ways of write_log() *)
(* do what LineLog promises: first-in first-out, a line is written once,   *)
(* refused only when the queue is full, and no queued line waits for ever. *)
Abstract == INSTANCE LineLog
    WITH Capacity <- MaxQueue + 1,
         pending  <- InHand \o Queued,
         written  <- [i \in DOMAIN Output |-> Output[i].line],
         lost     <- refused

ImplementsLineLog == Abstract!Spec
===============================================================================
