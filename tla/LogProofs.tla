------------------------------- MODULE LogProofs -------------------------------
(***************************************************************************)
(* Theorems about Log, for any number of threads, lines, midnights and any *)
(* size of the queue, with and without the writer thread.                  *)
(***************************************************************************)
EXTENDS Log, SequenceTheorems, TLAPS

Days    == 0 .. MaxDay
Entries == [line : Lines, by : {"caller", "writer"}, file : [day : Days, part : Nat]]

(* The array index of the i-th element of the queue behind m_front.        *)
Slot(f, i) == (f + i) % MaxQueue

FilesOK ==
    /\ today \in Days /\ m_count \in Nat /\ m_today \in Days
    /\ m_fp \in [day : Days, part : Nat]
    /\ disk \in Seq(Entries) /\ buffered \in Seq(Entries)
    /\ wentBack \in BOOLEAN

CallsOK ==
    /\ pc \in [Threads -> {"idle", "count", "full", "push", "fputs", "flush"}]
    /\ my_tm \in [Threads -> Days] /\ logged \in [Threads -> 0 .. MaxLines]
    /\ \A t \in Threads : pc[t] # "idle" => logged[t] # 0
    /\ refused \subseteq Lines

(* m_back is the slot of the last of m_size elements, all of them lines.   *)
RingOK ==
    /\ m_array \in [0 .. MaxQueue - 1 -> Lines \cup {None}]
    /\ m_front \in -1 .. MaxQueue - 1 /\ m_back \in -1 .. MaxQueue - 1
    /\ m_size \in 0 .. MaxQueue
    /\ m_back = m_front + m_size \/ m_back = m_front + m_size - MaxQueue
    /\ \A i \in 1 .. m_size : m_array[Slot(m_front, i)] \in Lines

(* The writer has a line in its hand exactly when it is to write one, and  *)
(* a log that is not asynchronous has neither a queue nor a writer.        *)
WriterOK ==
    /\ m_is_async \in BOOLEAN
    /\ writer \in {"pop", "wait", "fputs"} /\ single_log \in Lines \cup {None}
    /\ writer = "fputs" <=> single_log # None
    /\ ~m_is_async => /\ m_size = 0 /\ writer = "pop"
                      /\ \A t \in Threads : pc[t] # "push"

Shape == FilesOK /\ CallsOK /\ RingOK /\ WriterOK

(* Shape says at least what the type invariant says. *)
LEMMA ShapeIsTyped == Shape => TypeOK /\ Output \in Seq(Entries)
<1> SUFFICES ASSUME Shape PROVE TypeOK /\ Output \in Seq(Entries)
  OBVIOUS
<1>1. Output \in Seq(Entries)
  BY ConcatProperties DEF Shape, FilesOK, Output
<1>2. \A i \in DOMAIN Output : Output[i] \in Entries
  BY <1>1, ElementOfSeq
<1>3. QED
  BY <1>1, <1>2 DEF TypeOK, Shape, FilesOK, CallsOK, RingOK, WriterOK, Entries, Days

(* A thread that is in the macro has a line. *)
LEMMA LineIsALine ==
  ASSUME CallsOK, NEW t \in Threads, pc[t] # "idle"
  PROVE  Line(t) \in Lines /\ Line(t).thread = t /\ Line(t).n = logged[t] /\ Line(t).day = my_tm[t]
<1>1. logged[t] \in 1 .. MaxLines /\ my_tm[t] \in 0 .. MaxDay
  BY LogAssumption DEF CallsOK, Days
<1>2. QED
  BY <1>1 DEF Line, Lines

-------------------------------------------------------------------------------
(* The ring buffer *)

(* Counting in a ring: a slot is an index of the array, the next front is  *)
(* the slot of the first element, the others keep theirs, and as many      *)
(* elements as the array has places have different slots.                  *)
LEMMA Slots ==
  ASSUME NEW f \in -1 .. MaxQueue - 1, NEW i \in 1 .. MaxQueue
  PROVE  /\ Slot(f, i) = IF f + i < MaxQueue THEN f + i ELSE f + i - MaxQueue
         /\ Slot(f, i) \in 0 .. MaxQueue - 1
<1>1. MaxQueue \in Nat \ {0} /\ f + i \in 0 .. 2 * MaxQueue - 1
  BY LogAssumption
<1>2. CASE f + i < MaxQueue
  BY <1>1, <1>2 DEF Slot
<1>3. CASE f + i >= MaxQueue
  <2>1. f + i - MaxQueue \in 0 .. MaxQueue - 1
    BY <1>1, <1>3
  <2>2. ((f + i - MaxQueue) + MaxQueue) % MaxQueue = f + i - MaxQueue
    BY <1>1, <2>1
  <2>3. (f + i - MaxQueue) + MaxQueue = f + i
    BY <1>1
  <2>4. QED
    BY <1>1, <1>3, <2>1, <2>2, <2>3 DEF Slot
<1>4. QED
  BY <1>1, <1>2, <1>3

(* Different elements are in different slots. *)
LEMMA SlotsDiffer ==
  ASSUME NEW f \in -1 .. MaxQueue - 1, NEW i \in 1 .. MaxQueue, NEW j \in 1 .. MaxQueue, i # j
  PROVE  Slot(f, i) # Slot(f, j)
<1>1. MaxQueue \in Nat \ {0}
  BY LogAssumption
<1>2. Slot(f, i) = IF f + i < MaxQueue THEN f + i ELSE f + i - MaxQueue
  BY Slots
<1>3. Slot(f, j) = IF f + j < MaxQueue THEN f + j ELSE f + j - MaxQueue
  BY Slots
<1>4. QED
  BY <1>1, <1>2, <1>3

(* Once the first element is taken the second is the first. *)
LEMMA SlotsMove ==
  ASSUME NEW f \in -1 .. MaxQueue - 1, NEW i \in 1 .. MaxQueue - 1
  PROVE  /\ Slot(f, 1) \in -1 .. MaxQueue - 1
         /\ Slot(Slot(f, 1), i) = Slot(f, i + 1)
<1>1. MaxQueue \in Nat \ {0} /\ 1 \in 1 .. MaxQueue /\ i + 1 \in 1 .. MaxQueue /\ i \in 1 .. MaxQueue
  BY LogAssumption
<1>2. Slot(f, 1) = IF f + 1 < MaxQueue THEN f + 1 ELSE 0
  BY <1>1, Slots
<1>3. Slot(f, 1) \in -1 .. MaxQueue - 1
  BY <1>1, <1>2
<1>4. Slot(f, i + 1) = IF f + (i + 1) < MaxQueue THEN f + (i + 1) ELSE f + (i + 1) - MaxQueue
  BY <1>1, Slots
<1>5. \A g \in -1 .. MaxQueue - 1 : Slot(g, i) = IF g + i < MaxQueue THEN g + i ELSE g + i - MaxQueue
  BY <1>1, Slots
<1>6. Slot(Slot(f, 1), i) = IF Slot(f, 1) + i < MaxQueue THEN Slot(f, 1) + i ELSE Slot(f, 1) + i - MaxQueue
  BY <1>3, <1>5
<1>7. QED
  BY <1>1, <1>2, <1>3, <1>4, <1>6
-------------------------------------------------------------------------------
(* What every step keeps of the shape *)

(* A log that init() has just opened. *)
LEMMA ShapeInit == Init => Shape
<1> SUFFICES ASSUME Init PROVE Shape
  OBVIOUS
<1>1. MaxQueue \in Nat \ {0} /\ MaxDay \in Nat /\ MaxLines \in Nat /\ Modes \subseteq BOOLEAN
  BY LogAssumption
<1>2. FilesOK
  BY <1>1, EmptySeq DEF Init, FilesOK, File, Days
<1>3. CallsOK
  BY <1>1 DEF Init, CallsOK, Days
<1>4. RingOK
  BY <1>1 DEF Init, RingOK
<1>5. WriterOK
  BY <1>1 DEF Init, WriterOK
<1>6. QED
  BY <1>2, <1>3, <1>4, <1>5 DEF Shape

(* The files: a line goes to the end of the buffer, the buffer to the end  *)
(* of the file. *)
LEMMA FilesStep ==
  ASSUME Shape, [Next]_vars
  PROVE  FilesOK'
<1>1. MaxDay \in Nat /\ Split \in Nat \ {0}
  BY LogAssumption
<1>2. FilesOK /\ CallsOK
  BY DEF Shape
<1>3. disk \o buffered \in Seq(Entries) /\ <<>> \in Seq(Entries)
  BY <1>2, ConcatProperties, EmptySeq DEF FilesOK
<1>4. \A e \in Entries : Append(buffered, e) \in Seq(Entries)
  BY <1>2, AppendProperties DEF FilesOK
<1>5. CASE Midnight
  BY <1>1, <1>2, <1>5 DEF Midnight, FilesOK, fileVars, Days
<1>6. ASSUME NEW t \in Threads, CountLine(t) PROVE FilesOK'
  <2>1. my_tm[t] \in Days /\ 0 \in Nat /\ m_count + 1 \in Nat
    BY <1>2 DEF CallsOK, FilesOK
  <2>2. (m_count + 1) \div Split \in Nat
    BY <1>1, <2>1
  <2>3. CASE Rotates(my_tm[t], m_count + 1)
    <3>1. m_fp' \in [day : Days, part : Nat]
      BY <1>6, <2>1, <2>2, <2>3 DEF CountLine, File
    <3>2. m_count' \in Nat /\ m_today' \in Days /\ wentBack' \in BOOLEAN
      BY <1>2, <1>6, <2>1, <2>3 DEF CountLine, FilesOK
    <3>3. disk' \in Seq(Entries) /\ buffered' \in Seq(Entries) /\ today' = today
      BY <1>3, <1>6, <2>3 DEF CountLine
    <3>4. QED
      BY <1>2, <3>1, <3>2, <3>3 DEF FilesOK
  <2>4. CASE ~Rotates(my_tm[t], m_count + 1)
    BY <1>2, <1>6, <2>1, <2>4 DEF CountLine, FilesOK
  <2>5. QED
    BY <2>3, <2>4
<1>7. ASSUME NEW t \in Threads, WriteDirect(t) PROVE FilesOK'
  <2>1. Line(t) \in Lines
    BY <1>2, <1>7, LineIsALine DEF WriteDirect, At
  <2>2. Written(Line(t), "caller") \in Entries
    BY <1>2, <2>1 DEF Written, Entries, FilesOK
  <2>3. QED
    BY <1>2, <1>4, <1>7, <2>2 DEF WriteDirect, FilesOK
<1>8. ASSUME NEW t \in Threads, Flush(t) PROVE FilesOK'
  BY <1>2, <1>3, <1>8 DEF Flush, FilesOK
<1>9. CASE WriteQueued
  <2>1. single_log \in Lines
    BY <1>9 DEF WriteQueued, Shape, WriterOK
  <2>2. Written(single_log, "writer") \in Entries
    BY <1>2, <2>1 DEF Written, Entries, FilesOK
  <2>3. QED
    BY <1>2, <1>4, <1>9, <2>2 DEF WriteQueued, writerUnchanged, FilesOK
<1>10. CASE UNCHANGED <<today, wentBack, fileVars>>
  BY <1>2, <1>10 DEF FilesOK, fileVars
<1>11. ASSUME NEW t \in Threads, ReadTime(t) \/ TestFull(t) \/ Push(t)
       PROVE UNCHANGED <<today, wentBack, fileVars>>
  BY <1>11 DEF ReadTime, TestFull, Push
<1>12. ASSUME PopWaits \/ SpuriousWakeup \/ Pop \/ UNCHANGED vars
       PROVE UNCHANGED <<today, wentBack, fileVars>>
  BY <1>12 DEF PopWaits, SpuriousWakeup, Pop, writerUnchanged, vars
<1>13. QED
  BY <1>5, <1>6, <1>7, <1>8, <1>9, <1>10, <1>11, <1>12 DEF Next, LogCall, WriterStep

(* The calls: a thread in the macro has read the time and has its line.    *)
LEMMA CallsStep ==
  ASSUME Shape, [Next]_vars
  PROVE  CallsOK'
<1>1. MaxDay \in Nat /\ MaxLines \in Nat
  BY LogAssumption
<1>2. CallsOK /\ today \in Days
  BY DEF Shape, FilesOK
<1>3. ASSUME NEW t \in Threads, ReadTime(t) PROVE CallsOK'
  BY <1>1, <1>2, <1>3 DEF ReadTime, At, CallsOK
<1>4. ASSUME NEW t \in Threads, NEW there \in {"full", "push", "fputs", "flush", "idle"},
             At(t, pc[t], there), pc[t] # "idle", UNCHANGED <<my_tm, logged>>,
             refused' \subseteq Lines
      PROVE CallsOK'
  BY <1>2, <1>4 DEF At, CallsOK
<1>5. ASSUME NEW t \in Threads, CountLine(t) PROVE CallsOK'
  BY <1>2, <1>5, <1>4 DEF CountLine, At, CallsOK
<1>6. ASSUME NEW t \in Threads, TestFull(t) PROVE CallsOK'
  BY <1>2, <1>6, <1>4 DEF TestFull, At, CallsOK
<1>7. ASSUME NEW t \in Threads, Push(t) PROVE CallsOK'
  <2>1. Line(t) \in Lines
    BY <1>2, <1>7, LineIsALine DEF Push, At
  <2>2. refused' \subseteq Lines
    BY <1>2, <1>7, <2>1 DEF Push, CallsOK
  <2>3. QED
    BY <1>7, <2>2, <1>4 DEF Push, At
<1>8. ASSUME NEW t \in Threads, WriteDirect(t) \/ Flush(t) PROVE CallsOK'
  BY <1>2, <1>8, <1>4 DEF WriteDirect, Flush, At, CallsOK
<1>9. CASE UNCHANGED <<callVars, refused>>
  BY <1>2, <1>9 DEF CallsOK, callVars
<1>10. ASSUME Midnight \/ PopWaits \/ SpuriousWakeup \/ Pop \/ WriteQueued \/ UNCHANGED vars
       PROVE UNCHANGED <<callVars, refused>>
  BY <1>10 DEF Midnight, PopWaits, SpuriousWakeup, Pop, WriteQueued, writerUnchanged, vars
<1>11. QED
  BY <1>3, <1>5, <1>6, <1>7, <1>8, <1>9, <1>10 DEF Next, LogCall, WriterStep

-------------------------------------------------------------------------------
(* The queue as a sequence *)

(* Two sequences of the same length and elements are equal; one longer or  *)
(* one shorter is an Append or a Tail.                                     *)
LEMMA AppendIs ==
  ASSUME NEW S, NEW s \in Seq(S), NEW e \in S, NEW q \in Seq(S), Len(q) = Len(s) + 1,
         \A i \in 1 .. Len(s) : q[i] = s[i], q[Len(s) + 1] = e
  PROVE  q = Append(s, e)
<1>1. Append(s, e) \in Seq(S) /\ Len(Append(s, e)) = Len(s) + 1
  BY AppendProperties
<1>2. \A i \in 1 .. Len(s) + 1 : q[i] = Append(s, e)[i]
  BY AppendProperties, LenProperties
<1>3. QED
  BY <1>1, <1>2, SeqEqual

(* A sequence with the elements of s behind the first is the tail of s. *)
LEMMA TailIs ==
  ASSUME NEW S, NEW s \in Seq(S), s # <<>>, NEW q \in Seq(S), Len(q) = Len(s) - 1,
         \A i \in 1 .. Len(q) : q[i] = s[i + 1]
  PROVE  q = Tail(s)
<1>1. Tail(s) \in Seq(S) /\ Len(Tail(s)) = Len(s) - 1
  BY HeadTailProperties
<1>2. \A i \in 1 .. Len(q) : q[i] = Tail(s)[i]
  BY <1>1, HeadTailProperties
<1>3. QED
  BY <1>1, <1>2, SeqEqual

(* What the queue holds is a sequence of m_size lines. *)
LEMMA QueuedIsASequence ==
  ASSUME RingOK
  PROVE  /\ Queued \in Seq(Lines) /\ Len(Queued) = m_size
         /\ \A i \in 1 .. m_size : Queued[i] = m_array[Slot(m_front, i)]
<1>1. m_size \in Nat
  BY LogAssumption DEF RingOK
<1>2. Queued = [i \in 1 .. m_size |-> m_array[Slot(m_front, i)]]
  BY DEF Queued, Slot
<1>3. \A i \in 1 .. m_size : m_array[Slot(m_front, i)] \in Lines
  BY DEF RingOK
<1>4. Queued \in [1 .. m_size -> Lines]
  BY <1>2, <1>3
<1>5. QED
  BY <1>1, <1>2, <1>4, SeqDef, LenProperties

(* push() puts its line behind the last. *)
LEMMA PushRing ==
  ASSUME RingOK, NEW l \in Lines, m_size < MaxQueue,
         m_back' = Slot(m_back, 1), m_array' = [m_array EXCEPT ![m_back'] = l],
         m_size' = m_size + 1, m_front' = m_front
  PROVE  RingOK' /\ Queued' = Append(Queued, l)
<1>1. /\ MaxQueue \in Nat \ {0} /\ m_size \in 0 .. MaxQueue - 1
      /\ m_front \in -1 .. MaxQueue - 1 /\ m_back \in -1 .. MaxQueue - 1
      /\ m_back = m_front + m_size \/ m_back = m_front + m_size - MaxQueue
  BY LogAssumption DEF RingOK
<1>2. m_back' = IF m_back + 1 < MaxQueue THEN m_back + 1 ELSE 0
  BY <1>1, Slots
<1>3. m_size + 1 \in 1 .. MaxQueue
  BY <1>1
<1>4. Slot(m_front, m_size + 1) = IF m_front + (m_size + 1) < MaxQueue THEN m_front + (m_size + 1)
                                  ELSE m_front + (m_size + 1) - MaxQueue
  BY <1>1, <1>3, Slots
<1>5. m_back' = Slot(m_front, m_size + 1) /\ m_back' \in 0 .. MaxQueue - 1
  BY <1>1, <1>2, <1>4
<1>6. \A i \in 1 .. m_size : i \in 1 .. MaxQueue /\ i # m_size + 1
  BY <1>1
<1>7. \A i \in 1 .. m_size : Slot(m_front, i) \in 0 .. MaxQueue - 1 /\ Slot(m_front, i) # m_back'
  BY <1>1, <1>3, <1>5, <1>6, Slots, SlotsDiffer, ZenonT(60)
<1>8. m_array \in [0 .. MaxQueue - 1 -> Lines \cup {None}]
  BY DEF RingOK
<1>9. m_array'[m_back'] = l /\ \A i \in 1 .. m_size : m_array'[Slot(m_front, i)] = m_array[Slot(m_front, i)]
  BY <1>5, <1>7, <1>8
<1>10. RingOK'
  <2>1. m_array' \in [0 .. MaxQueue - 1 -> Lines \cup {None}]
    BY <1>8
  <2>2. m_back' = m_front' + m_size' \/ m_back' = m_front' + m_size' - MaxQueue
    BY <1>1, <1>2
  <2>3. \A i \in 1 .. m_size : m_array[Slot(m_front, i)] \in Lines
    BY DEF RingOK
  <2>4. \A i \in 1 .. m_size + 1 : i = m_size + 1 \/ i \in 1 .. m_size
    BY <1>1
  <2>5. \A i \in 1 .. m_size' : m_array'[Slot(m_front', i)] \in Lines
    BY <1>5, <1>9, <2>3, <2>4 DEF Slot
  <2>6. m_front' \in -1 .. MaxQueue - 1 /\ m_back' \in -1 .. MaxQueue - 1 /\ m_size' \in 0 .. MaxQueue
    BY <1>1, <1>5
  <2>7. QED
    BY <2>1, <2>2, <2>5, <2>6 DEF RingOK, Slot
<1>11. /\ Queued' \in Seq(Lines) /\ Len(Queued') = m_size + 1
       /\ \A i \in 1 .. m_size + 1 : Queued'[i] = m_array'[Slot(m_front, i)]
  <2>1. Queued' = [i \in 1 .. m_size + 1 |-> m_array'[Slot(m_front, i)]]
    BY DEF Queued, Slot
  <2>2. \A i \in 1 .. m_size + 1 : m_array'[Slot(m_front, i)] \in Lines
    BY <1>10 DEF RingOK, Slot
  <2>3. m_size + 1 \in Nat
    BY <1>1
  <2>4. Queued' \in [1 .. m_size + 1 -> Lines]
    BY <2>1, <2>2
  <2>5. QED
    BY <2>1, <2>3, <2>4, SeqDef, LenProperties
<1>12. /\ Queued \in Seq(Lines) /\ Len(Queued) = m_size
       /\ \A i \in 1 .. m_size : Queued[i] = m_array[Slot(m_front, i)]
  BY QueuedIsASequence
<1>13. Queued'[m_size + 1] = l /\ \A i \in 1 .. m_size : Queued'[i] = Queued[i]
  BY <1>1, <1>5, <1>9, <1>11, <1>12
<1>14. QED
  BY <1>10, <1>11, <1>12, <1>13, AppendIs

(* pop() takes the first and leaves the others. *)
LEMMA PopRing ==
  ASSUME RingOK, m_size > 0,
         m_front' = Slot(m_front, 1), m_size' = m_size - 1, UNCHANGED <<m_array, m_back>>
  PROVE  /\ RingOK' /\ Queued # <<>> /\ Queued \in Seq(Lines)
         /\ m_array[m_front'] = Head(Queued) /\ Head(Queued) \in Lines
         /\ Queued' = Tail(Queued)
<1>1. /\ MaxQueue \in Nat \ {0} /\ m_size \in 1 .. MaxQueue
      /\ m_front \in -1 .. MaxQueue - 1 /\ m_back \in -1 .. MaxQueue - 1
      /\ m_back = m_front + m_size \/ m_back = m_front + m_size - MaxQueue
  BY LogAssumption DEF RingOK
<1>2. m_front' = IF m_front + 1 < MaxQueue THEN m_front + 1 ELSE 0
  BY <1>1, Slots
<1>3. m_front' \in -1 .. MaxQueue - 1 /\ m_size - 1 \in 0 .. MaxQueue
  BY <1>1, <1>2
<1>4. \A i \in 1 .. m_size - 1 : i \in 1 .. MaxQueue - 1 /\ i + 1 \in 1 .. m_size
  BY <1>1
<1>5. \A i \in 1 .. m_size - 1 : Slot(m_front', i) = Slot(m_front, i + 1)
  BY <1>1, <1>4, SlotsMove
<1>6. /\ Queued \in Seq(Lines) /\ Len(Queued) = m_size
      /\ \A i \in 1 .. m_size : Queued[i] = m_array[Slot(m_front, i)]
  BY QueuedIsASequence
<1>7. Queued # <<>> /\ m_array[m_front'] = Head(Queued) /\ Head(Queued) \in Lines
  <2>1. Queued # <<>>
    BY <1>1, <1>6, EmptySeq
  <2>2. 1 \in 1 .. m_size
    BY <1>1
  <2>3. Head(Queued) = Queued[1] /\ Head(Queued) \in Lines
    BY <1>6, <2>1, HeadTailProperties
  <2>4. QED
    BY <1>6, <2>1, <2>2, <2>3
<1>8. \A i \in 1 .. m_size - 1 : m_array[Slot(m_front', i)] = Queued[i + 1] /\ Queued[i + 1] \in Lines
  BY <1>4, <1>5, <1>6, ElementOfSeq
<1>9. RingOK'
  <2>1. m_back' = m_front' + m_size' \/ m_back' = m_front' + m_size' - MaxQueue
    BY <1>1, <1>2
  <2>2. \A i \in 1 .. m_size' : m_array'[Slot(m_front', i)] \in Lines
    BY <1>8
  <2>3. QED
    BY <1>1, <1>3, <2>1, <2>2 DEF RingOK, Slot
<1>10. /\ Queued' \in Seq(Lines) /\ Len(Queued') = m_size - 1
       /\ \A i \in 1 .. m_size - 1 : Queued'[i] = Queued[i + 1]
  <2>1. Queued' = [i \in 1 .. m_size - 1 |-> m_array[Slot(m_front', i)]]
    BY DEF Queued, Slot
  <2>2. m_size - 1 \in Nat
    BY <1>1
  <2>3. Queued' \in [1 .. m_size - 1 -> Lines]
    BY <1>8, <2>1
  <2>4. QED
    BY <1>8, <2>1, <2>2, <2>3, SeqDef, LenProperties
<1>11. Queued' = Tail(Queued)
  BY <1>6, <1>7, <1>10, TailIs
<1>12. QED
  BY <1>6, <1>7, <1>9, <1>11

(* push() of log_queue.h, with room: the line is queued. *)
LEMMA PushQueues ==
  ASSUME Shape, NEW t \in Threads, Push(t), ~Full
  PROVE  RingOK' /\ Queued' = Append(Queued, Line(t)) /\ Line(t) \in Lines
<1>1. Line(t) \in Lines
  BY LineIsALine DEF Push, At, Shape
<1>2. /\ m_back' = Slot(m_back, 1) /\ m_array' = [m_array EXCEPT ![m_back'] = Line(t)]
      /\ m_size' = m_size + 1 /\ m_front' = m_front
  BY DEF Push, Slot
<1>3. RingOK /\ m_size < MaxQueue
  BY LogAssumption DEF Shape, RingOK, Full
<1>4. QED
  BY <1>1, <1>2, <1>3, PushRing

(* pop(): the writer takes the first line into its hand. *)
LEMMA PopTakes ==
  ASSUME Shape, Pop
  PROVE  /\ RingOK' /\ Queued \in Seq(Lines) /\ Queued # <<>>
         /\ single_log' = Head(Queued) /\ single_log' \in Lines /\ Queued' = Tail(Queued)
<1>1. /\ m_front' = Slot(m_front, 1) /\ m_size' = m_size - 1 /\ UNCHANGED <<m_array, m_back>>
      /\ single_log' = m_array[m_front'] /\ m_size > 0
  BY DEF Pop, PopTake, Slot, writerUnchanged
<1>2. QED
  BY <1>1, PopRing DEF Shape

(* Every other step leaves the queue alone. *)
LEMMA RingStep ==
  ASSUME Shape, [Next]_vars
  PROVE  RingOK'
<1>1. CASE UNCHANGED queueVars
  <2>1. RingOK /\ m_array' = m_array /\ m_front' = m_front /\ m_back' = m_back /\ m_size' = m_size
    BY <1>1 DEF queueVars, Shape
  <2>2. QED
    BY <2>1 DEF RingOK, Slot
<1>2. ASSUME NEW t \in Threads, Push(t) PROVE RingOK'
  <2>1. CASE Full
    BY <1>1, <1>2, <2>1 DEF Push, queueVars
  <2>2. CASE ~Full
    BY <1>2, <2>2, PushQueues
  <2>3. QED
    BY <2>1, <2>2
<1>3. CASE Pop
  BY <1>3, PopTakes
<1>4. ASSUME NEW t \in Threads,
             ReadTime(t) \/ CountLine(t) \/ TestFull(t) \/ WriteDirect(t) \/ Flush(t)
      PROVE  UNCHANGED queueVars
  BY <1>4 DEF ReadTime, CountLine, TestFull, WriteDirect, Flush
<1>5. ASSUME Midnight \/ PopWaits \/ SpuriousWakeup \/ WriteQueued \/ UNCHANGED vars
      PROVE  UNCHANGED queueVars
  BY <1>5 DEF Midnight, PopWaits, SpuriousWakeup, WriteQueued, writerUnchanged, queueVars, vars
<1>6. QED
  BY <1>1, <1>2, <1>3, <1>4, <1>5 DEF Next, LogCall, WriterStep

(* The writer has a line in its hand from pop() to fputs(). *)
LEMMA WriterKept ==
  ASSUME Shape, [Next]_vars
  PROVE  WriterOK'
<1>1. WriterOK /\ pc \in [Threads -> {"idle", "count", "full", "push", "fputs", "flush"}]
  BY DEF Shape, CallsOK
<1>2. ASSUME NEW t \in Threads, NEW there, pc' = [pc EXCEPT ![t] = there],
             there = "push" => m_is_async, UNCHANGED <<m_is_async, writer, single_log, m_size>>
      PROVE  WriterOK'
  <2>1. ~m_is_async => \A u \in Threads : pc'[u] # "push"
    BY <1>1, <1>2 DEF WriterOK
  <2>2. QED
    BY <1>1, <1>2, <2>1 DEF WriterOK
<1>3. ASSUME NEW t \in Threads, ReadTime(t) \/ CountLine(t) PROVE WriterOK'
  BY <1>2, <1>3 DEF ReadTime, CountLine, At, queueVars
<1>4. ASSUME NEW t \in Threads, WriteDirect(t) \/ Flush(t) PROVE WriterOK'
  BY <1>2, <1>4, ZenonT(60) DEF WriteDirect, Flush, At, queueVars
<1>5. ASSUME NEW t \in Threads, TestFull(t) PROVE WriterOK'
  BY <1>2, <1>5 DEF TestFull, At, queueVars
<1>6. ASSUME NEW t \in Threads, Push(t) PROVE WriterOK'
  <2>1. pc[t] = "push" /\ UNCHANGED <<m_is_async, single_log>> /\ Broadcast
    BY <1>6 DEF Push, At
  <2>2. m_is_async
    BY <1>1, <2>1 DEF WriterOK
  <2>3. writer' \in {"pop", "wait", "fputs"} /\ (writer' = "fputs" <=> writer = "fputs")
    BY <1>1, <2>1 DEF WriterOK, Broadcast
  <2>4. QED
    BY <1>1, <2>1, <2>2, <2>3 DEF WriterOK
<1>7. CASE Pop
  <2>1. single_log' \in Lines /\ single_log' # None
    BY <1>7, PopTakes, NoneAssumption
  <2>2. QED
    BY <1>1, <1>7, <2>1 DEF Pop, writerUnchanged, WriterOK
<1>8. CASE PopWaits \/ SpuriousWakeup \/ WriteQueued
  <2>1. UNCHANGED <<pc, m_is_async, m_size>>
    BY <1>8 DEF PopWaits, SpuriousWakeup, WriteQueued, writerUnchanged, callVars
  <2>2. CASE PopWaits
    BY <1>1, <2>1, <2>2 DEF PopWaits, WriterOK
  <2>3. CASE SpuriousWakeup
    BY <1>1, <2>1, <2>3 DEF SpuriousWakeup, WriterOK
  <2>4. CASE WriteQueued
    BY <1>1, <2>1, <2>4 DEF WriteQueued, WriterOK
  <2>5. QED
    BY <1>8, <2>2, <2>3, <2>4
<1>9. CASE Midnight \/ UNCHANGED vars
  BY <1>1, <1>9 DEF Midnight, vars, callVars, queueVars, WriterOK
<1>10. QED
  BY <1>3, <1>4, <1>5, <1>6, <1>7, <1>8, <1>9 DEF Next, LogCall, WriterStep

(* Every step keeps the shape. *)
LEMMA ShapeStep == Shape /\ [Next]_vars => Shape'
  BY FilesStep, CallsStep, RingStep, WriterKept DEF Shape

(* Every state is of the declared types, and the queue is never longer     *)
(* than m_max_size.                                                        *)
THEOREM TypesAreKept == Spec => []TypeOK
<1>1. Shape => TypeOK
  BY ShapeIsTyped
<1>2. QED
  BY <1>1, ShapeInit, ShapeStep, PTL DEF Spec, SafeSpec

-------------------------------------------------------------------------------
(* What a step does to the lines that wait and to those that are written   *)

Pending == InHand \o Queued

(* Push with room, push without, fputs() of the caller, fputs() of the     *)
(* writer.                                                                 *)
Queues(t) ==
    /\ pc[t] = "push" /\ pc'[t] = "flush" /\ logged' = logged /\ m_is_async
    /\ Len(Pending) < MaxQueue + 1
    /\ Pending' = Append(Pending, Line(t))
    /\ UNCHANGED <<Output, refused, m_today, wentBack>>

GivesUp(t) ==
    /\ pc[t] = "push" /\ pc'[t] = "flush" /\ logged' = logged
    /\ Len(Pending) >= MaxQueue
    /\ refused' = refused \cup {Line(t)}
    /\ UNCHANGED <<Pending, Output, m_today, wentBack>>

WritesThrough(t) ==
    /\ pc[t] = "fputs" /\ pc'[t] = "flush" /\ logged' = logged
    /\ Output' = Append(Output, Written(Line(t), "caller"))
    /\ UNCHANGED <<Pending, refused, m_today, wentBack>>

Drains ==
    /\ Pending # <<>> /\ m_is_async
    /\ Output' = Append(Output, Written(Head(Pending), "writer"))
    /\ Pending' = Tail(Pending)
    /\ UNCHANGED <<refused, callVars, m_today, wentBack>>

Quiet == UNCHANGED <<Pending, Output, refused>>

(* The lines that wait are a sequence, with at most one in hand. *)
LEMMA PendingIsASequence ==
  ASSUME Shape
  PROVE  /\ Pending \in Seq(Lines) /\ Queued \in Seq(Lines) /\ InHand \in Seq(Lines)
         /\ Len(Pending) = IF single_log = None THEN m_size ELSE m_size + 1
         /\ single_log = None => Pending = Queued
<1>1. Queued \in Seq(Lines) /\ Len(Queued) = m_size /\ m_size \in Nat
  BY QueuedIsASequence, LenProperties DEF Shape
<1>2. CASE single_log = None
  <2>1. InHand = <<>>
    BY <1>2 DEF InHand
  <2>2. Pending = Queued
    BY <1>1, <2>1, ConcatEmptySeq DEF Pending
  <2>3. QED
    BY <1>1, <1>2, <2>1, <2>2, EmptySeq
<1>3. CASE single_log # None
  <2>1. InHand = <<single_log>> /\ single_log \in Lines
    BY <1>3 DEF InHand, Shape, WriterOK
  <2>2. InHand \in Seq(Lines) /\ Len(InHand) = 1
    BY <2>1
  <2>3. Pending \in Seq(Lines) /\ Len(Pending) = 1 + m_size
    BY <1>1, <2>2, ConcatProperties DEF Pending
  <2>4. QED
    BY <1>1, <1>3, <2>2, <2>3
<1>4. QED
  BY <1>2, <1>3

(* An Append to the second of two sequences is one to both. *)
LEMMA ConcatAppend ==
  ASSUME NEW S, NEW s \in Seq(S), NEW u \in Seq(S), NEW e \in S
  PROVE  s \o Append(u, e) = Append(s \o u, e)
<1>1. Append(u, e) = u \o <<e>> /\ <<e>> \in Seq(S)
  BY AppendIsConcat
<1>2. s \o u \in Seq(S)
  BY ConcatProperties
<1>3. Append(s \o u, e) = (s \o u) \o <<e>>
  BY <1>2, AppendIsConcat
<1>4. QED
  BY <1>1, <1>3, ConcatAssociative

(* A sequence behind one element: its Head and Tail. *)
LEMMA ConcatOne ==
  ASSUME NEW S, NEW s \in Seq(S), NEW e \in S
  PROVE  /\ <<e>> \o s # <<>> /\ Head(<<e>> \o s) = e /\ Tail(<<e>> \o s) = s
<1>1. <<e>> \in Seq(S) /\ Len(<<e>>) = 1 /\ <<e>>[1] = e /\ Len(s) \in Nat
  BY LenProperties
<1>2. <<e>> \o s \in Seq(S) /\ Len(<<e>> \o s) = 1 + Len(s)
  BY <1>1, ConcatProperties
<1>3. \A i \in 1 .. 1 + Len(s) : (<<e>> \o s)[i] = IF i <= 1 THEN <<e>>[i] ELSE s[i - 1]
  BY <1>1, ConcatProperties
<1>4. <<e>> \o s # <<>>
  BY <1>1, <1>2, EmptySeq
<1>5. (<<e>> \o s)[1] = e
  BY <1>1, <1>3
<1>6. Head(<<e>> \o s) = (<<e>> \o s)[1]
  BY <1>2, <1>4, HeadTailProperties
<1>7. \A i \in 1 .. Len(s) : i + 1 \in 1 .. 1 + Len(s) /\ ~(i + 1 <= 1) /\ (i + 1) - 1 = i
  BY <1>1
<1>8. \A i \in 1 .. Len(s) : s[i] = (<<e>> \o s)[i + 1]
  BY <1>3, <1>7
<1>9. Len(s) = Len(<<e>> \o s) - 1
  BY <1>1, <1>2
<1>10. s = Tail(<<e>> \o s)
  BY <1>2, <1>4, <1>8, <1>9, TailIs
<1>11. QED
  BY <1>4, <1>5, <1>6, <1>10

(* Written to the end of the buffer, an entry comes after all the output.  *)
LEMMA BufferedOutput ==
  ASSUME Shape, NEW e \in Entries, disk' = disk, buffered' = Append(buffered, e)
  PROVE  Output' = Append(Output, e)
<1>1. disk \in Seq(Entries) /\ buffered \in Seq(Entries)
  BY DEF Shape, FilesOK
<1>2. disk \o Append(buffered, e) = Append(disk \o buffered, e)
  BY <1>1, ConcatAppend
<1>3. QED
  BY <1>2 DEF Output

(* Flushed, the output is what it was. *)
LEMMA FlushedOutput ==
  ASSUME Shape, disk' = disk \o buffered, buffered' = <<>>
  PROVE  Output' = Output
<1>1. disk \o buffered \in Seq(Entries)
  BY ConcatProperties DEF Shape, FilesOK
<1>2. (disk \o buffered) \o <<>> = disk \o buffered
  BY <1>1, ConcatEmptySeq
<1>3. QED
  BY <1>2 DEF Output

(* Every step of the log does one of the five things to the lines.         *)
LEMMA Effects ==
  ASSUME Shape, [Next]_vars
  PROVE  Quiet \/ Drains \/ \E t \in Threads : Queues(t) \/ GivesUp(t) \/ WritesThrough(t)
<1>1. ASSUME UNCHANGED <<queueVars, single_log>> PROVE Pending' = Pending
  BY <1>1 DEF queueVars, Pending, InHand, Queued
<1>2. ASSUME UNCHANGED fileVars PROVE Output' = Output
  BY <1>2 DEF fileVars, Output
<1>3. /\ pc \in [Threads -> {"idle", "count", "full", "push", "fputs", "flush"}]
      /\ MaxQueue \in Nat \ {0} /\ m_size \in 0 .. MaxQueue
  BY LogAssumption DEF Shape, CallsOK, RingOK
<1>4. ASSUME NEW t \in Threads, ReadTime(t) \/ TestFull(t) PROVE Quiet
  BY <1>1, <1>2, <1>4 DEF ReadTime, TestFull, Quiet
<1>5. ASSUME NEW t \in Threads, CountLine(t) PROVE Quiet
  <2>1. Output' = Output
    <3>1. CASE Rotates(my_tm[t], m_count + 1)
      BY <1>5, <3>1, FlushedOutput DEF CountLine
    <3>2. CASE ~Rotates(my_tm[t], m_count + 1)
      BY <1>5, <3>2 DEF CountLine, Output
    <3>3. QED
      BY <3>1, <3>2
  <2>2. UNCHANGED <<queueVars, single_log, refused>>
    BY <1>5 DEF CountLine
  <2>3. QED
    BY <1>1, <2>1, <2>2 DEF Quiet
<1>6. ASSUME NEW t \in Threads, Push(t) PROVE Queues(t) \/ GivesUp(t)
  <2>1. /\ pc[t] = "push" /\ pc'[t] = "flush" /\ logged' = logged
        /\ UNCHANGED <<fileVars, single_log, m_front, wentBack>>
    BY <1>3, <1>6 DEF Push, At
  <2>2. Output' = Output /\ m_today' = m_today
    BY <1>2, <2>1 DEF fileVars
  <2>3. CASE Full
    <3>1. UNCHANGED queueVars /\ refused' = refused \cup {Line(t)}
      BY <1>6, <2>1, <2>3 DEF Push, queueVars
    <3>2. m_size = MaxQueue
      BY <1>3, <2>3 DEF Full
    <3>3. Len(Pending) >= MaxQueue
      BY <1>3, <3>2, PendingIsASequence
    <3>4. QED
      BY <1>1, <2>1, <2>2, <3>1, <3>3 DEF GivesUp
  <2>4. CASE ~Full
    <3>1. Queued' = Append(Queued, Line(t)) /\ Line(t) \in Lines
      BY <1>6, <2>4, PushQueues
    <3>2. Pending' = InHand \o Append(Queued, Line(t))
      BY <2>1, <3>1 DEF Pending, InHand
    <3>3. Pending' = Append(Pending, Line(t))
      BY <3>1, <3>2, PendingIsASequence, ConcatAppend DEF Pending
    <3>4. m_size < MaxQueue
      BY <1>3, <2>4 DEF Full
    <3>5. Len(Pending) < MaxQueue + 1
      BY <1>3, <3>4, PendingIsASequence
    <3>6. m_is_async
      BY <2>1 DEF Shape, WriterOK
    <3>7. refused' = refused
      BY <1>6, <2>4 DEF Push
    <3>8. QED
      BY <2>1, <2>2, <3>3, <3>5, <3>6, <3>7 DEF Queues
  <2>5. QED
    BY <2>3, <2>4
<1>7. ASSUME NEW t \in Threads, WriteDirect(t) PROVE WritesThrough(t)
  <2>1. /\ pc[t] = "fputs" /\ pc'[t] = "flush"
        /\ UNCHANGED <<queueVars, single_log, refused, wentBack, logged, m_today, disk>>
        /\ buffered' = Append(buffered, Written(Line(t), "caller"))
    BY <1>3, <1>7 DEF WriteDirect, At
  <2>2. Line(t) \in Lines
    BY <2>1, LineIsALine DEF Shape
  <2>3. Written(Line(t), "caller") \in Entries
    BY <2>2 DEF Written, Entries, Shape, FilesOK
  <2>4. Output' = Append(Output, Written(Line(t), "caller"))
    BY <2>1, <2>3, BufferedOutput
  <2>5. QED
    BY <1>1, <2>1, <2>4 DEF WritesThrough
<1>8. ASSUME NEW t \in Threads, Flush(t) PROVE Quiet
  <2>1. UNCHANGED <<queueVars, single_log, refused>>
    BY <1>8 DEF Flush
  <2>2. Output' = Output
    BY <1>8, FlushedOutput DEF Flush
  <2>3. QED
    BY <1>1, <2>1, <2>2 DEF Quiet
<1>9. CASE Pop
  <2>1. /\ single_log = None
        /\ UNCHANGED <<fileVars, refused>>
    BY <1>9 DEF Pop, writerUnchanged, Shape, WriterOK
  <2>2. /\ Queued \in Seq(Lines) /\ Queued # <<>>
        /\ single_log' = Head(Queued) /\ single_log' \in Lines /\ Queued' = Tail(Queued)
    BY <1>9, PopTakes
  <2>3. InHand' = <<Head(Queued)>>
    BY <2>2, NoneAssumption DEF InHand
  <2>4. <<Head(Queued)>> \o Tail(Queued) = Queued
    <3>1. Tail(Queued) \in Seq(Lines) /\ Len(Tail(Queued)) = Len(Queued) - 1 /\ Len(Queued) \in Nat
      BY <2>2, HeadTailProperties, LenProperties
    <3>2. <<Head(Queued)>> \in Seq(Lines) /\ Len(<<Head(Queued)>>) = 1 /\ <<Head(Queued)>>[1] = Head(Queued)
      BY <2>2
    <3> DEFINE both == <<Head(Queued)>> \o Tail(Queued)
    <3>3. both \in Seq(Lines) /\ Len(both) = 1 + Len(Tail(Queued))
      BY <3>1, <3>2, ConcatProperties
    <3>4. \A k \in 1 .. 1 + Len(Tail(Queued)) :
             both[k] = IF k <= 1 THEN <<Head(Queued)>>[k] ELSE Tail(Queued)[k - 1]
      BY <3>1, <3>2, ConcatProperties
    <3>5. \A k \in 1 .. Len(Tail(Queued)) : Tail(Queued)[k] = Queued[k + 1]
      BY <2>2, HeadTailProperties
    <3>6. Head(Queued) = Queued[1]
      BY <2>2, HeadTailProperties
    <3>7. Len(both) = Len(Queued)
      BY <3>1, <3>3
    <3> HIDE DEF both
    <3>8. ASSUME NEW k \in 1 .. Len(both) PROVE both[k] = Queued[k]
      <4>1. CASE k = 1
        BY <3>1, <3>2, <3>4, <3>6, <4>1
      <4>2. CASE k # 1
        <5>1. k - 1 \in 1 .. Len(Tail(Queued)) /\ ~(k <= 1) /\ (k - 1) + 1 = k
              /\ k \in 1 .. 1 + Len(Tail(Queued))
          BY <3>1, <3>7, <4>2
        <5>2. both[k] = Tail(Queued)[k - 1]
          BY <3>4, <5>1
        <5>3. Tail(Queued)[k - 1] = Queued[(k - 1) + 1]
          BY <3>5, <5>1
        <5>4. QED
          BY <5>1, <5>2, <5>3
      <4>3. QED
        BY <4>1, <4>2
    <3>9. both = Queued
      BY <2>2, <3>3, <3>7, <3>8, SeqEqual
    <3>10. QED
      BY <3>9 DEF both
  <2>5. Pending = Queued
    BY <2>1, PendingIsASequence
  <2>6. Pending' = Pending
    BY <2>2, <2>3, <2>4, <2>5 DEF Pending
  <2>7. QED
    BY <1>2, <2>1, <2>6 DEF Quiet
<1>10. CASE WriteQueued
  <2>1. /\ writer = "fputs" /\ single_log # None /\ single_log \in Lines /\ m_is_async
    BY <1>10 DEF WriteQueued, Shape, WriterOK
  <2>2. /\ UNCHANGED <<queueVars, callVars, refused, m_today, wentBack, disk>>
        /\ single_log' = None
        /\ buffered' = Append(buffered, Written(single_log, "writer"))
    BY <1>10 DEF WriteQueued, writerUnchanged, queueVars
  <2>3. Written(single_log, "writer") \in Entries
    BY <2>1 DEF Written, Entries, Shape, FilesOK
  <2>4. Output' = Append(Output, Written(single_log, "writer"))
    BY <2>2, <2>3, BufferedOutput
  <2>5. Queued \in Seq(Lines) /\ Queued' = Queued
    BY <2>2, PendingIsASequence DEF queueVars, Queued
  <2>6. Pending = <<single_log>> \o Queued
    BY <2>1 DEF Pending, InHand
  <2>7. Pending # <<>> /\ Head(Pending) = single_log /\ Tail(Pending) = Queued
    BY <2>1, <2>5, <2>6, ConcatOne
  <2>8. Pending' = Queued
    BY <2>2, <2>5, ConcatEmptySeq DEF Pending, InHand
  <2>9. QED
    BY <2>1, <2>2, <2>4, <2>7, <2>8 DEF Drains
<1>11. ASSUME Midnight \/ PopWaits \/ SpuriousWakeup \/ UNCHANGED vars PROVE Quiet
  <2>1. UNCHANGED <<fileVars, queueVars, single_log, refused>>
    BY <1>11 DEF Midnight, PopWaits, SpuriousWakeup, writerUnchanged, queueVars, vars
  <2>2. QED
    BY <1>1, <1>2, <2>1 DEF Quiet
<1>12. QED
  BY <1>4, <1>5, <1>6, <1>7, <1>8, <1>9, <1>10, <1>11 DEF Next, LogCall, WriterStep

-------------------------------------------------------------------------------
(* The order of the lines *)

Seen == {Pending[i] : i \in DOMAIN Pending} \cup {Output[i].line : i \in DOMAIN Output} \cup refused

(* A line the thread has finished with. *)
Counted(l) ==
    \/ l.n < logged[l.thread]
    \/ l.n = logged[l.thread] /\ pc[l.thread] \in {"flush", "idle"}

AllCounted == \A l \in Seen : Counted(l)

(* What waits is in the order of its logging, behind what the writer wrote. *)
InTurn ==
    /\ \A i, j \in DOMAIN Pending :
          i < j /\ Pending[i].thread = Pending[j].thread => Pending[i].n < Pending[j].n
    /\ \A i \in DOMAIN Output, j \in DOMAIN Pending :
          Output[i].by = "writer" /\ Output[i].line.thread = Pending[j].thread
             => Output[i].line.n < Pending[j].n

OrderInv == Shape /\ AllCounted /\ InTurn /\ OwnOrder

(* The elements of an Append and of a Tail. *)
LEMMA AppendElements ==
  ASSUME NEW S, NEW s \in Seq(S), NEW e \in S, NEW i \in DOMAIN Append(s, e)
  PROVE  \/ i \in DOMAIN s /\ Append(s, e)[i] = s[i] /\ i < Len(s) + 1
         \/ i = Len(s) + 1 /\ Append(s, e)[i] = e
<1>1. Len(s) \in Nat /\ DOMAIN s = 1 .. Len(s) /\ DOMAIN Append(s, e) = 1 .. Len(s) + 1
  BY AppendProperties, LenProperties
<1>2. /\ \A k \in 1 .. Len(s) : Append(s, e)[k] = s[k]
      /\ Append(s, e)[Len(s) + 1] = e
  BY AppendProperties
<1>3. CASE i = Len(s) + 1
  BY <1>2, <1>3
<1>4. CASE i # Len(s) + 1
  <2>1. i \in 1 .. Len(s) /\ i < Len(s) + 1
    BY <1>1, <1>4
  <2>2. QED
    BY <1>1, <1>2, <2>1
<1>5. QED
  BY <1>3, <1>4

(* The elements of a tail, by their places in the whole. *)
LEMMA TailElements ==
  ASSUME NEW S, NEW s \in Seq(S), s # <<>>
  PROVE  /\ 1 \in DOMAIN s /\ Head(s) = s[1] /\ Head(s) \in S /\ DOMAIN s \subseteq Nat
         /\ \A i \in DOMAIN Tail(s) : /\ i \in Nat /\ i > 0 /\ i + 1 \in DOMAIN s
                                      /\ Tail(s)[i] = s[i + 1]
<1>1. Len(s) \in Nat \ {0} /\ DOMAIN s = 1 .. Len(s)
  BY EmptySeq, LenProperties
<1>2. Tail(s) \in Seq(S) /\ Len(Tail(s)) = Len(s) - 1
  BY HeadTailProperties
<1>3. DOMAIN Tail(s) = 1 .. Len(s) - 1
  BY <1>2, LenProperties
<1>4. \A i \in 1 .. Len(s) - 1 : Tail(s)[i] = s[i + 1]
  BY <1>2, HeadTailProperties
<1>5. \A i \in 1 .. Len(s) - 1 : i \in Nat /\ i > 0 /\ i + 1 \in 1 .. Len(s)
  BY <1>1
<1>6. Head(s) = s[1] /\ Head(s) \in S
  BY HeadTailProperties
<1>7. 1 \in 1 .. Len(s) /\ 1 .. Len(s) \subseteq Nat
  BY <1>1
<1>8. QED
  BY <1>1, <1>3, <1>4, <1>5, <1>6, <1>7

(* No call undoes the counting: numbers grow when the thread begins anew.  *)
LEMMA CountedStays ==
  ASSUME Shape, [Next]_vars, NEW l \in Lines, Counted(l)
  PROVE  Counted(l)'
<1>1. /\ pc \in [Threads -> {"idle", "count", "full", "push", "fputs", "flush"}]
      /\ logged \in [Threads -> 0 .. MaxLines] /\ MaxLines \in Nat
  BY LogAssumption DEF Shape, CallsOK
<1>2. l.thread \in Threads /\ l.n \in Nat
  BY <1>1 DEF Lines
<1>3. ASSUME NEW t \in Threads, NEW there, At(t, pc[t], there), logged' = logged,
             pc[t] \in {"flush", "idle"} => there \in {"flush", "idle"}
      PROVE  Counted(l)'
  BY <1>1, <1>2, <1>3 DEF Counted, At
<1>4. ASSUME NEW t \in Threads, ReadTime(t) PROVE Counted(l)'
  <2>1. logged' = [logged EXCEPT ![t] = logged[t] + 1] /\ pc[t] = "idle" /\ pc' = [pc EXCEPT ![t] = "count"]
    BY <1>4 DEF ReadTime, At
  <2>2. CASE l.thread = t
    <3>1. logged'[t] = logged[t] + 1 /\ logged[t] \in Nat /\ l.n <= logged[t]
      BY <1>1, <1>2, <2>1, <2>2 DEF Counted
    <3>2. l.n < logged'[t]
      BY <1>2, <3>1
    <3>3. QED
      BY <2>2, <3>2 DEF Counted
  <2>3. CASE l.thread # t
    <3>1. logged'[l.thread] = logged[l.thread] /\ pc'[l.thread] = pc[l.thread]
      BY <1>1, <1>2, <2>1, <2>3
    <3>2. QED
      BY <3>1 DEF Counted
  <2>4. QED
    BY <2>2, <2>3
<1>5. ASSUME NEW t \in Threads, CountLine(t) PROVE Counted(l)'
  BY <1>3, <1>5 DEF CountLine, At
<1>6. ASSUME NEW t \in Threads, TestFull(t) PROVE Counted(l)'
  BY <1>3, <1>6 DEF TestFull, At
<1>7. ASSUME NEW t \in Threads, Push(t) PROVE Counted(l)'
  BY <1>3, <1>7 DEF Push, At
<1>8. ASSUME NEW t \in Threads, WriteDirect(t) \/ Flush(t) PROVE Counted(l)'
  BY <1>3, <1>8 DEF WriteDirect, Flush, At
<1>9. ASSUME Midnight \/ PopWaits \/ SpuriousWakeup \/ Pop \/ WriteQueued \/ UNCHANGED vars
      PROVE  Counted(l)'
  <2>1. UNCHANGED <<pc, logged>>
    BY <1>9 DEF Midnight, PopWaits, SpuriousWakeup, Pop, WriteQueued, writerUnchanged, vars, callVars
  <2>2. QED
    BY <2>1 DEF Counted
<1>10. QED
  BY <1>4, <1>5, <1>6, <1>7, <1>8, <1>9 DEF Next, LogCall, WriterStep

(* Nothing changes the mode of the log after init(). *)
LEMMA ModeStays == [Next]_vars => m_is_async' = m_is_async
<1> SUFFICES ASSUME [Next]_vars PROVE m_is_async' = m_is_async
  OBVIOUS
<1>1. ASSUME NEW t \in Threads, LogCall(t) PROVE m_is_async' = m_is_async
  BY <1>1 DEF LogCall, ReadTime, CountLine, TestFull, Push, WriteDirect, Flush
<1>2. CASE WriterStep \/ SpuriousWakeup \/ Midnight \/ UNCHANGED vars
  BY <1>2 DEF WriterStep, PopWaits, SpuriousWakeup, Pop, WriteQueued, writerUnchanged, Midnight, vars
<1>3. QED
  BY <1>1, <1>2 DEF Next

(* The thread that hands its line on has not handed it on before, and all  *)
(* its other lines have lower numbers. *)
LEMMA OwnLineIsNew ==
  ASSUME Shape, AllCounted, NEW t \in Threads, pc[t] \in {"push", "fputs"}
  PROVE  /\ Line(t) \in Lines /\ Line(t) \notin Seen
         /\ \A l \in Seen : l.thread = t => l.n < Line(t).n
<1>1. Line(t) \in Lines /\ Line(t).thread = t /\ Line(t).n = logged[t]
  BY LineIsALine DEF Shape
<1>2. \A l \in Seen : l.thread = t => l.n < logged[t]
  BY DEF AllCounted, Counted
<1>3. logged[t] \in Nat
  BY LogAssumption DEF Shape, CallsOK
<1>4. QED
  BY <1>1, <1>2, <1>3

(* What a step adds to the lines that were seen is the line of a thread    *)
(* that is done with it. *)
LEMMA SeenGrows ==
  ASSUME Shape, [Next]_vars, NEW l \in Seen'
  PROVE  l \in Seen \/ \E t \in Threads : /\ pc[t] \in {"push", "fputs"} /\ l = Line(t)
                                          /\ pc'[t] = "flush" /\ logged' = logged
<1>1. Pending \in Seq(Lines) /\ Output \in Seq(Entries)
  BY PendingIsASequence, ShapeIsTyped
<1>2. CASE Quiet
  BY <1>2 DEF Quiet, Seen
<1>3. CASE Drains
  <2>1. Head(Pending) = Pending[1] /\ 1 \in DOMAIN Pending /\ Head(Pending) \in Lines
    BY <1>1, <1>3, TailElements DEF Drains
  <2>2. \A i \in DOMAIN Pending' : Pending'[i] \in {Pending[k] : k \in DOMAIN Pending}
    BY <1>1, <1>3, TailElements DEF Drains
  <2>3. Written(Head(Pending), "writer") \in Entries /\ Written(Head(Pending), "writer").line = Head(Pending)
    BY <2>1 DEF Written, Entries, Shape, FilesOK
  <2>4. \A i \in DOMAIN Output' : Output'[i] = Written(Head(Pending), "writer")
                                  \/ (i \in DOMAIN Output /\ Output'[i] = Output[i])
    BY <1>1, <1>3, <2>3, AppendElements DEF Drains
  <2>5. refused' = refused
    BY <1>3 DEF Drains
  <2>6. CASE \E i \in DOMAIN Pending' : l = Pending'[i]
    BY <2>2, <2>6 DEF Seen
  <2>7. CASE \E i \in DOMAIN Output' : l = Output'[i].line
    BY <2>1, <2>3, <2>4, <2>7 DEF Seen
  <2>8. CASE l \in refused'
    BY <2>5, <2>8 DEF Seen
  <2>9. QED
    BY <2>6, <2>7, <2>8 DEF Seen
<1>4. ASSUME NEW t \in Threads, Queues(t)
      PROVE  l \in Seen \/ l = Line(t)
  <2>1. Line(t) \in Lines
    BY <1>4, LineIsALine DEF Queues, Shape
  <2>2. \A i \in DOMAIN Pending' : Pending'[i] = Line(t) \/ (i \in DOMAIN Pending /\ Pending'[i] = Pending[i])
    BY <1>1, <1>4, <2>1, AppendElements DEF Queues
  <2>3. QED
    BY <1>4, <2>2 DEF Queues, Seen
<1>5. ASSUME NEW t \in Threads, GivesUp(t)
      PROVE  l \in Seen \/ l = Line(t)
  BY <1>5 DEF GivesUp, Seen
<1>6. ASSUME NEW t \in Threads, WritesThrough(t)
      PROVE  l \in Seen \/ l = Line(t)
  <2>1. Line(t) \in Lines
    BY <1>6, LineIsALine DEF WritesThrough, Shape
  <2>2. Written(Line(t), "caller") \in Entries /\ Written(Line(t), "caller").line = Line(t)
    BY <2>1 DEF Written, Entries, Shape, FilesOK
  <2>3. \A i \in DOMAIN Output' : Output'[i] = Written(Line(t), "caller")
                                  \/ (i \in DOMAIN Output /\ Output'[i] = Output[i])
    BY <1>1, <1>6, <2>2, AppendElements DEF WritesThrough
  <2>4. QED
    BY <1>6, <2>2, <2>3 DEF WritesThrough, Seen
<1>7. QED
  BY <1>2, <1>3, <1>4, <1>5, <1>6, Effects DEF Queues, GivesUp, WritesThrough

(* Every line that was seen stays counted. *)
LEMMA AllCountedStep ==
  ASSUME Shape, Shape', AllCounted, [Next]_vars
  PROVE  AllCounted'
<1> SUFFICES ASSUME NEW l \in Seen' PROVE Counted(l)'
  BY DEF AllCounted
<1>1. CASE l \in Seen
  <2>1. l \in Lines
    <3>1. Pending \in Seq(Lines) /\ Output \in Seq(Entries)
      BY PendingIsASequence, ShapeIsTyped
    <3>2. \A k \in DOMAIN Pending : Pending[k] \in Lines
      BY <3>1, ElementOfSeq, LenProperties
    <3>3. \A k \in DOMAIN Output : Output[k] \in Entries
      BY <3>1, ElementOfSeq, LenProperties
    <3>4. refused \subseteq Lines
      BY DEF Shape, CallsOK
    <3>5. QED
      BY <1>1, <3>2, <3>3, <3>4 DEF Seen, Entries
  <2>2. Counted(l)
    BY <1>1 DEF AllCounted
  <2>3. QED
    BY <2>1, <2>2, CountedStays
<1>2. ASSUME NEW t \in Threads, pc[t] \in {"push", "fputs"}, l = Line(t), pc'[t] = "flush", logged' = logged
      PROVE  Counted(l)'
  <2>1. l.thread = t /\ l.n = logged[t]
    BY <1>2 DEF Line
  <2>2. QED
    BY <1>2, <2>1 DEF Counted
<1>3. QED
  BY <1>1, <1>2, SeenGrows

(* The two orders after each of the things that happen to the lines.       *)
LEMMA OrderQuiet ==
  ASSUME InTurn, OwnOrder, m_is_async' = m_is_async, Quiet
  PROVE  InTurn' /\ OwnOrder'
  BY DEF InTurn, OwnOrder, Quiet

(* push() puts a line behind all that its caller logged before. *)
LEMMA OrderQueues ==
  ASSUME OrderInv, m_is_async' = m_is_async, NEW t \in Threads, Queues(t)
  PROVE  InTurn' /\ OwnOrder'
<1>1. Pending \in Seq(Lines) /\ Len(Pending) \in Nat /\ DOMAIN Pending = 1 .. Len(Pending)
  BY PendingIsASequence, LenProperties DEF OrderInv
<1>2. /\ Line(t) \in Lines /\ Line(t).thread = t
      /\ \A l \in Seen : l.thread = t => l.n < Line(t).n
  BY OwnLineIsNew DEF OrderInv, Queues, Line
<1>3. /\ Output' = Output /\ Pending' = Append(Pending, Line(t))
      /\ \A i \in DOMAIN Pending' : \/ i \in DOMAIN Pending /\ Pending'[i] = Pending[i] /\ i < Len(Pending) + 1
                                    \/ i = Len(Pending) + 1 /\ Pending'[i] = Line(t)
  BY <1>1, <1>2, AppendElements DEF Queues
<1>4. /\ \A i \in DOMAIN Pending : Pending[i] \in Seen
      /\ \A i \in DOMAIN Output : Output[i].line \in Seen
  BY DEF Seen
<1>5. ASSUME NEW i \in DOMAIN Pending', NEW j \in DOMAIN Pending', i < j,
             Pending'[i].thread = Pending'[j].thread
      PROVE  Pending'[i].n < Pending'[j].n
  <2>1. i \in DOMAIN Pending /\ Pending'[i] = Pending[i]
    BY <1>1, <1>3, <1>5
  <2>2. CASE j \in DOMAIN Pending /\ Pending'[j] = Pending[j]
    BY <1>5, <2>1, <2>2 DEF OrderInv, InTurn
  <2>3. CASE Pending'[j] = Line(t)
    BY <1>2, <1>4, <1>5, <2>1, <2>3
  <2>4. QED
    BY <1>3, <2>2, <2>3
<1>6. ASSUME NEW i \in DOMAIN Output, NEW j \in DOMAIN Pending', Output[i].by = "writer",
             Output[i].line.thread = Pending'[j].thread
      PROVE  Output[i].line.n < Pending'[j].n
  <2>1. CASE j \in DOMAIN Pending /\ Pending'[j] = Pending[j]
    BY <1>6, <2>1 DEF OrderInv, InTurn
  <2>2. CASE Pending'[j] = Line(t)
    BY <1>2, <1>4, <1>6, <2>2
  <2>3. QED
    BY <1>3, <2>1, <2>2
<1>7. OwnOrder'
  BY <1>3 DEF OrderInv, OwnOrder
<1>8. QED
  BY <1>3, <1>5, <1>6, <1>7 DEF InTurn

(* fputs() in write_log() comes after the lines its caller has written     *)
(* itself.                                                                 *)
LEMMA OrderWrites ==
  ASSUME OrderInv, m_is_async' = m_is_async, NEW t \in Threads, WritesThrough(t)
  PROVE  InTurn' /\ OwnOrder'
<1> DEFINE e == Written(Line(t), "caller")
<1>1. Output \in Seq(Entries) /\ Len(Output) \in Nat /\ DOMAIN Output = 1 .. Len(Output)
  BY ShapeIsTyped, LenProperties DEF OrderInv
<1>2. /\ Line(t) \in Lines /\ Line(t).thread = t
      /\ \A l \in Seen : l.thread = t => l.n < Line(t).n
  BY OwnLineIsNew DEF OrderInv, WritesThrough, Line
<1>3. e \in Entries /\ e.line = Line(t) /\ e.by = "caller"
  BY <1>2 DEF Written, Entries, OrderInv, Shape, FilesOK
<1> HIDE DEF e
<1>4. /\ Pending' = Pending /\ Output' = Append(Output, e)
      /\ \A i \in DOMAIN Output' : \/ i \in DOMAIN Output /\ Output'[i] = Output[i] /\ i < Len(Output) + 1
                                   \/ i = Len(Output) + 1 /\ Output'[i] = e
  BY <1>1, <1>3, AppendElements DEF WritesThrough, e
<1>5. \A i \in DOMAIN Output : Output[i].line \in Seen
  BY DEF Seen
<1>6. InTurn'
  BY <1>3, <1>4 DEF OrderInv, InTurn
<1>7. OwnOrder'
  <2> SUFFICES ASSUME NEW i \in DOMAIN Output', NEW j \in DOMAIN Output', i < j,
                      Output'[i].line.thread = Output'[j].line.thread,
                      Output'[i].line.n > Output'[j].line.n
               PROVE  m_is_async' /\ Output'[i].by = "caller" /\ Output'[j].by = "writer"
    BY DEF OwnOrder
  <2>1. i \in DOMAIN Output /\ Output'[i] = Output[i]
    BY <1>1, <1>4
  <2>2. CASE j \in DOMAIN Output /\ Output'[j] = Output[j]
    BY <2>1, <2>2 DEF OrderInv, OwnOrder
  <2>3. CASE Output'[j] = e
    <3>1. Output[i].line.n < Line(t).n /\ Output[i].line.n > Line(t).n
      BY <1>2, <1>3, <1>5, <2>1, <2>3
    <3>2. Output[i] \in Entries
      BY <1>1, <2>1, ElementOfSeq
    <3>3. Output[i].line.n \in Int /\ Line(t).n \in Int
      BY <1>2, <3>2, LogAssumption DEF Entries, Lines
    <3>4. QED
      BY <3>1, <3>3
  <2>4. QED
    BY <1>4, <2>2, <2>3
<1>8. QED
  BY <1>6, <1>7

(* The writer thread takes the oldest line. *)
LEMMA OrderDrains ==
  ASSUME OrderInv, m_is_async' = m_is_async, Drains
  PROVE  InTurn' /\ OwnOrder'
<1> DEFINE e == Written(Head(Pending), "writer")
<1>1. /\ Output \in Seq(Entries) /\ Len(Output) \in Nat /\ DOMAIN Output = 1 .. Len(Output)
      /\ Pending \in Seq(Lines) /\ Pending # <<>>
  BY ShapeIsTyped, LenProperties, PendingIsASequence DEF OrderInv, Drains
<1>2. /\ 1 \in DOMAIN Pending /\ Head(Pending) = Pending[1] /\ Head(Pending) \in Lines
      /\ DOMAIN Pending \subseteq Nat
      /\ \A i \in DOMAIN Pending' : i \in Nat /\ i > 0 /\ i + 1 \in DOMAIN Pending /\ Pending'[i] = Pending[i + 1]
  BY <1>1, TailElements DEF Drains
<1>3. e \in Entries /\ e.line = Pending[1] /\ e.by = "writer"
  BY <1>2 DEF Written, Entries, OrderInv, Shape, FilesOK
<1> HIDE DEF e
<1>4. /\ Output' = Append(Output, e)
      /\ \A i \in DOMAIN Output' : \/ i \in DOMAIN Output /\ Output'[i] = Output[i] /\ i < Len(Output) + 1
                                   \/ i = Len(Output) + 1 /\ Output'[i] = e
  BY <1>1, <1>3, AppendElements DEF Drains, e
<1>5. ASSUME NEW i \in DOMAIN Pending', NEW j \in DOMAIN Pending', i < j,
             Pending'[i].thread = Pending'[j].thread
      PROVE  Pending'[i].n < Pending'[j].n
  <2>1. i + 1 < j + 1
    BY <1>2, <1>5
  <2>2. QED
    BY <1>2, <1>5, <2>1 DEF OrderInv, InTurn
<1>6. ASSUME NEW i \in DOMAIN Output', NEW j \in DOMAIN Pending', Output'[i].by = "writer",
             Output'[i].line.thread = Pending'[j].thread
      PROVE  Output'[i].line.n < Pending'[j].n
  <2>1. j + 1 \in DOMAIN Pending /\ Pending'[j] = Pending[j + 1] /\ 1 < j + 1
    BY <1>2
  <2>2. CASE i \in DOMAIN Output /\ Output'[i] = Output[i]
    BY <1>6, <2>1, <2>2 DEF OrderInv, InTurn
  <2>3. CASE Output'[i] = e
    BY <1>2, <1>3, <1>6, <2>1, <2>3 DEF OrderInv, InTurn
  <2>4. QED
    BY <1>4, <2>2, <2>3
<1>7. InTurn'
  BY <1>5, <1>6 DEF InTurn
<1>8. OwnOrder'
  <2> SUFFICES ASSUME NEW i \in DOMAIN Output', NEW j \in DOMAIN Output', i < j,
                      Output'[i].line.thread = Output'[j].line.thread,
                      Output'[i].line.n > Output'[j].line.n
               PROVE  m_is_async' /\ Output'[i].by = "caller" /\ Output'[j].by = "writer"
    BY DEF OwnOrder
  <2>1. i \in DOMAIN Output /\ Output'[i] = Output[i]
    BY <1>1, <1>4
  <2>2. CASE j \in DOMAIN Output /\ Output'[j] = Output[j]
    BY <2>1, <2>2 DEF OrderInv, OwnOrder
  <2>3. CASE Output'[j] = e
    <3>1. Output[i] \in Entries
      BY <1>1, <2>1, ElementOfSeq
    <3>2. Output[i].line.n \in Int /\ Pending[1].n \in Int /\ Output[i].by \in {"caller", "writer"}
      BY <1>2, <3>1, LogAssumption DEF Entries, Lines
    <3>3. Output[i].by # "writer"
      <4> SUFFICES ASSUME Output[i].by = "writer" PROVE FALSE
        OBVIOUS
      <4>1. Output[i].line.n < Pending[1].n
        BY <1>2, <1>3, <2>1, <2>3 DEF OrderInv, InTurn
      <4>2. Output[i].line.n > Pending[1].n
        BY <1>3, <2>1, <2>3
      <4>3. QED
        BY <3>2, <4>1, <4>2
    <3>4. m_is_async'
      BY DEF Drains
    <3>5. QED
      BY <1>3, <2>1, <2>3, <3>2, <3>3, <3>4
  <2>4. QED
    BY <1>4, <2>2, <2>3
<1>9. QED
  BY <1>7, <1>8

(* OrderInv holds at the start and after every step. *)
LEMMA OrderInit == Init => OrderInv
<1> SUFFICES ASSUME Init PROVE OrderInv
  OBVIOUS
<1>1. Shape
  BY ShapeInit
<1>2. Output = <<>>
  BY DEF Init, Output
<1>3. Pending = <<>>
  <2>1. m_size = 0 /\ single_log = None
    BY DEF Init
  <2>2. Queued \in Seq(Lines) /\ Len(Queued) = 0
    BY <1>1, <2>1, QueuedIsASequence DEF Shape
  <2>3. Queued = <<>>
    BY <2>2, EmptySeq
  <2>4. QED
    BY <1>1, <2>1, <2>3, PendingIsASequence
<1>4. refused = {} /\ DOMAIN Pending = {} /\ DOMAIN Output = {}
  BY <1>2, <1>3 DEF Init
<1>5. AllCounted
  BY <1>4 DEF AllCounted, Seen
<1>6. QED
  BY <1>1, <1>4, <1>5 DEF OrderInv, InTurn, OwnOrder

(* Every step keeps the order. *)
LEMMA OrderStep == OrderInv /\ [Next]_vars => OrderInv'
<1> SUFFICES ASSUME OrderInv, [Next]_vars PROVE OrderInv'
  OBVIOUS
<1>1. Shape /\ Shape' /\ m_is_async' = m_is_async
  BY ShapeStep, ModeStays DEF OrderInv
<1>2. AllCounted'
  BY <1>1, AllCountedStep DEF OrderInv
<1>3. ASSUME NEW t \in Threads, GivesUp(t) PROVE InTurn' /\ OwnOrder'
  BY <1>1, <1>3 DEF GivesUp, OrderInv, InTurn, OwnOrder
<1>4. InTurn' /\ OwnOrder'
  BY <1>1, <1>3, Effects, OrderQuiet, OrderQueues, OrderWrites, OrderDrains DEF OrderInv
<1>5. QED
  BY <1>1, <1>2, <1>4 DEF OrderInv

(* A thread's lines are in the files in the order it logged them, whatever *)
(* the other threads and the writer do, but for a line it wrote itself     *)
(* when the queue of an asynchronous log was full.                         *)
THEOREM LinesKeepTheirOrder == Spec => []OwnOrder
<1>1. OrderInv => OwnOrder
  BY DEF OrderInv
<1>2. QED
  BY <1>1, OrderInit, OrderStep, PTL DEF Spec, SafeSpec

-------------------------------------------------------------------------------
(* What the file holds when LOG_INFO has returned                          *)

(* A line its caller wrote to the buffer stays there only until the caller *)
(* itself, or any other thread, flushes it.                                *)
LEMMA DirectStep ==
  ASSUME Shape, DirectLinesAreOnDisk, [Next]_vars
  PROVE  DirectLinesAreOnDisk'
<1>1. /\ pc \in [Threads -> {"idle", "count", "full", "push", "fputs", "flush"}]
      /\ buffered \in Seq(Entries)
      /\ \A i \in DOMAIN buffered : buffered[i] \in Entries
  BY ElementOfSeq, LenProperties DEF Shape, CallsOK, FilesOK
<1>2. \A i \in DOMAIN buffered : buffered[i].line.thread \in Threads
  BY <1>1 DEF Entries, Lines
<1>3. ASSUME buffered' = <<>> PROVE DirectLinesAreOnDisk'
  BY <1>3 DEF DirectLinesAreOnDisk
<1>4. ASSUME NEW t \in Threads, pc[t] # "flush", \A u \in Threads : u # t => pc'[u] = pc[u],
             \A u \in Threads : u # t => logged'[u] = logged[u] /\ my_tm'[u] = my_tm[u],
             buffered' = buffered
      PROVE  DirectLinesAreOnDisk'
  <2> SUFFICES ASSUME NEW i \in DOMAIN buffered, buffered[i].by = "caller"
               PROVE  /\ pc'[buffered[i].line.thread] = "flush"
                      /\ buffered[i].line = Line(buffered[i].line.thread)'
    BY <1>4 DEF DirectLinesAreOnDisk
  <2> DEFINE u == buffered[i].line.thread
  <2>1. u \in Threads /\ pc[u] = "flush" /\ buffered[i].line = Line(u)
    BY <1>2 DEF DirectLinesAreOnDisk
  <2>2. u # t
    BY <1>4, <2>1
  <2>3. pc'[u] = "flush" /\ logged'[u] = logged[u] /\ my_tm'[u] = my_tm[u]
    BY <1>4, <2>1, <2>2
  <2>4. QED
    BY <1>4, <2>1, <2>3 DEF Line
<1>5. CASE UNCHANGED <<pc, my_tm, logged, buffered>>
  BY <1>5 DEF DirectLinesAreOnDisk, Line
<1>6. ASSUME NEW t \in Threads, ReadTime(t) PROVE DirectLinesAreOnDisk'
  <2>1. /\ pc' = [pc EXCEPT ![t] = "count"] /\ pc[t] = "idle" /\ buffered' = buffered
        /\ logged' = [logged EXCEPT ![t] = logged[t] + 1] /\ my_tm' = [my_tm EXCEPT ![t] = today]
    BY <1>6 DEF ReadTime, At, fileVars
  <2>2. my_tm \in [Threads -> Days] /\ logged \in [Threads -> 0 .. MaxLines]
    BY DEF Shape, CallsOK
  <2>3. QED
    BY <1>1, <1>4, <2>1, <2>2
<1>7. ASSUME NEW t \in Threads, CountLine(t) PROVE DirectLinesAreOnDisk'
  <2>1. /\ pc' = [pc EXCEPT ![t] = "full"] /\ pc[t] = "count" /\ UNCHANGED <<logged, my_tm>>
        /\ buffered' = buffered \/ buffered' = <<>>
    BY <1>7 DEF CountLine, At
  <2>2. QED
    BY <1>1, <1>3, <1>4, <2>1
<1>8. ASSUME NEW t \in Threads, TestFull(t) \/ Push(t) PROVE DirectLinesAreOnDisk'
  <2>1. /\ \A u \in Threads : u # t => pc'[u] = pc[u]
        /\ pc[t] # "flush" /\ UNCHANGED <<logged, my_tm, buffered>>
    BY <1>1, <1>8 DEF TestFull, Push, At, fileVars
  <2>2. QED
    BY <1>4, <2>1
<1>9. ASSUME NEW t \in Threads, WriteDirect(t) PROVE DirectLinesAreOnDisk'
  <2>1. /\ pc' = [pc EXCEPT ![t] = "flush"] /\ pc[t] = "fputs" /\ UNCHANGED <<logged, my_tm>>
        /\ buffered' = Append(buffered, Written(Line(t), "caller"))
    BY <1>9 DEF WriteDirect, At
  <2>2. Line(t) \in Lines /\ Line(t).thread = t
    BY <2>1, LineIsALine DEF Shape
  <2>3. Written(Line(t), "caller") \in Entries /\ Written(Line(t), "caller").line = Line(t)
    BY <2>2 DEF Written, Entries, Shape, FilesOK
  <2>4. ASSUME NEW i \in DOMAIN buffered', buffered'[i].by = "caller"
        PROVE  pc'[buffered'[i].line.thread] = "flush" /\ buffered'[i].line = Line(buffered'[i].line.thread)
    <3>1. CASE i \in DOMAIN buffered /\ buffered'[i] = buffered[i]
      <4>1. /\ buffered[i].line.thread \in Threads /\ pc[buffered[i].line.thread] = "flush"
            /\ buffered[i].line = Line(buffered[i].line.thread)
        BY <1>2, <2>4, <3>1 DEF DirectLinesAreOnDisk
      <4>2. QED
        BY <1>1, <2>1, <3>1, <4>1
    <3>2. CASE buffered'[i] = Written(Line(t), "caller")
      BY <1>1, <2>1, <2>2, <2>3, <3>2
    <3>3. QED
      BY <1>1, <2>1, <2>3, <3>1, <3>2, AppendElements
  <2>5. \A u : Line(u)' = Line(u)
    BY <2>1 DEF Line
  <2>6. QED
    BY <2>1, <2>4 DEF DirectLinesAreOnDisk, Line
<1>10. ASSUME NEW t \in Threads, Flush(t) PROVE DirectLinesAreOnDisk'
  BY <1>3, <1>10 DEF Flush
<1>11. CASE WriteQueued
  <2>1. /\ UNCHANGED <<pc, logged, my_tm>> /\ single_log \in Lines
        /\ buffered' = Append(buffered, Written(single_log, "writer"))
    BY <1>11 DEF WriteQueued, writerUnchanged, callVars, Shape, WriterOK
  <2>2. Written(single_log, "writer") \in Entries /\ Written(single_log, "writer").by = "writer"
    BY <2>1 DEF Written, Entries, Shape, FilesOK
  <2>3. \A i \in DOMAIN buffered' : buffered'[i].by = "caller" => i \in DOMAIN buffered /\ buffered'[i] = buffered[i]
    BY <1>1, <2>1, <2>2, AppendElements
  <2>4. QED
    BY <2>1, <2>3 DEF DirectLinesAreOnDisk, Line
<1>12. ASSUME Midnight \/ PopWaits \/ SpuriousWakeup \/ Pop \/ UNCHANGED vars
       PROVE  UNCHANGED <<pc, my_tm, logged, buffered>>
  BY <1>12 DEF Midnight, PopWaits, SpuriousWakeup, Pop, writerUnchanged, callVars, fileVars, vars
<1>13. QED
  BY <1>5, <1>6, <1>7, <1>8, <1>9, <1>10, <1>11, <1>12 DEF Next, LogCall, WriterStep

(* When LOG_INFO returns, the line it wrote itself has left the buffer of  *)
(* the file, so the end of the process cannot lose it. *)
THEOREM ReturnedLinesAreOnDisk == Spec => []DirectLinesAreOnDisk
<1>1. Init => DirectLinesAreOnDisk
  BY DEF Init, DirectLinesAreOnDisk
<1>2. QED
  BY <1>1, ShapeInit, ShapeStep, DirectStep, PTL DEF Spec, SafeSpec

-------------------------------------------------------------------------------
(* The day of the file *)

(* As long as no caller went back to an earlier day, what is still to be   *)
(* written is not younger than the open file. *)
DaysKept ==
    /\ m_fp.day = m_today
    /\ ~wentBack =>
          /\ \A t \in Threads : pc[t] \in {"full", "push", "fputs"} => my_tm[t] <= m_today
          /\ \A i \in DOMAIN Pending : Pending[i].day <= m_today
          /\ \A i \in DOMAIN Output : Output[i].line.day <= Output[i].file.day

(* CountLine is the only step that changes m_today, and the step says so   *)
(* if it goes back. *)
LEMMA TodayMoves ==
  ASSUME Shape, m_fp.day = m_today, [Next]_vars
  PROVE  /\ m_fp'.day = m_today'
         /\ ~wentBack' => ~wentBack /\ m_today <= m_today'
         /\ \A t \in Threads : pc'[t] \in {"full", "push", "fputs"} =>
               \/ pc[t] \in {"full", "push", "fputs"} /\ my_tm'[t] = my_tm[t]
               \/ my_tm'[t] = m_today'
<1>1. /\ pc \in [Threads -> {"idle", "count", "full", "push", "fputs", "flush"}]
      /\ my_tm \in [Threads -> Days] /\ m_today \in Days /\ wentBack \in BOOLEAN
      /\ Days \subseteq Int
  BY LogAssumption DEF Shape, CallsOK, FilesOK, Days
<1>2. ASSUME NEW t \in Threads, CountLine(t)
      PROVE  /\ m_fp'.day = m_today'
             /\ ~wentBack' => ~wentBack /\ m_today <= m_today'
             /\ my_tm'[t] = m_today' /\ pc' = [pc EXCEPT ![t] = "full"] /\ my_tm' = my_tm
  <2>1. pc' = [pc EXCEPT ![t] = "full"] /\ my_tm' = my_tm
    BY <1>2 DEF CountLine, At
  <2>2. CASE Rotates(my_tm[t], m_count + 1)
    <3>1. m_fp'.day = my_tm[t] /\ m_today' = my_tm[t] /\ wentBack' = (wentBack \/ my_tm[t] < m_today)
      BY <1>2, <2>2 DEF CountLine, File
    <3>2. my_tm[t] \in Int /\ m_today \in Int
      BY <1>1
    <3>3. ~(my_tm[t] < m_today) => m_today <= my_tm[t]
      BY <3>2
    <3>4. ~wentBack' => ~wentBack /\ m_today <= m_today'
      BY <3>1, <3>3, Zenon
    <3>5. QED
      BY <2>1, <3>1, <3>4
  <2>3. CASE ~Rotates(my_tm[t], m_count + 1)
    <3>1. m_fp' = m_fp /\ m_today' = m_today /\ wentBack' = wentBack
      BY <1>2, <2>3 DEF CountLine
    <3>2. m_today = my_tm[t]
      BY <2>3 DEF Rotates
    <3>3. QED
      BY <1>1, <2>1, <3>1, <3>2
  <2>4. QED
    BY <2>2, <2>3
<1>3. ASSUME NEW t \in Threads, ReadTime(t) \/ TestFull(t) \/ Push(t) \/ WriteDirect(t) \/ Flush(t)
      PROVE  /\ UNCHANGED <<m_fp, m_today, wentBack>>
             /\ \A u \in Threads : pc'[u] \in {"full", "push", "fputs"} =>
                   pc[u] \in {"full", "push", "fputs"} /\ my_tm'[u] = my_tm[u]
  <2>1. UNCHANGED <<m_fp, m_today, wentBack>>
    BY <1>3 DEF ReadTime, TestFull, Push, WriteDirect, Flush, fileVars
  <2>2. \A u \in Threads : u # t => pc'[u] = pc[u] /\ my_tm'[u] = my_tm[u]
    BY <1>1, <1>3 DEF ReadTime, TestFull, Push, WriteDirect, Flush, At
  <2>3. pc'[t] \in {"full", "push", "fputs"} => pc[t] \in {"full", "push", "fputs"} /\ my_tm'[t] = my_tm[t]
    BY <1>1, <1>3 DEF ReadTime, TestFull, Push, WriteDirect, Flush, At
  <2>4. QED
    BY <2>1, <2>2, <2>3
<1>4. ASSUME Midnight \/ PopWaits \/ SpuriousWakeup \/ Pop \/ WriteQueued \/ UNCHANGED vars
      PROVE  UNCHANGED <<m_fp, m_today, wentBack, pc, my_tm>>
  BY <1>4 DEF Midnight, PopWaits, SpuriousWakeup, Pop, WriteQueued, writerUnchanged, callVars, fileVars, vars
<1>5. CASE \E t \in Threads : CountLine(t)
  BY <1>1, <1>2, <1>5
<1>6. CASE UNCHANGED <<m_fp, m_today, wentBack>>
           /\ \A u \in Threads : pc'[u] \in {"full", "push", "fputs"} =>
                   pc[u] \in {"full", "push", "fputs"} /\ my_tm'[u] = my_tm[u]
  BY <1>1, <1>6
<1>7. QED
  BY <1>3, <1>4, <1>5, <1>6 DEF Next, LogCall, WriterStep

(* Unless the log has gone back to an older file, no line is from a later  *)
(* day than the log.                                                       *)
LEMMA DaysStep ==
  ASSUME Shape, DaysKept, [Next]_vars
  PROVE  DaysKept'
<1>1. m_fp'.day = m_today'
  BY TodayMoves DEF DaysKept
<1> SUFFICES ASSUME ~wentBack'
             PROVE  /\ \A t \in Threads : pc'[t] \in {"full", "push", "fputs"} => my_tm'[t] <= m_today'
                    /\ \A i \in DOMAIN Pending' : Pending'[i].day <= m_today'
                    /\ \A i \in DOMAIN Output' : Output'[i].line.day <= Output'[i].file.day
  BY <1>1 DEF DaysKept
<1>2. ~wentBack /\ m_today <= m_today'
  BY TodayMoves DEF DaysKept
<1>3. /\ \A t \in Threads : pc[t] \in {"full", "push", "fputs"} => my_tm[t] <= m_today
      /\ \A i \in DOMAIN Pending : Pending[i].day <= m_today
      /\ \A i \in DOMAIN Output : Output[i].line.day <= Output[i].file.day
      /\ m_fp.day = m_today
  BY <1>2 DEF DaysKept
<1>4. /\ m_today \in Int /\ m_today' \in Int /\ my_tm \in [Threads -> Int]
      /\ Pending \in Seq(Lines) /\ Output \in Seq(Entries)
  <2>1. Days \subseteq Int
    BY LogAssumption DEF Days
  <2>2. m_today \in Days /\ my_tm \in [Threads -> Days] /\ m_today' \in Days
    BY FilesStep DEF Shape, FilesOK, CallsOK
  <2>3. QED
    BY <2>1, <2>2, PendingIsASequence, ShapeIsTyped
<1>5. \A t \in Threads : pc'[t] \in {"full", "push", "fputs"} => my_tm'[t] <= m_today'
  <2> SUFFICES ASSUME NEW t \in Threads, pc'[t] \in {"full", "push", "fputs"} PROVE my_tm'[t] <= m_today'
    OBVIOUS
  <2>1. CASE my_tm'[t] = m_today'
    BY <1>4, <2>1
  <2>2. CASE pc[t] \in {"full", "push", "fputs"} /\ my_tm'[t] = my_tm[t]
    <3>1. my_tm[t] <= m_today /\ my_tm[t] \in Int
      BY <1>3, <1>4, <2>2
    <3>2. QED
      BY <1>2, <1>4, <2>2, <3>1
  <2>3. QED
    BY <2>1, <2>2, TodayMoves DEF DaysKept
<1>6. \A l \in Lines : l.day \in Int
  BY LogAssumption DEF Lines
<1>7. \A i \in DOMAIN Pending : Pending[i] \in Lines
  BY <1>4, ElementOfSeq, LenProperties
<1>8. \A i \in DOMAIN Pending : Pending[i].day <= m_today'
  BY <1>2, <1>3, <1>4, <1>6, <1>7
<1>9. CASE Quiet
  BY <1>3, <1>5, <1>8, <1>9 DEF Quiet
<1>10. CASE Drains
  <2>1. /\ Head(Pending) \in Lines /\ Head(Pending).day <= m_today
        /\ \A i \in DOMAIN Pending' : Pending'[i].day <= m_today'
    BY <1>3, <1>4, <1>8, <1>10, TailElements DEF Drains
  <2> DEFINE e == Written(Head(Pending), "writer")
  <2>2. e \in Entries /\ e.line.day <= e.file.day
    BY <1>3, <2>1 DEF Written, Entries, Shape, FilesOK
  <2> HIDE DEF e
  <2>3. Output' = Append(Output, e)
    BY <1>10 DEF Drains, e
  <2>4. \A i \in DOMAIN Output' : Output'[i] = e \/ (i \in DOMAIN Output /\ Output'[i] = Output[i])
    BY <1>4, <2>2, <2>3, AppendElements
  <2>5. QED
    BY <1>3, <1>5, <2>1, <2>2, <2>4
<1>11. ASSUME NEW t \in Threads, Queues(t)
       PROVE  /\ \A i \in DOMAIN Pending' : Pending'[i].day <= m_today'
              /\ Output' = Output
  <2>1. /\ Line(t) \in Lines /\ Line(t).day <= m_today
    BY <1>3, <1>11, LineIsALine DEF Queues, Shape
  <2>2. \A i \in DOMAIN Pending' : Pending'[i] = Line(t) \/ (i \in DOMAIN Pending /\ Pending'[i] = Pending[i])
    BY <1>4, <1>11, <2>1, AppendElements DEF Queues
  <2>3. QED
    BY <1>8, <1>11, <2>1, <2>2 DEF Queues
<1>12. ASSUME NEW t \in Threads, WritesThrough(t)
       PROVE  /\ \A i \in DOMAIN Output' : Output'[i].line.day <= Output'[i].file.day
              /\ Pending' = Pending
  <2> DEFINE e == Written(Line(t), "caller")
  <2>1. /\ Line(t) \in Lines /\ Line(t).day <= m_today
    BY <1>3, <1>12, LineIsALine DEF WritesThrough, Shape
  <2>2. e \in Entries /\ e.line.day <= e.file.day
    BY <1>3, <2>1 DEF Written, Entries, Shape, FilesOK
  <2> HIDE DEF e
  <2>3. Output' = Append(Output, e) /\ Pending' = Pending
    BY <1>12 DEF WritesThrough, e
  <2>4. \A i \in DOMAIN Output' : Output'[i] = e \/ (i \in DOMAIN Output /\ Output'[i] = Output[i])
    BY <1>4, <2>2, <2>3, AppendElements
  <2>5. QED
    BY <1>3, <2>2, <2>3, <2>4
<1>13. ASSUME NEW t \in Threads, GivesUp(t) PROVE UNCHANGED <<Pending, Output>>
  BY <1>13 DEF GivesUp
<1>14. QED
  BY <1>3, <1>5, <1>8, <1>9, <1>10, <1>11, <1>12, <1>13, Effects

(* A line is not in the file of a day before its own date, however the     *)
(* threads and the writer interleave with midnight, except after a caller  *)
(* that read the time before midnight reopened the earlier file.           *)
THEOREM LinesAreNotInYesterdaysFile == Spec => []NotInYesterdaysFile
<1>1. DaysKept => NotInYesterdaysFile
  BY DEF DaysKept, NotInYesterdaysFile
<1>2. Init => DaysKept
  <2> SUFFICES ASSUME Init PROVE DaysKept
    OBVIOUS
  <2>1. m_fp.day = m_today /\ (\A t \in Threads : pc[t] = "idle")
    BY DEF Init, File
  <2>2. DOMAIN Output = {}
    BY DEF Init, Output
  <2>3. DOMAIN Pending = {}
    <3>1. Shape /\ m_size = 0 /\ single_log = None
      BY ShapeInit DEF Init
    <3>2. Pending \in Seq(Lines) /\ Len(Pending) = 0
      BY <3>1, PendingIsASequence
    <3>3. QED
      BY <3>2, LenProperties
  <2>4. QED
    BY <2>1, <2>2, <2>3 DEF DaysKept
<1>3. Shape /\ DaysKept /\ [Next]_vars => Shape' /\ DaysKept'
  BY ShapeStep, DaysStep
<1>4. QED
  BY <1>1, <1>2, <1>3, ShapeInit, PTL DEF Spec, SafeSpec

-------------------------------------------------------------------------------
(* The log implements LineLog *)

WrittenLines == [i \in DOMAIN Output |-> Output[i].line]

(* An entry more is a line more. *)
LEMMA OneMoreLine ==
  ASSUME Shape, NEW e \in Entries, Output' = Append(Output, e)
  PROVE  WrittenLines' = Append(WrittenLines, e.line)
<1>1. Output \in Seq(Entries) /\ Len(Output) \in Nat /\ DOMAIN Output = 1 .. Len(Output)
  BY ShapeIsTyped, LenProperties
<1>2. Output' \in Seq(Entries) /\ DOMAIN Output' = 1 .. Len(Output) + 1
      /\ (\A i \in 1 .. Len(Output) : Output'[i] = Output[i]) /\ Output'[Len(Output) + 1] = e
  BY <1>1, AppendProperties, LenProperties
<1>3. \A i \in 1 .. Len(Output) : Output[i] \in Entries
  BY <1>1, ElementOfSeq
<1>4. \A i \in 1 .. Len(Output) + 1 : Output'[i] \in Entries
  BY <1>2, ElementOfSeq, LenProperties
<1>5. WrittenLines \in Seq(Lines) /\ Len(WrittenLines) = Len(Output)
  <2>1. WrittenLines \in [1 .. Len(Output) -> Lines]
    BY <1>1, <1>3 DEF WrittenLines, Entries
  <2>2. QED
    BY <1>1, <2>1, SeqDef, LenProperties
<1>6. WrittenLines' \in Seq(Lines) /\ Len(WrittenLines') = Len(Output) + 1
  <2>1. WrittenLines' = [i \in 1 .. Len(Output) + 1 |-> Output'[i].line]
    BY <1>2 DEF WrittenLines
  <2>2. WrittenLines' \in [1 .. Len(Output) + 1 -> Lines]
    BY <1>4, <2>1 DEF Entries
  <2>3. Len(Output) + 1 \in Nat
    BY <1>1
  <2>4. QED
    BY <2>2, <2>3, SeqDef, LenProperties
<1>7. /\ \A i \in 1 .. Len(Output) : WrittenLines'[i] = WrittenLines[i]
      /\ WrittenLines'[Len(Output) + 1] = e.line
  BY <1>1, <1>2 DEF WrittenLines
<1>8. e.line \in Lines
  BY DEF Entries
<1>9. QED
  BY <1>5, <1>6, <1>7, <1>8, AppendIs

(* The lines LineLog calls seen are those the proofs above do. *)
LEMMA SameSeen == Abstract!Seen = Seen
  BY DEF Abstract!Seen, Seen, Pending

(* Every step of the log is a step of LineLog or none. *)
LEMMA StepSimulation ==
  ASSUME OrderInv, [Next]_vars
  PROVE  [Abstract!Next]_(Abstract!vars)
<1>1. Shape /\ AllCounted /\ Pending \in Seq(Lines) /\ Len(Pending) \in Nat /\ MaxQueue \in Nat
  BY PendingIsASequence, LenProperties, LogAssumption DEF OrderInv
<1>2. CASE Quiet
  BY <1>2 DEF Quiet, Abstract!vars, Pending, WrittenLines
<1>3. CASE Drains
  <2>1. Head(Pending) \in Lines /\ Pending # <<>>
    BY <1>1, <1>3, TailElements DEF Drains
  <2> DEFINE e == Written(Head(Pending), "writer")
  <2>2. e \in Entries /\ e.line = Head(Pending)
    BY <1>1, <2>1 DEF Written, Entries, Shape, FilesOK
  <2> HIDE DEF e
  <2>3. WrittenLines' = Append(WrittenLines, Head(Pending))
    BY <1>1, <1>3, <2>2, OneMoreLine DEF Drains, e
  <2>4. Pending' = Tail(Pending) /\ refused' = refused
    BY <1>3 DEF Drains
  <2>5. Abstract!Drain
    BY <2>1, <2>3, <2>4 DEF Abstract!Drain, Pending, WrittenLines
  <2>6. QED
    BY <2>5 DEF Abstract!Next
<1>4. ASSUME NEW t \in Threads, Queues(t) PROVE Abstract!Next
  <2>1. Line(t) \in Lines /\ Line(t) \notin Seen
    BY <1>1, <1>4, OwnLineIsNew DEF Queues
  <2>2. Pending' = Append(Pending, Line(t)) /\ Len(Pending) < MaxQueue + 1
        /\ Output' = Output /\ refused' = refused
    BY <1>4 DEF Queues
  <2>3. Abstract!Queue(Line(t))
    BY <2>1, <2>2, SameSeen DEF Abstract!Queue, Pending
  <2>4. QED
    BY <2>1, <2>3 DEF Abstract!Next
<1>5. ASSUME NEW t \in Threads, GivesUp(t) PROVE Abstract!Next
  <2>1. Line(t) \in Lines /\ Line(t) \notin Seen
    BY <1>1, <1>5, OwnLineIsNew DEF GivesUp
  <2>2. Pending' = Pending /\ Len(Pending) >= MaxQueue
        /\ Output' = Output /\ refused' = refused \cup {Line(t)}
    BY <1>5 DEF GivesUp
  <2>3. Len(Pending) >= (MaxQueue + 1) - 1
    BY <1>1, <2>2
  <2>4. Abstract!GiveUp(Line(t))
    BY <2>1, <2>2, <2>3, SameSeen DEF Abstract!GiveUp, Pending
  <2>5. QED
    BY <2>1, <2>4 DEF Abstract!Next
<1>6. ASSUME NEW t \in Threads, WritesThrough(t) PROVE Abstract!Next
  <2>1. Line(t) \in Lines /\ Line(t) \notin Seen
    BY <1>1, <1>6, OwnLineIsNew DEF WritesThrough
  <2> DEFINE e == Written(Line(t), "caller")
  <2>2. e \in Entries /\ e.line = Line(t)
    BY <1>1, <2>1 DEF Written, Entries, Shape, FilesOK
  <2> HIDE DEF e
  <2>3. WrittenLines' = Append(WrittenLines, Line(t))
    BY <1>1, <1>6, <2>2, OneMoreLine DEF WritesThrough, e
  <2>4. Pending' = Pending /\ refused' = refused
    BY <1>6 DEF WritesThrough
  <2>5. Abstract!WriteThrough(Line(t))
    BY <2>1, <2>3, <2>4, SameSeen DEF Abstract!WriteThrough, Pending, WrittenLines
  <2>6. QED
    BY <2>1, <2>5, Zenon DEF Abstract!Next, Abstract!WriteThrough
<1>7. CASE Abstract!Next
  BY <1>7
<1>8. QED
  BY <1>1, <1>2, <1>3, <1>4, <1>5, <1>6, <1>7, Effects

(* The ring buffer, the two ways of write_log() and the writer thread do   *)
(* what LineLog promises: lines are written first-in first-out, each once, *)
(* none is lost but those push() refuses when the queue is full.  (That    *)
(* the writer does not wait for ever is left to TLC.)                      *)
THEOREM LogImplementsLineLog == Spec => Abstract!SafeSpec
<1>1. Init => Abstract!Init
  <2> SUFFICES ASSUME Init PROVE Abstract!Init
    OBVIOUS
  <2>1. Output = <<>> /\ refused = {}
    BY DEF Init, Output
  <2>2. Pending = <<>>
    <3>1. Shape /\ m_size = 0 /\ single_log = None
      BY ShapeInit DEF Init
    <3>2. Pending \in Seq(Lines) /\ Len(Pending) = 0
      BY <3>1, PendingIsASequence
    <3>3. QED
      BY <3>2, EmptySeq
  <2>3. [i \in DOMAIN Output |-> Output[i].line] = <<>>
    BY <2>1
  <2>4. QED
    BY <2>1, <2>2, <2>3 DEF Abstract!Init, Pending
<1>2. OrderInv /\ [Next]_vars => [Abstract!Next]_(Abstract!vars)
  BY StepSimulation
<1>3. QED
  BY <1>1, <1>2, OrderInit, OrderStep, PTL DEF Spec, SafeSpec, Abstract!SafeSpec

===============================================================================
