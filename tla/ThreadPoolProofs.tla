--------------------------- MODULE ThreadPoolProofs ---------------------------
(***************************************************************************)
(* Theorems about ThreadPool, for every number of producers, workers and   *)
(* requests, every queue capacity and any number of interrupted waits.     *)
(* They follow from the inductive invariant Inv of ThreadPool.  The last   *)
(* theorems are about the connection pool and the process pool that        *)
(* MCThreadPool runs beside it.                                            *)
(***************************************************************************)
EXTENDS MCThreadPool, FiniteSetTheorems, TLAPS

(* Types, lock ownership and the request a thread holds need no counting,  *)
(* so they are one inductive invariant of their own.                       *)
Shape == TypeOK /\ HoldsRequest /\ QueueGuarded

(* The constructor of threadpool leaves the pool well formed. *)
LEMMA ShapeInit == Init => Shape
  BY PoolAssumption
     DEF Init, Shape, TypeOK, HoldsRequest, QueueGuarded, InCriticalSection,
         Threads, ProducerPC, WorkerPC

(* A step of append() keeps the pool well formed. *)
LEMMA ShapeProducer ==
  ASSUME Shape, NEW p \in Producers, ProducerStep(p)
  PROVE  Shape'
<1> USE PoolAssumption
        DEF Shape, TypeOK, HoldsRequest, QueueGuarded, InCriticalSection,
            Threads, ProducerPC, WorkerPC, Lock, Unlock
<1>1. CASE \E r \in Requests : AppendLock(p, r)
  BY <1>1 DEF AppendLock
<1>2. CASE AppendFull(p)
  BY <1>2 DEF AppendFull
<1>3. CASE AppendPush(p)
  BY <1>3 DEF AppendPush
<1>4. CASE AppendUnlock(p)
  BY <1>4 DEF AppendUnlock
<1>5. CASE AppendPost(p)
  BY <1>5 DEF AppendPost
<1>6. QED
  BY <1>1, <1>2, <1>3, <1>4, <1>5 DEF ProducerStep

(* A step of run() keeps the pool well formed. *)
LEMMA ShapeWorker ==
  ASSUME Shape, NEW w \in Workers, WorkerStep(w)
  PROVE  Shape'
<1> USE PoolAssumption
        DEF Shape, TypeOK, HoldsRequest, QueueGuarded, InCriticalSection,
            Threads, ProducerPC, WorkerPC, Lock, Unlock
<1>1. CASE Wait(w)
  BY <1>1 DEF Wait
<1>2. CASE WaitInterrupted(w)
  BY <1>2 DEF WaitInterrupted
<1>3. CASE RunLock(w)
  BY <1>3 DEF RunLock
<1>4. CASE RunEmpty(w)
  BY <1>4 DEF RunEmpty
<1>5. CASE RunPop(w)
  BY <1>5 DEF RunPop
<1>6. CASE RunUnlock(w)
  BY <1>6 DEF RunUnlock
<1>7. CASE RunProcess(w)
  BY <1>7 DEF RunProcess
<1>8. QED
  BY <1>1, <1>2, <1>3, <1>4, <1>5, <1>6, <1>7 DEF WorkerStep

(* Every step of the pool, and a stuttering one, keeps it well formed. *)
LEMMA ShapeStep == Shape /\ [Next]_vars => Shape'
<1> SUFFICES ASSUME Shape, [Next]_vars PROVE Shape'
  OBVIOUS
<1>1. CASE \E p \in Producers : ProducerStep(p)
  BY <1>1, ShapeProducer
<1>2. CASE \E w \in Workers : WorkerStep(w)
  BY <1>2, ShapeWorker
<1>3. CASE UNCHANGED vars
  BY <1>3 DEF vars, Shape, TypeOK, HoldsRequest, QueueGuarded, InCriticalSection
<1>4. QED
  BY <1>1, <1>2, <1>3 DEF Next

(* The program counters, the mutex and the queue of the thread pool keep   *)
(* their types and fit together.                                           *)
THEOREM ShapeInvariant == SafeSpec => []Shape
  BY ShapeInit, ShapeStep, PTL DEF SafeSpec

-------------------------------------------------------------------------------
(* Counting the wake-ups *)

Counted == NoLostWakeup /\ WakeupsAccountedFor

(* The threads NoLostWakeup counts are finitely many. *)
LEMMA CountsAreNumbers ==
  /\ IsFiniteSet(Awake)      /\ Cardinality(Awake) \in Nat
  /\ IsFiniteSet(Announcing) /\ Cardinality(Announcing) \in Nat
<1>1. Awake \in SUBSET Workers /\ Announcing \in SUBSET Producers
  BY DEF Awake, Announcing
<1>2. IsFiniteSet(Awake) /\ IsFiniteSet(Announcing)
  BY <1>1, FS_Subset, PoolAssumption
<1>3. QED
  BY <1>2, FS_CardinalityType

(* An empty pool has no wake-up under way. *)
LEMMA CountedInit == Init => Counted
<1> SUFFICES ASSUME Init PROVE Counted
  OBVIOUS
<1>1. Awake = {} /\ Announcing = {}
  BY PoolAssumption DEF Init, Awake, Announcing, Threads
<1>2. Cardinality(Awake) = 0 /\ Cardinality(Announcing) = 0
  BY <1>1, FS_EmptySet
<1>3. QED
  BY <1>2 DEF Init, Counted, NoLostWakeup, WakeupsAccountedFor

(* In append() the push makes the caller an announcer, and the post turns  *)
(* the announcement into a unit of m_queuestat.                            *)
LEMMA CountedProducer ==
  ASSUME Shape, Counted, NEW p \in Producers, ProducerStep(p)
  PROVE  Counted'
<1> USE PoolAssumption
        DEF Shape, TypeOK, Threads, Counted, NoLostWakeup, WakeupsAccountedFor
<1>a. /\ IsFiniteSet(Announcing)
      /\ Cardinality(Announcing) \in Nat /\ Cardinality(Awake) \in Nat
  BY CountsAreNumbers
<1>b. ASSUME pc' = [pc EXCEPT ![p] = pc'[p]]
      PROVE  Awake' = Awake
  BY <1>b DEF Awake
<1>1. CASE \E r \in Requests : AppendLock(p, r)
  <2>1. Awake' = Awake
    BY <1>1, <1>b DEF AppendLock, Lock
  <2>2. Announcing' = Announcing
    BY <1>1 DEF AppendLock, Lock, Announcing
  <2>3. QED
    BY <1>1, <2>1, <2>2, <1>a DEF AppendLock
<1>2. CASE AppendFull(p)
  <2>1. Awake' = Awake
    BY <1>2, <1>b DEF AppendFull, Unlock
  <2>2. Announcing' = Announcing
    BY <1>2 DEF AppendFull, Unlock, Announcing
  <2>3. QED
    BY <1>2, <2>1, <2>2, <1>a DEF AppendFull
<1>3. CASE AppendPush(p)
  <2>1. Awake' = Awake
    BY <1>3, <1>b DEF AppendPush
  <2>2. Announcing' = Announcing \cup {p} /\ p \notin Announcing
    BY <1>3 DEF AppendPush, Announcing
  <2>3. Cardinality(Announcing') = Cardinality(Announcing) + 1
    BY <2>2, <1>a, FS_AddElement
  <2>4. Len(workqueue') = Len(workqueue) + 1
    BY <1>3 DEF AppendPush
  <2>5. QED
    BY <1>3, <2>1, <2>3, <2>4, <1>a DEF AppendPush
<1>4. CASE AppendUnlock(p)
  <2>1. Awake' = Awake
    BY <1>4, <1>b DEF AppendUnlock, Unlock
  <2>2. Announcing' = Announcing
    BY <1>4 DEF AppendUnlock, Unlock, Announcing
  <2>3. QED
    BY <1>4, <2>1, <2>2, <1>a DEF AppendUnlock
<1>5. CASE AppendPost(p)
  <2>1. Awake' = Awake
    BY <1>5, <1>b DEF AppendPost
  <2>2. Announcing' = Announcing \ {p} /\ p \in Announcing
    BY <1>5 DEF AppendPost, Announcing
  <2>3. Cardinality(Announcing') = Cardinality(Announcing) - 1
    BY <2>2, <1>a, FS_RemoveElement
  <2>4. QED
    BY <1>5, <2>1, <2>3, <1>a DEF AppendPost
<1>6. QED
  BY <1>1, <1>2, <1>3, <1>4, <1>5 DEF ProducerStep

(* In run() the wait turns a unit of m_queuestat, or an interrupted wait,  *)
(* into an awake worker, and the pop turns that into one request less.     *)
LEMMA CountedWorker ==
  ASSUME Shape, Counted, NEW w \in Workers, WorkerStep(w)
  PROVE  Counted'
<1> USE PoolAssumption
        DEF Shape, TypeOK, Threads, Counted, NoLostWakeup, WakeupsAccountedFor
<1>a. /\ IsFiniteSet(Awake)
      /\ Cardinality(Announcing) \in Nat /\ Cardinality(Awake) \in Nat
  BY CountsAreNumbers
<1>b. ASSUME pc' = [pc EXCEPT ![w] = pc'[w]]
      PROVE  Announcing' = Announcing
  BY <1>b DEF Announcing
<1>c. ASSUME pc' = [pc EXCEPT ![w] = "lock"], pc[w] = "wait"
      PROVE  Cardinality(Awake') = Cardinality(Awake) + 1
  <2>1. Awake' = Awake \cup {w} /\ w \notin Awake
    BY <1>c DEF Awake
  <2>2. QED
    BY <2>1, <1>a, FS_AddElement
<1>d. ASSUME pc' = [pc EXCEPT ![w] = pc'[w]],
             pc[w] = "check", pc'[w] \in {"wait", "popped"}
      PROVE  Cardinality(Awake') = Cardinality(Awake) - 1
  <2>1. Awake' = Awake \ {w} /\ w \in Awake
    BY <1>d DEF Awake
  <2>2. QED
    BY <2>1, <1>a, FS_RemoveElement
<1>1. CASE Wait(w)
  BY <1>1, <1>a, <1>b, <1>c DEF Wait
<1>2. CASE WaitInterrupted(w)
  BY <1>2, <1>a, <1>b, <1>c DEF WaitInterrupted
<1>3. CASE RunLock(w)
  <2>1. Awake' = Awake
    BY <1>3 DEF RunLock, Lock, Awake
  <2>2. QED
    BY <1>3, <2>1, <1>a, <1>b DEF RunLock, Lock
<1>4. CASE RunEmpty(w)
  <2>1. Announcing' = Announcing
    BY <1>4, <1>b DEF RunEmpty, Unlock
  <2>2. Cardinality(Awake') = Cardinality(Awake) - 1
    BY <1>4, <1>d DEF RunEmpty, Unlock
  <2>3. Len(workqueue) = 0
    BY <1>4 DEF RunEmpty
  <2>4. Cardinality(Awake) # 0
    BY <1>4, <1>a, FS_EmptySet DEF RunEmpty, Unlock, Awake
  <2>5. QED
    BY <1>4, <2>1, <2>2, <2>3, <2>4, <1>a DEF RunEmpty
<1>5. CASE RunPop(w)
  <2>1. Len(workqueue') = Len(workqueue) - 1
    BY <1>5 DEF RunPop
  <2>2. QED
    BY <1>5, <2>1, <1>a, <1>b, <1>d DEF RunPop
<1>6. CASE RunUnlock(w)
  <2>1. Awake' = Awake
    BY <1>6 DEF RunUnlock, Unlock, Awake
  <2>2. QED
    BY <1>6, <2>1, <1>a, <1>b DEF RunUnlock, Unlock
<1>7. CASE RunProcess(w)
  <2>1. Awake' = Awake
    BY <1>7 DEF RunProcess, Awake
  <2>2. QED
    BY <1>7, <2>1, <1>a, <1>b DEF RunProcess
<1>8. QED
  BY <1>1, <1>2, <1>3, <1>4, <1>5, <1>6, <1>7 DEF WorkerStep

(* append() and run() keep both bounds. *)
LEMMA CountedStep == Shape /\ Counted /\ [Next]_vars => Counted'
<1> SUFFICES ASSUME Shape, Counted, [Next]_vars PROVE Counted'
  OBVIOUS
<1>1. CASE \E p \in Producers : ProducerStep(p)
  BY <1>1, CountedProducer
<1>2. CASE \E w \in Workers : WorkerStep(w)
  BY <1>2, CountedWorker
<1>3. CASE UNCHANGED vars
  BY <1>3
     DEF vars, Counted, NoLostWakeup, WakeupsAccountedFor, Awake, Announcing
<1>4. QED
  BY <1>1, <1>2, <1>3 DEF Next

-------------------------------------------------------------------------------
(* The inductive invariant and the invariants the runs check *)

(* Inv of ThreadPool holds in every state of the pool. *)
THEOREM InvInvariant == SafeSpec => []Inv
<1>1. Init => Shape /\ Counted
  BY ShapeInit, CountedInit
<1>2. (Shape /\ Counted) /\ [Next]_vars => (Shape /\ Counted)'
  BY ShapeStep, CountedStep
<1>3. Shape /\ Counted => Inv
  BY DEF Shape, Counted, Inv
<1>4. QED
  BY <1>1, <1>2, <1>3, PTL DEF SafeSpec

(* The request queue stays within m_max_requests, and every thread is at a *)
(* point of append() or run() with a request that fits it.                 *)
THEOREM TypeCorrect == SafeSpec => []TypeOK
<1>1. Inv => TypeOK
  BY DEF Inv
<1>2. QED
  BY <1>1, InvInvariant, PTL

(* m_workqueue is only touched by the owner of m_queuelocker. *)
THEOREM MutualExclusion == SafeSpec => []QueueGuarded
<1>1. Inv => QueueGuarded
  BY DEF Inv
<1>2. QED
  BY <1>1, InvInvariant, PTL

(* A request that append() accepted is never left in the queue with nobody *)
(* on the way to it.                                                       *)
THEOREM WakeupsAreNotLost == SafeSpec => []NoLostWakeup
<1>1. Inv => NoLostWakeup
  BY DEF Inv
<1>2. QED
  BY <1>1, InvInvariant, PTL

(* The queue is found empty under the lock only if a wait was interrupted. *)
THEOREM EmptyNeedsInterrupt == SafeSpec => []EmptyOnlyAfterInterrupt
<1>1. ASSUME Inv, NEW w \in Workers, pc[w] = "check", workqueue = <<>>
      PROVE  interrupts > 0
  <2>1. w \in Awake
    BY <1>1 DEF Awake
  <2>2. Cardinality(Awake) # 0
    BY <2>1, CountsAreNumbers, FS_EmptySet
  <2>3. Len(workqueue) = 0
    BY <1>1
  <2>4. QED
    BY <1>1, <2>2, <2>3, CountsAreNumbers, PoolAssumption
       DEF Inv, TypeOK, WakeupsAccountedFor
<1>2. Inv => EmptyOnlyAfterInterrupt
  BY <1>1 DEF EmptyOnlyAfterInterrupt
<1>3. QED
  BY <1>2, InvInvariant, PTL

-------------------------------------------------------------------------------
(* The pool implements TaskPool *)

(* The empty pool is TaskPool's. *)
LEMMA AbstractInit == Init => Abstract!Init
  BY PoolAssumption DEF Init, Abstract!Init, Threads

(* The push is the abstract Submit, the pop is Take, the return of         *)
(* process() is Finish, and nothing else is visible.                       *)
LEMMA AbstractStep == Shape /\ [Next]_vars => [Abstract!Next]_(Abstract!vars)
<1> SUFFICES ASSUME Shape, [Next]_vars
             PROVE  [Abstract!Next]_(Abstract!vars)
  OBVIOUS
<1> USE PoolAssumption DEF Shape, TypeOK, HoldsRequest, Threads
<1>2. ASSUME NEW p \in Producers, ProducerStep(p)
      PROVE  [Abstract!Next]_(Abstract!vars)
  <2>1. CASE AppendPush(p)
    <3>1. request[p] \in Requests
      BY <2>1 DEF AppendPush
    <3>2. Abstract!Submit(request[p])
      BY <2>1 DEF AppendPush, Abstract!Submit
    <3>3. QED
      BY <3>1, <3>2 DEF Abstract!Next
  <2>2. CASE ~AppendPush(p)
    BY <1>2, <2>2 DEF ProducerStep, AppendLock, AppendFull, AppendUnlock,
                      AppendPost, Lock, Unlock, Abstract!vars
  <2>3. QED
    BY <2>1, <2>2
<1>3. ASSUME NEW w \in Workers, WorkerStep(w)
      PROVE  [Abstract!Next]_(Abstract!vars)
  <2>1. CASE RunPop(w)
    <3>1. Abstract!Take(w)
      BY <2>1 DEF RunPop, Abstract!Take
    <3>2. QED
      BY <3>1 DEF Abstract!Next
  <2>2. CASE RunProcess(w)
    <3>1. Abstract!Finish(w)
      BY <2>2 DEF RunProcess, Abstract!Finish
    <3>2. QED
      BY <3>1 DEF Abstract!Next
  <2>3. CASE ~RunPop(w) /\ ~RunProcess(w)
    BY <1>3, <2>3 DEF WorkerStep, Wait, WaitInterrupted, RunLock, RunEmpty,
                      RunUnlock, Lock, Unlock, Abstract!vars
  <2>4. QED
    BY <2>1, <2>2, <2>3
<1>4. CASE UNCHANGED vars
  BY <1>4 DEF vars, Abstract!vars
<1>5. QED
  BY <1>2, <1>3, <1>4 DEF Next

(* Accepted requests are handed over once and in order: every behaviour of *)
(* threadpool is one of TaskPool (its safety part; the liveness part is    *)
(* left to TLC).                                                           *)
THEOREM PoolImplementsTaskPool == SafeSpec => Abstract!SafeSpec
  BY ShapeInvariant, AbstractInit, AbstractStep, PTL
     DEF SafeSpec, Abstract!SafeSpec

-------------------------------------------------------------------------------
(* The connection pool beside it                                           *)

(* What ConnectionPoolProofs proves of connection_pool by itself.          *)
CP == INSTANCE ConnectionPoolProofs

(* Both instances count alike, ...                                         *)
LEMMA SameCounting ==
  /\ \A S : Conn!Cardinality(S) = CP!Cardinality(S)
  /\ \A S : Conn!IsFiniteSet(S) = CP!IsFiniteSet(S)
  BY DEF Conn!Cardinality, CP!Cardinality, Conn!IsFiniteSet, CP!IsFiniteSet

(* ... assume the same of the constants, ...                               *)
LEMMA SameConstants == CP!ConnectionAssumption
  BY MCAssumption, SameCounting DEF Conn!ConnectionAssumption, CP!ConnectionAssumption

(* ... start alike, ...                                                    *)
LEMMA SameStart == Conn!Init => CP!Init
  BY SameCounting DEF Conn!Init, CP!Init

(* ... go the same steps ...                                               *)
LEMMA SameSteps == Conn!Next => CP!Next
  BY DEF Conn!Next, CP!Next, Conn!TestEmpty, CP!TestEmpty, Conn!Wait, CP!Wait,
         Conn!TakeFront, CP!TakeFront, Conn!Release, CP!Release,
         Conn!ReleaseNull, CP!ReleaseNull, Conn!Post, CP!Post

(* ... and promise the same.                                               *)
LEMMA SamePromise == CP!EachHasOneUser => EachHasOneUser
  BY SameCounting, Zenon
     DEF EachHasOneUser, Conn!EachHasOneUser, CP!EachHasOneUser, Conn!InList, CP!InList,
         Conn!At, CP!At

(* A database connection has one user or is in connList, none is lost, and *)
(* the units of reserve never outnumber the list, whatever the order of    *)
(* the threads that construct a connectionRAII.                            *)
THEOREM ConnectionsHaveOneUser == MCSpec => []EachHasOneUser
<1>1. MCInit => CP!Inv
  BY SameConstants, SameStart, CP!InvInit DEF MCInit
<1>2. CP!Inv /\ [MCNext]_allVars => CP!Inv'
  <2> SUFFICES ASSUME CP!Inv, [MCNext]_allVars PROVE CP!Inv'
    OBVIOUS
  <2>1. [CP!Next]_CP!vars
    BY SameSteps DEF MCNext, allVars, connVars, CP!vars
  <2>2. QED
    BY <2>1, SameConstants, CP!InvStep
<1>3. CP!Inv => EachHasOneUser
  BY SamePromise DEF CP!Inv
<1>4. QED
  BY <1>1, <1>2, <1>3, PTL DEF MCSpec

-------------------------------------------------------------------------------
(* The process pool beside them                                            *)

(* What ProcessPoolProofs proves of processpool by itself.                 *)
PP == INSTANCE ProcessPoolProofs WITH pc <- proc

(* Both instances mean the same by the constants, ...                      *)
LEMMA SameProcesses ==
  /\ PP!PoolAssumption
  /\ PP!Children = Processes!Children /\ PP!Procs = Processes!Procs
  /\ PP!Root = Processes!Root /\ PP!Idle = Processes!Idle /\ PP!Loop = Processes!Loop
  /\ PP!Unborn = Processes!Unborn
  BY MCAssumption
     DEF PP!PoolAssumption, Processes!PoolAssumption, PP!Children,
         Processes!Children, PP!Procs, Processes!Procs, PP!Root, Processes!Root,
         PP!Idle, Processes!Idle, PP!Loop, Processes!Loop,
         PP!Unborn, Processes!Unborn

(* ... by what they look at, ...                                           *)
LEMMA SameLooks ==
  ASSUME NEW p
  PROVE  /\ PP!Handles(p) = Processes!Handles(p) /\ PP!AtTest(p) = Processes!AtTest(p)
         /\ PP!Signal(p) = Processes!Signal(p) /\ PP!Told(p) = Processes!Told(p)
         /\ PP!SignalDone(p) = Processes!SignalDone(p)
         /\ PP!KillLoop(p) = Processes!KillLoop(p)
         /\ PP!Following(p) = Processes!Following(p)
<1>1. /\ PP!Handles(p) = Processes!Handles(p) /\ PP!AtTest(p) = Processes!AtTest(p)
      /\ PP!Signal(p) = Processes!Signal(p) /\ PP!Told(p) = Processes!Told(p)
      /\ PP!SignalDone(p) = Processes!SignalDone(p)
  BY DEF PP!Handles, Processes!Handles, PP!AtTest, Processes!AtTest, PP!Signal,
         Processes!Signal, PP!Told, Processes!Told, PP!SignalDone, Processes!SignalDone
<1>2. PP!KillLoop(p) = Processes!KillLoop(p) /\ PP!Following(p) = Processes!Following(p)
  BY SameProcesses DEF PP!KillLoop, Processes!KillLoop, PP!Following, Processes!Following
<1>3. QED
  BY <1>1, <1>2

(* ... by what signals do, ...                                             *)
LEMMA SameSignalled ==
  ASSUME NEW termed, NEW dying, NEW l, Processes!Signalled(termed, dying, l)
  PROVE  PP!Signalled(termed, dying, l)
  BY SameProcesses, Zenon
     DEF PP!Signalled, Processes!Signalled, PP!Handles, Processes!Handles, PP!Root, Processes!Root,
         PP!Procs, Processes!Procs, PP!Children, Processes!Children, PP!Idle, Processes!Idle

(* ... by what a process does, ...                                         *)
LEMMA SameProcess ==
  ASSUME NEW p, Processes!ProcessStep(p)
  PROVE  PP!ProcessStep(p)
<1>1. CASE Processes!Setup(p)
  <2>1. PP!Setup(p)
    BY <1>1, SameProcesses, SameLooks, SameSignalled, Zenon
       DEF PP!Setup, Processes!Setup, PP!outside, Processes!outside
  <2>2. QED
    BY <2>1 DEF PP!ProcessStep
<1>2. CASE Processes!NewConnection(p)
  <2>1. PP!NewConnection(p)
    BY <1>2, SameProcesses, SameLooks, SameSignalled, Zenon
       DEF PP!NewConnection, Processes!NewConnection, PP!outside, Processes!outside
  <2>2. QED
    BY <2>1 DEF PP!ProcessStep
<1>3. CASE Processes!ReadSignals(p)
  <2>1. PP!ReadSignals(p)
    BY <1>3, SameProcesses, SameLooks, SameSignalled, Zenon
       DEF PP!ReadSignals, Processes!ReadSignals, PP!outside, Processes!outside
  <2>2. QED
    BY <2>1 DEF PP!ProcessStep
<1>4. CASE Processes!HandleStop(p)
  <2>1. PP!HandleStop(p)
    BY <1>4, SameProcesses, SameLooks, SameSignalled, Zenon
       DEF PP!HandleStop, Processes!HandleStop, PP!outside, Processes!outside
  <2>2. QED
    BY <2>1 DEF PP!ProcessStep
<1>5. CASE Processes!Exit(p)
  <2>1. PP!Exit(p)
    BY <1>5, SameProcesses, SameLooks, SameSignalled, Zenon
       DEF PP!Exit, Processes!Exit, PP!outside, Processes!outside
  <2>2. QED
    BY <2>1 DEF PP!ProcessStep
<1>6. CASE p = Processes!Root /\ Processes!Fork
  <2>1. PP!Fork
    BY <1>6, SameProcesses, SameLooks, SameSignalled, Zenon
       DEF PP!Fork, Processes!Fork, PP!outside, Processes!outside
  <2>2. QED
    BY <1>6, <2>1, SameProcesses DEF PP!ProcessStep
<1>7. CASE p = Processes!Root /\ Processes!HandleChild
  <2>1. PP!HandleChild
    BY <1>7, SameProcesses, SameLooks, SameSignalled, Zenon
       DEF PP!HandleChild, Processes!HandleChild, PP!Reaped, Processes!Reaped, PP!Cleared, Processes!Cleared, PP!outside, Processes!outside
  <2>2. QED
    BY <1>7, <2>1, SameProcesses DEF PP!ProcessStep
<1>8. QED
  BY <1>1, <1>2, <1>3, <1>4, <1>5, <1>6, <1>7 DEF Processes!ProcessStep

(* ... and go the same steps.                                              *)
LEMMA SameNext == Processes!Next => PP!Next
  BY SameProcesses, SameLooks, SameSignalled, SameProcess
     DEF PP!Next, Processes!Next, PP!ProcessRuns, Processes!ProcessRuns,
         PP!SigHandler, Processes!SigHandler, PP!StopFromOutside,
         Processes!StopFromOutside, PP!Crash, Processes!Crash, PP!Connect,
         Processes!Connect, PP!outside, Processes!outside

(* Processes that rest are as ProcessPoolProofs wants them. *)
LEMMA RestIsFine == ProcessesRest => PP!Inv
<1> SUFFICES ASSUME ProcessesRest PROVE PP!Inv
  OBVIOUS
<1>1. PP!Root \in PP!Procs
  BY SameProcesses, PP!RootIsNoChild
<1>2. /\ proc = [p \in PP!Procs |-> "dead"] /\ stop = [p \in PP!Procs |-> FALSE]
      /\ table = [p \in PP!Procs |-> [i \in PP!Children |-> "-1"]]
      /\ loop = [p \in PP!Procs |-> PP!Idle] /\ pending = [p \in PP!Procs |-> {}]
      /\ zombies = {} /\ missed = {} /\ connections = 0 /\ stops = 0 /\ crashes = 0
  BY SameProcesses DEF ProcessesRest
<1>3. PP!Idle \in PP!Loop
  BY SameProcesses DEF PP!Idle, PP!Loop, PP!Children, PP!PoolAssumption
<1>4. PP!TypeOK
  BY <1>2, <1>3 DEF PP!TypeOK
<1>5. PP!RootKnowsItsChildren /\ PP!RootIsReady /\ PP!ZombiesAreDead /\ PP!StopIsPassedOn
  BY <1>1, <1>2 DEF PP!RootKnowsItsChildren, PP!RootIsReady, PP!ZombiesAreDead, PP!StopIsPassedOn
<1>6. QED
  BY <1>4, <1>5 DEF PP!Inv

(* What ProcessPoolProofs promises holds while threads or connections run. *)
LEMMA ProcessesInv == MCSpec => []PP!Inv
<1>1. MCInit => PP!Inv
  <2>1. Processes!Init => PP!Init
    BY SameProcesses DEF Processes!Init, PP!Init
  <2>2. QED
    BY <2>1, SameProcesses, RestIsFine, PP!InvInit DEF MCInit
<1>2. PP!Inv /\ [MCNext]_allVars => PP!Inv'
  <2> SUFFICES ASSUME PP!Inv, [MCNext]_allVars PROVE PP!Inv'
    OBVIOUS
  <2>1. [PP!Next]_PP!vars
    BY SameNext DEF MCNext, allVars, procVars, PP!vars
  <2>2. QED
    BY <2>1, SameProcesses, PP!InvStep
<1>3. QED
  BY <1>1, <1>2, PTL DEF MCSpec

(* Every process is of the declared types, for any number of children,     *)
(* crashes and signals.                                                    *)
THEOREM ProcessesAreTyped == MCSpec => []ProcessesTypeOK
<1>1. PP!Inv => ProcessesTypeOK
  BY SameProcesses DEF PP!Inv, PP!TypeOK, ProcessesTypeOK, Processes!TypeOK
<1>2. QED
  BY <1>1, ProcessesInv, PTL

(* Root's table names exactly the children it has not waited for: a child  *)
(* that died is there until waitpid() returned it, so kill() never reaches *)
(* a stranger that got its pid.                                            *)
THEOREM TableIsTrue == MCSpec => []RootKnowsItsChildren
<1>1. PP!Inv => RootKnowsItsChildren
  BY SameProcesses
     DEF PP!Inv, PP!RootKnowsItsChildren, RootKnowsItsChildren, Processes!RootKnowsItsChildren
<1>2. QED
  BY <1>1, ProcessesInv, PTL

(* Root leaves its loop only when every child is dead, stops or has SIGTERM *)
(* on its way, whatever was killed or died in between.                     *)
THEOREM NobodyIsLeftBehind == MCSpec => []NoOrphans
<1>1. PP!Inv => PP!NoOrphans
  BY DEF PP!Inv, PP!StopIsPassedOn, PP!NoOrphans
<1>2. PP!NoOrphans => NoOrphans
  BY SameProcesses, SameLooks DEF PP!NoOrphans, NoOrphans, Processes!NoOrphans
<1>3. QED
  BY <1>1, <1>2, ProcessesInv, PTL
===============================================================================
