------------------------------ MODULE ThreadPool ------------------------------
(***************************************************************************)
(* threadpool<T> of process_thread_pool/threadpool.h with the locker and   *)
(* sem wrappers of locker/locker.h.                                        *)
(*                                                                         *)
(* append() and append_p() push under m_queuelocker and post m_queuestat   *)
(* after they released it; run() waits on m_queuestat, locks, tests for an *)
(* empty queue, pops, unlocks and calls process().  Each of these is one   *)
(* step here, so every interleaving of producers and workers is explored.  *)
(*                                                                         *)
(* append() also stores its argument in request->m_state.  No function     *)
(* reads m_state, so the two entry points are one operation here.          *)
(*                                                                         *)
(* sem::wait() returns false when a signal handler interrupts sem_wait     *)
(* (SIGALRM and SIGTERM are installed without SA_RESTART and no thread     *)
(* blocks them) and run() ignores the result: WaitInterrupted.             *)
(***************************************************************************)
EXTENDS Naturals, Sequences, FiniteSets

CONSTANTS Producers,      \* threads that call append; the server has one
          Workers,        \* threads that execute run()
          Requests,       \* request objects, never a null pointer
          MaxRequests,    \* m_max_requests
          MaxInterrupts,  \* bound: interrupted waits in a behaviour
          NoThread,       \* m_queuelocker is free
          NoRequest       \* a thread holds no request

ASSUME PoolAssumption ==
    /\ IsFiniteSet(Producers) /\ IsFiniteSet(Workers)
    /\ Producers \cap Workers = {}
    /\ MaxRequests \in Nat \ {0}
    /\ MaxInterrupts \in Nat
    /\ NoThread \notin Producers \cup Workers
    /\ NoRequest \notin Requests

VARIABLES workqueue,    \* m_workqueue
          queuelocker,  \* owner of m_queuelocker
          queuestat,    \* value of the semaphore m_queuestat
          pc,           \* where each thread stands
          request,      \* append's argument, or run()'s local variable
          interrupts    \* interrupted waits so far

vars == <<workqueue, queuelocker, queuestat, pc, request, interrupts>>

Threads == Producers \cup Workers

ProducerPC == {"idle", "append", "pushed", "post"}
WorkerPC   == {"wait", "lock", "check", "popped", "process"}

Init ==
    /\ workqueue = <<>>
    /\ queuelocker = NoThread
    /\ queuestat = 0
    /\ pc = [t \in Threads |-> IF t \in Workers THEN "wait" ELSE "idle"]
    /\ request = [t \in Threads |-> NoRequest]
    /\ interrupts = 0

(* locker::lock(): blocks until the mutex is free. *)
Lock(t, from, to) ==
    /\ pc[t] = from
    /\ queuelocker = NoThread
    /\ queuelocker' = t
    /\ pc' = [pc EXCEPT ![t] = to]

(* locker::unlock() *)
Unlock(t, from, to) ==
    /\ pc[t] = from
    /\ queuelocker' = NoThread
    /\ pc' = [pc EXCEPT ![t] = to]

-------------------------------------------------------------------------------
(* Plausible bugs, each a variant of the operation below it is named after; *)
(* none of them is part of the specification.                              *)

AppendFull_Posts(p) ==          \* posts although nothing was queued
    /\ Len(workqueue) >= MaxRequests
    /\ Unlock(p, "append", "idle")
    /\ request' = [request EXCEPT ![p] = NoRequest]
    /\ queuestat' = queuestat + 1
    /\ UNCHANGED <<workqueue, interrupts>>

AppendPush_OffByOne(p) ==       \* > instead of >= in the test of the size
    /\ pc[p] = "append"
    /\ Len(workqueue) <= MaxRequests
    /\ workqueue' = Append(workqueue, request[p])
    /\ pc' = [pc EXCEPT ![p] = "pushed"]
    /\ UNCHANGED <<queuelocker, queuestat, request, interrupts>>

AppendPost_Forgotten(p) ==      \* returns without the post
    /\ pc[p] = "post"
    /\ pc' = [pc EXCEPT ![p] = "idle"]
    /\ request' = [request EXCEPT ![p] = NoRequest]
    /\ UNCHANGED <<workqueue, queuelocker, queuestat, interrupts>>

RunEmpty_KeepsLock(w) ==        \* continue without the unlock
    /\ pc[w] = "check"
    /\ workqueue = <<>>
    /\ pc' = [pc EXCEPT ![w] = "wait"]
    /\ UNCHANGED <<workqueue, queuelocker, queuestat, request, interrupts>>

RunPop_FrontOnly(w) ==          \* front() without pop_front()
    /\ pc[w] = "check"
    /\ workqueue # <<>>
    /\ request' = [request EXCEPT ![w] = Head(workqueue)]
    /\ pc' = [pc EXCEPT ![w] = "popped"]
    /\ UNCHANGED <<workqueue, queuelocker, queuestat, interrupts>>

-------------------------------------------------------------------------------
(* append(request, state) and append_p(request) *)

AppendLock(p, r) ==
    /\ Lock(p, "idle", "append")
    /\ request' = [request EXCEPT ![p] = r]
    /\ UNCHANGED <<workqueue, queuestat, interrupts>>

(* The queue is full: unlock and return false. *)
AppendFull(p) ==
    /\ Len(workqueue) >= MaxRequests
    /\ Unlock(p, "append", "idle")
    /\ request' = [request EXCEPT ![p] = NoRequest]
    /\ UNCHANGED <<workqueue, queuestat, interrupts>>

AppendPush(p) ==
    /\ pc[p] = "append"
    /\ Len(workqueue) < MaxRequests
    /\ workqueue' = Append(workqueue, request[p])
    /\ pc' = [pc EXCEPT ![p] = "pushed"]
    /\ UNCHANGED <<queuelocker, queuestat, request, interrupts>>

AppendUnlock(p) ==
    /\ Unlock(p, "pushed", "post")
    /\ UNCHANGED <<workqueue, queuestat, request, interrupts>>

(* sem::post() and return true. *)
AppendPost(p) ==
    /\ pc[p] = "post"
    /\ queuestat' = queuestat + 1
    /\ pc' = [pc EXCEPT ![p] = "idle"]
    /\ request' = [request EXCEPT ![p] = NoRequest]
    /\ UNCHANGED <<workqueue, queuelocker, interrupts>>

-------------------------------------------------------------------------------
(* run() *)

Wait(w) ==
    /\ pc[w] = "wait"
    /\ queuestat > 0
    /\ queuestat' = queuestat - 1
    /\ pc' = [pc EXCEPT ![w] = "lock"]
    /\ UNCHANGED <<workqueue, queuelocker, request, interrupts>>

(* sem_wait fails with EINTR: the worker goes on without having taken a   *)
(* unit of the semaphore.                                                  *)
WaitInterrupted(w) ==
    /\ pc[w] = "wait"
    /\ interrupts < MaxInterrupts
    /\ interrupts' = interrupts + 1
    /\ pc' = [pc EXCEPT ![w] = "lock"]
    /\ UNCHANGED <<workqueue, queuelocker, queuestat, request>>

RunLock(w) ==
    /\ Lock(w, "lock", "check")
    /\ UNCHANGED <<workqueue, queuestat, request, interrupts>>

(* m_workqueue.empty(): unlock and continue. *)
RunEmpty(w) ==
    /\ workqueue = <<>>
    /\ Unlock(w, "check", "wait")
    /\ UNCHANGED <<workqueue, queuestat, request, interrupts>>

RunPop(w) ==
    /\ pc[w] = "check"
    /\ workqueue # <<>>
    /\ request' = [request EXCEPT ![w] = Head(workqueue)]
    /\ workqueue' = Tail(workqueue)
    /\ pc' = [pc EXCEPT ![w] = "popped"]
    /\ UNCHANGED <<queuelocker, queuestat, interrupts>>

RunUnlock(w) ==
    /\ Unlock(w, "popped", "process")
    /\ UNCHANGED <<workqueue, queuestat, request, interrupts>>

(* request->process() returns. *)
RunProcess(w) ==
    /\ pc[w] = "process"
    /\ pc' = [pc EXCEPT ![w] = "wait"]
    /\ request' = [request EXCEPT ![w] = NoRequest]
    /\ UNCHANGED <<workqueue, queuelocker, queuestat, interrupts>>

-------------------------------------------------------------------------------
ProducerStep(p) ==
    \/ \E r \in Requests : AppendLock(p, r)
    \/ AppendFull(p) \/ AppendPush(p) \/ AppendUnlock(p) \/ AppendPost(p)

WorkerStep(w) ==
    \/ Wait(w) \/ WaitInterrupted(w) \/ RunLock(w)
    \/ RunEmpty(w) \/ RunPop(w) \/ RunUnlock(w) \/ RunProcess(w)

Next ==
    \/ \E p \in Producers : ProducerStep(p)
    \/ \E w \in Workers : WorkerStep(w)

SafeSpec == Init /\ [][Next]_vars

(* A thread that can run runs; a caller that entered append leaves it, but *)
(* nobody is obliged to call append.  A worker contends for m_queuelocker  *)
(* with producers that may take it again and again, so weak fairness would *)
(* let it starve: the mutex is assumed to admit a waiter that finds it     *)
(* free infinitely often.                                                  *)
Fairness ==
    /\ \A p \in Producers :
          WF_vars(AppendFull(p) \/ AppendPush(p) \/ AppendUnlock(p) \/ AppendPost(p))
    /\ \A w \in Workers :
          /\ WF_vars(Wait(w))
          /\ SF_vars(RunLock(w))
          /\ WF_vars(RunEmpty(w) \/ RunPop(w) \/ RunUnlock(w) \/ RunProcess(w))

Spec == SafeSpec /\ Fairness

-------------------------------------------------------------------------------
(* Type invariant: the queue of threadpool never outgrows m_max_requests   *)
(* and every thread is at a point of append() or run().                    *)
TypeOK ==
    /\ workqueue \in Seq(Requests)
    /\ Len(workqueue) <= MaxRequests
    /\ queuelocker \in Threads \cup {NoThread}
    /\ queuestat \in Nat
    /\ pc \in [Threads -> ProducerPC \cup WorkerPC]
    /\ \A p \in Producers : pc[p] \in ProducerPC
    /\ \A w \in Workers : pc[w] \in WorkerPC
    /\ request \in [Threads -> Requests \cup {NoRequest}]
    /\ interrupts \in 0 .. MaxInterrupts

InCriticalSection(t) == pc[t] \in {"append", "pushed", "check", "popped"}

(* Between lock() and unlock() a thread of append() or run() owns          *)
(* m_queuelocker, so the list is never touched by two threads at once.     *)
QueueGuarded == \A t \in Threads : InCriticalSection(t) <=> queuelocker = t

(* Workers that came back from sem::wait() and have not popped yet. *)
Awake == {w \in Workers : pc[w] \in {"lock", "check"}}

(* Callers of append() between push_back and post. *)
Announcing == {p \in Producers : pc[p] \in {"pushed", "post"}}

(* append() and run() never lose a wake-up: for every queued request there *)
(* is a unit in m_queuestat, a worker on its way to the queue, or a        *)
(* producer about to post.  Interrupted waits may add wake-ups but never   *)
(* use one up without emptying the queue.                                  *)
NoLostWakeup ==
    Len(workqueue) <= queuestat + Cardinality(Awake) + Cardinality(Announcing)

(* The empty() test of run() is there for interrupted waits only: without  *)
(* one, a worker that holds the lock finds a request.                      *)
EmptyOnlyAfterInterrupt ==
    \A w \in Workers : pc[w] = "check" /\ workqueue = <<>> => interrupts > 0

(* The inductive strengthening the proofs use.  A thread of append() holds *)
(* the request it was given, a worker holds one from the pop until         *)
(* process() returned, and neither holds one otherwise.                    *)
HoldsRequest ==
    /\ \A p \in Producers : pc[p] # "idle" => request[p] \in Requests
    /\ \A w \in Workers :
          /\ pc[w] \in {"popped", "process"} => request[w] \in Requests
          /\ pc[w] \in {"wait", "lock", "check"} => request[w] = NoRequest

(* There is never more wake-up under way than queued requests and          *)
(* interrupted waits account for.                                          *)
WakeupsAccountedFor ==
    queuestat + Cardinality(Awake) + Cardinality(Announcing)
        <= Len(workqueue) + interrupts

Inv ==
    /\ TypeOK /\ HoldsRequest /\ QueueGuarded
    /\ NoLostWakeup /\ WakeupsAccountedFor

(* The pool implements the bounded FIFO hand-over of TaskPool, liveness    *)
(* included: accepted requests are executed once, in order, eventually.    *)
Abstract == INSTANCE TaskPool
    WITH pending <- workqueue,
         running <- [w \in Workers |-> request[w]]

ImplementsTaskPool == Abstract!Spec
===============================================================================
