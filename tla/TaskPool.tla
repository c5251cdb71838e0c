------------------------------- MODULE TaskPool -------------------------------
(***************************************************************************)
(* What threadpool<T> promises its caller (process_thread_pool/threadpool.h):*)
(* a bounded first-in first-out queue of requests and a set of workers.    *)
(* A request that was accepted is handed to exactly one worker, in the     *)
(* order of acceptance, and a waiting request is eventually handed over.   *)
(* Mutex, semaphore and the order of push and post do not appear here:     *)
(* they are how ThreadPool implements this specification.                  *)
(***************************************************************************)
EXTENDS Naturals, Sequences

CONSTANTS Workers,      \* the threads that execute requests
          Requests,     \* the request objects, http_conn * in the server
          MaxRequests,  \* capacity of the queue (m_max_requests)
          NoRequest     \* a worker that executes nothing

VARIABLES pending,      \* accepted requests that no worker has yet
          running       \* what each worker executes

vars == <<pending, running>>

Init ==
    /\ pending = <<>>
    /\ running = [w \in Workers |-> NoRequest]

(* A request is accepted; a full queue refuses it, which changes nothing. *)
Submit(r) ==
    /\ Len(pending) < MaxRequests
    /\ pending' = Append(pending, r)
    /\ UNCHANGED running

Take(w) ==
    /\ running[w] = NoRequest
    /\ pending # <<>>
    /\ running' = [running EXCEPT ![w] = Head(pending)]
    /\ pending' = Tail(pending)

Finish(w) ==
    /\ running[w] # NoRequest
    /\ running' = [running EXCEPT ![w] = NoRequest]
    /\ UNCHANGED pending

Next ==
    \/ \E r \in Requests : Submit(r)
    \/ \E w \in Workers : Take(w) \/ Finish(w)

SafeSpec == Init /\ [][Next]_vars

Spec ==
    /\ SafeSpec
    /\ WF_vars(\E w \in Workers : Take(w))
    /\ \A w \in Workers : WF_vars(Finish(w))
===============================================================================
