------------------------------ MODULE ServerProofs -----------------------------
(***************************************************************************)
(* Theorems about Server, for any number of descriptors, timers, workers   *)
(* and clients, any lifetime of a timer and any size of the queues.        *)
(***************************************************************************)
EXTENDS Server, SequenceTheorems, FiniteSetTheorems, WellFoundedInduction, TLAPS

-------------------------------------------------------------------------------
(* Clients in the listen queue *)

(* Whoever waits will be accepted: epoll will report the listening socket, *)
(* or has reported it, or the accept loop runs; unless it was cut short.   *)
Covered ==
    /\ LISTENTrigmode = 1 /\ backlog > 0 =>
          edge \/ cutShort \/ Listen \in events \/ loop = "accept"
    /\ loop = "epoll_wait" => events = {}

(* A connection's event is neither that of the listening socket nor that   *)
(* of the pipe. *)
LEMMA EventsDiffer ==
  /\ Listen # Signal
  /\ \A fd \in Fds, what \in {"in", "out", "hup"} : Event(fd, what) \notin {Listen, Signal}
  BY DEF Listen, Signal, Event

(* Handling an event of a connection takes only that event from the batch. *)
LEMMA HandleEffect ==
  ASSUME NEW fd \in Fds, NEW what \in {"in", "out", "hup"}, Handle(Event(fd, what))
  PROVE  /\ loop = "events" /\ fault = "none" /\ Event(fd, what) \in events
         /\ events' = events \ {Event(fd, what)}
         /\ Listen \in events => Listen \in events'
  BY EventsDiffer DEF Handle, Alive

(* Only accept() and a refusal empty the listen queue or end the loop over *)
(* it.                                                                     *)
LEMMA CoveredStep == Covered /\ [Next]_vars => Covered'
<1> SUFFICES ASSUME Covered, [Next]_vars PROVE Covered'
  OBVIOUS
<1>1. CASE Connect
  BY <1>1 DEF Connect, Covered, loopVars
<1>2. CASE EpollWait
  BY <1>2 DEF EpollWait, Ready, Covered
<1>3. CASE Accept
  <2>1. loop' = AfterAccept /\ loop \in {"events", "accept"} /\ (LISTENTrigmode = 1 => loop' = "accept")
    BY <1>3 DEF Accept, CallAccept, Handle, AfterAccept
  <2>2. loop' # "epoll_wait"
    BY <2>1 DEF AfterAccept
  <2>3. QED
    BY <2>1, <2>2 DEF Covered
<1>4. CASE Refuse
  BY <1>4 DEF Refuse, Covered
<1>5. CASE AcceptFails
  BY <1>5 DEF AcceptFails, Covered
<1>6. CASE HandleSignal
  <2>1. loop = "events" /\ loop' = "events" /\ events' = events \ {Signal}
        /\ UNCHANGED <<backlog, edge, cutShort>>
    BY <1>6 DEF HandleSignal, Handle, listenVars
  <2>2. QED
    BY <2>1, EventsDiffer DEF Covered
<1>7. ASSUME NEW fd \in Fds,
             HandleHangUp(fd) \/ ReadRequest(fd) \/ ReadFails(fd) \/ WriteKeeps(fd)
             \/ WriteBlocks(fd) \/ WriteHangs(fd) \/ WriteEnds(fd) \/ ReactorHandOver(fd)
      PROVE  Covered'
  <2>1. \E what \in {"in", "out", "hup"} : Handle(Event(fd, what))
    BY <1>7 DEF HandleHangUp, ReadRequest, ReadFails, WriteKeeps, WriteBlocks, WriteHangs, WriteEnds,
                ReactorHandOver
  <2>2. loop = "events" /\ (Listen \in events => Listen \in events')
    BY <2>1, HandleEffect
  <2>3. loop' \in {"events", "adjust", "spin", "write"} /\ UNCHANGED <<backlog, edge, cutShort>>
    BY <1>7, <2>2 DEF HandleHangUp, ReadRequest, ReadFails, WriteKeeps, WriteBlocks, WriteHangs,
                      WriteEnds, ReactorHandOver, DealTimer, listenVars, kernelVars
  <2>4. QED
    BY <2>2, <2>3 DEF Covered
<1>8. CASE AfterAppend
  BY <1>8 DEF AfterAppend, Covered, kernelVars, listenVars
<1>9. CASE EndOfEvents \/ TimerHandler
  BY <1>9 DEF EndOfEvents, TimerHandler, Covered, kernelVars, listenVars
<1>10. CASE Stop
  BY <1>10 DEF Stop, Covered, kernelVars, listenVars
<1>11. ASSUME NEW w \in Workers, WorkerStep(w)
       PROVE  UNCHANGED <<listenVars, loopVars>>
  BY <1>11 DEF WorkerStep, Take, Process, Rearm, Return, CloseConn, LoadCount, StoreCount, ClearSocketfd, kernelVars
<1>12. ASSUME ClientStep \/ TimePasses \/ Terminate \/ UNCHANGED vars
       PROVE  UNCHANGED <<listenVars, loopVars>>
  BY <1>12 DEF ClientStep, SendPart, SendRequest, HangUp, TimePasses, Terminate, vars, kernelVars
<1>13. CASE UNCHANGED <<listenVars, loopVars>>
  BY <1>13 DEF listenVars, loopVars, Covered
<1>14. QED
  BY <1>1, <1>2, <1>3, <1>4, <1>5, <1>6, <1>7, <1>8, <1>9, <1>10, <1>11, <1>12, <1>13
     DEF Next, MainStep

(* With an edge triggered listening socket, the event loop never sleeps on *)
(* a client that epoll will not report, unless a refusal or the lack of a  *)
(* descriptor ended its last accept loop early.                            *)
THEOREM NoClientIsForgotten == Spec => []NobodyForgotten
<1>1. Init => Covered
  BY DEF Init, Covered
<1>2. Covered => NobodyForgotten
  BY DEF Covered, NobodyForgotten
<1>3. QED
  BY <1>1, <1>2, CoveredStep, PTL DEF Spec, SafeSpec
-------------------------------------------------------------------------------
(* What the operations of the timer list do to the timers that exist       *)

(* add_timer(), unless it follows a bad pointer. *)
LEMMA AddEffect ==
  ASSUME NEW t, TL!AddTimer(t)
  PROVE  /\ fault = "none" /\ t \notin allocated /\ remaining' = [remaining EXCEPT ![t] = Lifetime]
         /\ allocated' = allocated \cup {t} \/ (allocated' = allocated /\ fault' # "none")
  BY DEF TL!AddTimer, TL!Follow, TL!Renewed

(* adjust_timer() changes expire and no timer's existence. *)
LEMMA AdjustEffect ==
  ASSUME NEW t, TL!AdjustTimer(t)
  PROVE  /\ fault = "none" /\ t \in allocated /\ remaining' = [remaining EXCEPT ![t] = Lifetime]
         /\ allocated' = allocated
  BY DEF TL!AdjustTimer, TL!Follow, TL!Renewed

(* del_timer(), unless it follows a bad pointer. *)
LEMMA DelEffect ==
  ASSUME NEW t, TL!DelTimer(t)
  PROVE  /\ fault = "none" /\ t \in allocated /\ remaining' = [remaining EXCEPT ![t] = 0]
         /\ allocated' = allocated \ {t} \/ (allocated' = allocated /\ fault' # "none")
  BY DEF TL!DelTimer, TL!Follow

(* tick() deletes timers that have expired, and no other. *)
LEMMA TickEffect ==
  ASSUME TL!Tick
  PROVE  /\ fault = "none" /\ remaining' = remaining
         /\ allocated' \subseteq allocated
         /\ \A t \in allocated \ allocated' : remaining[t] = 0
<1> DEFINE c == TL!Chain(list, list.head)
           front == {i \in 0 .. TL!N : \A j \in 0 .. i : c[j] # NULL /\ TL!Expired(c[j])}
           expired == {c[i] : i \in front}
<1>1. /\ fault = "none" /\ remaining' = remaining
      /\ \E pointers, l : TL!Follow(pointers, l, allocated \ expired)
  BY DEF TL!Tick
<1>2. \A t \in expired : remaining[t] = 0
  <2>1. \A n \in Nat : \A i \in 0 .. n : i \in 0 .. i
    OBVIOUS
  <2>2. \A i \in front : TL!Expired(c[i])
    <3>1. Cardinality(Timers) \in Nat
      BY FS_CardinalityType, ServerAssumption
    <3>2. TL!N \in Nat
      BY <3>1 DEF TL!N, TL!Cardinality, Cardinality, TL!IsFiniteSet, IsFiniteSet
    <3> HIDE DEF c
    <3>3. \A i \in front : i \in 0 .. i
      BY <2>1, <3>2
    <3>4. QED
      BY <3>3
  <2>3. QED
    BY <2>2 DEF TL!Expired
<1> HIDE DEF expired
<1>3. allocated' = allocated \ expired \/ allocated' = allocated
  BY <1>1 DEF TL!Follow
<1>4. QED
  BY <1>1, <1>2, <1>3

(* Time passes for all timers alike. *)
LEMMA PassEffect ==
  ASSUME TL!TimePasses
  PROVE  /\ remaining' = [t \in Timers |-> IF remaining[t] > 0 THEN remaining[t] - 1 ELSE 0]
         /\ allocated' = allocated /\ fault' = fault
  BY DEF TL!TimePasses

-------------------------------------------------------------------------------
(* Types *)

ConnEvents == {Event(fd, what) : fd \in Fds, what \in {"in", "out", "hup"}}

KernelOK ==
    /\ client \in [Fds -> {"none", "idle", "sending", "waiting", "gone"}]
    /\ inbox \in [Fds -> {"none", "part"} \cup Requests]
    /\ interest \in [Fds -> {"none", "off", "in", "out"}]

ListenOK ==
    /\ connects \in 0 .. MaxConnects /\ backlog \in 0 .. MaxBacklog
    /\ edge \in BOOLEAN /\ cutShort \in BOOLEAN
    /\ alarm \in {"set", "signalled", "read"} /\ term \in {"none", "signalled", "read"}

LoopOK ==
    /\ actormodel \in ActorModels /\ timeout \in BOOLEAN
    /\ loop \in {"epoll_wait", "events", "accept", "adjust", "spin", "write", "stopped"}
    /\ events \subseteq {Listen, Signal} \cup ConnEvents
    /\ sockfd \in Fds \cup {NULL}
    /\ loop = "adjust" => sockfd \in Fds

ObjectsOK ==
    /\ user_count \in Int /\ count \in [Workers -> Int]
    /\ users \in [Fds -> [connected : BOOLEAN,
                         request   : {"none", "part"} \cup Requests,
                         response  : {"none", "keep-alive", "close", "error"}]]

Steps == {"idle", "process_read", "rearm in", "rearm out", "return",
          "close_conn", "load count", "store count", "clear m_socketfd"}

PoolOK ==
    /\ pending \in Seq(Fds) /\ Len(pending) <= MaxRequests
    /\ running \in [Workers -> Fds \cup {NULL}]
    /\ step \in [Workers -> Steps]
    /\ \A w \in Workers : step[w] = "idle" <=> running[w] = NULL

(* Timers, and room for those of the clients that wait. *)
TimersOK ==
    /\ remaining \in [Timers -> Nat] /\ allocated \subseteq Timers
    /\ users_timer \in [Fds -> Timers \cup {NULL}] /\ user_data \in [Timers -> Fds \cup {NULL}]
    /\ \A t \in allocated : user_data[t] \in Fds
    /\ backlog + Cardinality(allocated) <= Cardinality(Timers)

ClosedOK == dropped \subseteq Fds /\ outlived \subseteq Fds

Shape == KernelOK /\ ListenOK /\ LoopOK /\ ObjectsOK /\ PoolOK /\ TimersOK /\ ClosedOK

(* The shape is what Server adds to the type invariant of TimerList. *)
LEMMA ShapeIsTyped ==
  ASSUME Shape, TL!TypeOK
  PROVE  TypeOK
  BY DEF Shape, KernelOK, ListenOK, LoopOK, ConnEvents, ObjectsOK, PoolOK, TimersOK, ClosedOK,
         TypeOK

(* Constants *)
LEMMA Constants ==
  /\ IsFiniteSet(Fds) /\ Fds \subseteq Nat \ {0} /\ IsFiniteSet(Timers) /\ Timers \subseteq Nat
  /\ NULL \notin Fds /\ NULL \notin Timers
  /\ MaxRequests \in Nat /\ Lifetime \in Nat /\ Lifetime > 0 /\ MaxBacklog \in Nat
  /\ MaxConnects \in Nat /\ Kinds \in [Fds -> SUBSET Requests]
  BY ServerAssumption

(* The server before the first client. *)
LEMMA ShapeInit == Init => Shape
<1> SUFFICES ASSUME Init PROVE Shape
  OBVIOUS
<1>1. KernelOK /\ ListenOK
  <2>1. KernelOK
    BY DEF Init, KernelOK
  <2>2. 0 \in 0 .. MaxBacklog /\ 0 \in 0 .. MaxConnects
    BY Constants
  <2>3. QED
    BY <2>1, <2>2 DEF Init, ListenOK
<1>2. LoopOK
  BY DEF Init, LoopOK
<1>3. ObjectsOK
  BY DEF Init, ObjectsOK, Fresh
<1>4. PoolOK
  BY Constants, EmptySeq DEF Init, Pool!Init, PoolOK, Steps
<1>5. TimersOK
  <2>1. Cardinality({}) = 0 /\ Cardinality(Timers) \in Nat
    BY Constants, FS_EmptySet, FS_CardinalityType
  <2>2. QED
    BY <2>1 DEF Init, TL!Init, TimersOK
<1>6. ClosedOK
  BY DEF Init, ClosedOK
<1>7. QED
  BY <1>1, <1>2, <1>3, <1>4, <1>5, <1>6 DEF Shape

(* The smallest member of a set of numbers. *)
LEMMA Smallest ==
  ASSUME NEW S \in SUBSET Nat, S # {}
  PROVE  (CHOOSE x \in S : \A y \in S : x <= y) \in S
<1> DEFINE less == OpToRel(<, Nat)
<1>1. IsWellFoundedOn(less, Nat)
  BY NatLessThanWellFounded
<1>2. \E x \in S : \A y \in S : <<y, x>> \notin less
  BY <1>1, WFMin
<1>3. \A x, y \in Nat : <<y, x>> \notin less => x <= y
  <2>1. \A x, y \in Nat : y < x => <<y, x>> \in less
    BY DEF OpToRel
  <2>2. \A x, y \in Nat : y < x \/ x <= y
    OBVIOUS
  <2>3. QED
    BY <2>1, <2>2, Zenon
<1> HIDE DEF less
<1>4. \E x \in S : \A y \in S : x <= y
  BY <1>2, <1>3
<1>5. QED
  BY <1>4

(* A connection as init() leaves it. *)
NewConn == [Fresh EXCEPT !.connected = TRUE]

(* What init() leaves in users[fd]. *)
LEMMA NewConnFields ==
  /\ NewConn \in [connected : BOOLEAN, request : {"none", "part"} \cup Requests,
                  response : {"none", "keep-alive", "close", "error"}]
  /\ NewConn.connected /\ NewConn.request = "none" /\ NewConn.response = "none"
  BY DEF NewConn, Fresh

(* accept() gives a descriptor that is not open, new a timer that does not *)
(* exist: there is room for it. *)
LEMMA AcceptEffect ==
  ASSUME Shape, Accept
  PROVE  \E fd \in Fds, t \in Timers :
            /\ client[fd] = "none" /\ t \notin allocated
            /\ loop \in {"events", "accept"} /\ events' \subseteq events
            /\ backlog > 0 /\ backlog' = backlog - 1 /\ loop' = AfterAccept
            /\ client' = [client EXCEPT ![fd] = "idle"]
            /\ inbox' = [inbox EXCEPT ![fd] = "none"]
            /\ interest' = [interest EXCEPT ![fd] = "in"]
            /\ user_count' = user_count + 1
            /\ users' = [users EXCEPT ![fd] = NewConn]
            /\ users_timer' = [users_timer EXCEPT ![fd] = t]
            /\ user_data' = [user_data EXCEPT ![t] = fd]
            /\ TL!AddTimer(t)
            /\ UNCHANGED <<connects, edge, cutShort, signalVars, actormodel, sockfd, timeout,
                           poolVars, workerVars, closedVars>>
<1> DEFINE free == {f \in Fds : ~Open(f)}
           fd   == CHOOSE f \in free : \A g \in free : f <= g
           live == Timers \ allocated
           t    == CHOOSE x \in live : \A y \in live : x <= y
<1>1. free # {} /\ free \in SUBSET Nat
  BY Constants DEF Accept
<1>2. fd \in free
  BY <1>1, Smallest
<1>3. live # {} /\ live \in SUBSET Nat
  <2>1. IsFiniteSet(Timers) /\ allocated \subseteq Timers /\ backlog \in Nat /\ backlog > 0
        /\ backlog + Cardinality(allocated) <= Cardinality(Timers)
    BY Constants DEF Shape, TimersOK, ListenOK, Accept
  <2>2. Cardinality(allocated) \in Nat /\ Cardinality(Timers) \in Nat
    BY <2>1, FS_CardinalityType, FS_Subset
  <2>3. Cardinality(allocated) # Cardinality(Timers)
    BY <2>1, <2>2
  <2>4. allocated # Timers
    BY <2>3
  <2>5. QED
    BY <2>1, <2>4, Constants
<1>4. t \in live
  BY <1>3, Smallest
<1>5. /\ loop \in {"events", "accept"} /\ events' \subseteq events
  BY DEF Accept, CallAccept, Handle
<1>6. StartTimer(fd)
  BY DEF Accept
<1>7. /\ users_timer' = [users_timer EXCEPT ![fd] = t]
      /\ user_data' = [user_data EXCEPT ![t] = fd]
      /\ TL!AddTimer(t)
  BY <1>6 DEF StartTimer
<1>8. /\ interest' = [interest EXCEPT ![fd] = "in"]
      /\ user_count' = user_count + 1
      /\ users' = [users EXCEPT ![fd] = NewConn]
  <2>1. InitConn(fd)
    BY DEF Accept
  <2>2. QED
    BY <2>1 DEF InitConn, NewConn
<1>9. /\ backlog > 0 /\ backlog' = backlog - 1 /\ loop' = AfterAccept
      /\ client' = [client EXCEPT ![fd] = "idle"]
      /\ inbox' = [inbox EXCEPT ![fd] = "none"]
      /\ UNCHANGED <<connects, edge, cutShort, signalVars, actormodel, sockfd, timeout,
                     poolVars, workerVars, closedVars>>
  BY DEF Accept
<1>10. fd \in Fds /\ client[fd] = "none" /\ t \in Timers /\ t \notin allocated
  BY <1>2, <1>4 DEF Open
<1> HIDE DEF fd, t, free, live
<1>11. QED
  BY <1>5, <1>7, <1>8, <1>9, <1>10

(* No worker touches the listening socket, no timer and no event. *)
LEMMA WorkerEffect ==
  ASSUME NEW w \in Workers, WorkerStep(w)
  PROVE  /\ Alive
         /\ UNCHANGED <<listenVars, signalVars, loopVars, users_timer, user_data, timerVars>>
  BY DEF WorkerStep, Take, Process, Rearm, Return, CloseConn, LoadCount, StoreCount, ClearSocketfd, kernelVars, userVars

(* What is done about an event of a connection. *)
ConnStep(fd) ==
    \/ HandleHangUp(fd) \/ ReadRequest(fd) \/ ReadFails(fd)
    \/ WriteKeeps(fd) \/ WriteBlocks(fd) \/ WriteHangs(fd) \/ WriteEnds(fd)
    \/ ReactorHandOver(fd)

(* A handler takes one event of its connection and goes on with the batch, *)
(* or stays with the connection.                                           *)
LEMMA ConnStepHandles ==
  ASSUME NEW fd \in Fds, ConnStep(fd)
  PROVE  /\ \E what \in {"in", "out", "hup"} : Event(fd, what) \in events /\ events' = events \ {Event(fd, what)}
         /\ loop = "events" /\ fault = "none"
         /\ loop' = "events" \/ (sockfd' = fd /\ loop' \in {"adjust", "spin", "write"})
         /\ loop' # "events" \/ UNCHANGED sockfd
         /\ UNCHANGED <<listenVars, signalVars, actormodel, timeout, users_timer, user_data>>
<1>1. \E what \in {"in", "out", "hup"} : Handle(Event(fd, what))
  BY DEF ConnStep, HandleHangUp, ReadRequest, ReadFails, WriteKeeps, WriteBlocks, WriteHangs, WriteEnds,
         ReactorHandOver
<1>2. \E what \in {"in", "out", "hup"} : Event(fd, what) \in events /\ events' = events \ {Event(fd, what)}
  BY <1>1, HandleEffect
<1>3. loop = "events" /\ fault = "none"
  BY <1>1, HandleEffect
<1>4. /\ loop' = loop \/ (sockfd' = fd /\ loop' \in {"adjust", "spin", "write"})
      /\ loop' # loop \/ UNCHANGED sockfd
      /\ UNCHANGED <<listenVars, signalVars, actormodel, timeout, users_timer, user_data>>
  <2>1. CASE HandleHangUp(fd) \/ ReadFails(fd) \/ WriteEnds(fd)
    BY <2>1 DEF HandleHangUp, ReadFails, WriteEnds, DealTimer
  <2>2. CASE ReadRequest(fd)
    BY <2>2, <1>3 DEF ReadRequest
  <2>3. CASE WriteKeeps(fd) \/ WriteBlocks(fd)
    BY <2>3 DEF WriteKeeps, WriteBlocks, userVars
  <2>4. CASE ReactorHandOver(fd) \/ WriteHangs(fd)
    BY <2>4, <1>3 DEF ReactorHandOver, WriteHangs, kernelVars, userVars
  <2>5. QED
    BY <2>1, <2>2, <2>3, <2>4 DEF ConnStep
<1>5. QED
  BY <1>2, <1>3, <1>4

(* The listen queue is a number of clients that MaxBacklog bounds. *)
LEMMA ListenStep == Shape /\ [Next]_vars => ListenOK'
<1> SUFFICES ASSUME Shape, [Next]_vars PROVE ListenOK'
  OBVIOUS
<1> USE DEF ListenOK
<1>1. ListenOK /\ MaxBacklog \in Nat /\ MaxConnects \in Nat
  BY Constants DEF Shape
<1>2. CASE Connect
  BY <1>1, <1>2 DEF Connect, signalVars
<1>3. CASE Accept \/ Refuse \/ AcceptFails
  <2>1. backlog > 0 => backlog - 1 \in 0 .. MaxBacklog
    BY <1>1
  <2>2. CASE Accept
    BY <1>1, <2>1, <2>2 DEF Accept, signalVars
  <2>3. CASE Refuse \/ AcceptFails
    BY <1>1, <2>1, <2>3 DEF Refuse, AcceptFails, signalVars
  <2>4. QED
    BY <1>3, <2>2, <2>3
<1>4. CASE HandleSignal \/ TimerHandler \/ EpollWait
  <2>1. CASE HandleSignal \/ EpollWait
    BY <1>1, <2>1 DEF HandleSignal, EpollWait, Read, listenVars, signalVars
  <2>2. CASE TimerHandler
    BY <1>1, <2>2 DEF TimerHandler, listenVars
  <2>3. QED
    BY <1>4, <2>1, <2>2
<1>5. CASE TimePasses \/ Terminate
  BY <1>1, <1>5 DEF TimePasses, Terminate, listenVars
<1>6. ASSUME NEW fd \in Fds, ConnStep(fd)
      PROVE  UNCHANGED <<listenVars, signalVars>>
  BY <1>6, ConnStepHandles
<1>7. ASSUME NEW w \in Workers, WorkerStep(w)
      PROVE  UNCHANGED <<listenVars, signalVars>>
  BY <1>7, WorkerEffect
<1>8. ASSUME ClientStep \/ AfterAppend \/ EndOfEvents \/ Stop \/ UNCHANGED vars
      PROVE  UNCHANGED <<listenVars, signalVars>>
  BY <1>8 DEF ClientStep, SendPart, SendRequest, HangUp, AfterAppend, EndOfEvents, Stop, vars, kernelVars
<1>9. CASE UNCHANGED <<listenVars, signalVars>>
  BY <1>1, <1>9 DEF listenVars, signalVars
<1>10. QED
  BY <1>2, <1>3, <1>4, <1>5, <1>6, <1>7, <1>8, <1>9 DEF Next, MainStep, ConnStep

(* epoll_wait() reports events of the listening socket, the signal pipe    *)
(* and connections only.                                                   *)
LEMMA ReadyOK == Ready \subseteq {Listen, Signal} \cup ConnEvents
  BY DEF Ready, ConnEvents

(* The state of the event loop keeps its types. *)
LEMMA LoopStep == Shape /\ [Next]_vars => LoopOK'
<1> SUFFICES ASSUME Shape, [Next]_vars PROVE LoopOK'
  OBVIOUS
<1>1. LoopOK
  BY DEF Shape
<1>2. CASE EpollWait
  BY <1>1, <1>2, ReadyOK DEF EpollWait, LoopOK
<1>3. CASE Accept \/ Refuse \/ AcceptFails
  BY <1>1, <1>3 DEF Accept, Refuse, AcceptFails, CallAccept, Handle, AfterAccept, LoopOK
<1>4. CASE HandleSignal
  BY <1>1, <1>4 DEF HandleSignal, Handle, LoopOK
<1>5. CASE AfterAppend \/ EndOfEvents \/ TimerHandler \/ Stop
  BY <1>1, <1>5 DEF AfterAppend, EndOfEvents, TimerHandler, Stop, LoopOK
<1>6. ASSUME NEW fd \in Fds, ConnStep(fd) PROVE LoopOK'
  BY <1>1, <1>6, ConnStepHandles DEF LoopOK
<1>7. ASSUME NEW w \in Workers, WorkerStep(w)
      PROVE  UNCHANGED loopVars
  BY <1>7, WorkerEffect
<1>8. ASSUME Connect \/ ClientStep \/ TimePasses \/ Terminate \/ UNCHANGED vars
      PROVE  UNCHANGED loopVars
  BY <1>8 DEF Connect, ClientStep, SendPart, SendRequest, HangUp, TimePasses, Terminate, vars
<1>9. CASE UNCHANGED loopVars
  BY <1>1, <1>9 DEF loopVars, LoopOK
<1>10. QED
  BY <1>2, <1>3, <1>4, <1>5, <1>6, <1>7, <1>8, <1>9 DEF Next, MainStep, ConnStep

(* close() keeps the types of the kernel's tables. *)
LEMMA CloseOK ==
  ASSUME KernelOK, NEW closed, Close(closed)
  PROVE  KernelOK'
  BY DEF KernelOK, Close

(* modfd() keeps the types of the kernel's tables. *)
LEMMA ModfdOK ==
  ASSUME KernelOK, NEW fd \in Fds, NEW ev \in {"in", "out"}
  PROVE  Modfd(fd, ev) \in [Fds -> {"none", "off", "in", "out"}]
  BY DEF KernelOK, Modfd

(* A step that deals with a connection closes it and deletes its timer, or *)
(* keeps both. *)
Deals(fd) == HandleHangUp(fd) \/ ReadFails(fd) \/ WriteEnds(fd)

(* deal_timer(): the connection is closed, counted off, and its timer      *)
(* deleted.                                                                *)
LEMMA DealsEffect ==
  ASSUME NEW fd \in Fds, Deals(fd)
  PROVE  /\ loop' = "events" /\ CbFunc({fd}, 1) /\ Close({fd}) /\ user_count' = user_count - 1
         /\ TL!DelTimer(users_timer[fd])
         /\ UNCHANGED <<users, poolVars, workerVars, dropped>>
<1>1. \E what \in {"in", "out", "hup"} : Handle(Event(fd, what))
  BY DEF Deals, HandleHangUp, ReadFails, WriteEnds
<1>2. loop = "events"
  BY <1>1, HandleEffect
<1>3. DealTimer(fd) /\ UNCHANGED <<loop, poolVars, workerVars>>
  BY DEF Deals, HandleHangUp, ReadFails, WriteEnds
<1>4. QED
  BY <1>2, <1>3 DEF DealTimer, CbFunc

(* The kernel's tables keep their types. *)
LEMMA KernelStep == Shape /\ [Next]_vars => KernelOK'
<1> SUFFICES ASSUME Shape, [Next]_vars PROVE KernelOK'
  OBVIOUS
<1>1. KernelOK
  BY DEF Shape
<1>2. CASE ClientStep
  BY <1>1, <1>2, Constants DEF ClientStep, SendPart, SendRequest, HangUp, KernelOK
<1>3. CASE EpollWait
  BY <1>1, <1>3 DEF EpollWait, Disarmed, KernelOK
<1>4. CASE Accept
  BY <1>1, <1>4, AcceptEffect DEF KernelOK
<1>5. CASE TimerHandler
  BY <1>1, <1>5, CloseOK DEF TimerHandler, CbFunc
<1>6. ASSUME NEW fd \in Fds, Deals(fd) PROVE KernelOK'
  BY <1>1, <1>6, DealsEffect, CloseOK
<1>7. ASSUME NEW fd \in Fds, ReadRequest(fd) PROVE KernelOK'
  BY <1>1, <1>7 DEF ReadRequest, KernelOK
<1>8. ASSUME NEW fd \in Fds, WriteKeeps(fd) \/ WriteBlocks(fd) PROVE KernelOK'
  <2>1. interest' \in [Fds -> {"none", "off", "in", "out"}]
    BY <1>1, <1>8, ModfdOK DEF WriteKeeps, WriteBlocks
  <2>2. client' \in [Fds -> {"none", "idle", "sending", "waiting", "gone"}] /\ inbox' = inbox
    BY <1>1, <1>8 DEF WriteKeeps, WriteBlocks, Answered, KernelOK
  <2>3. QED
    BY <1>1, <2>1, <2>2 DEF KernelOK
<1>9. ASSUME NEW w \in Workers, Rearm(w) PROVE KernelOK'
  <2>1. running[w] \in Fds
    BY <1>9 DEF Rearm, Shape, PoolOK
  <2>2. interest' \in [Fds -> {"none", "off", "in", "out"}]
    BY <1>1, <1>9, <2>1, ModfdOK DEF Rearm
  <2>3. QED
    BY <1>1, <1>9, <2>2 DEF Rearm, KernelOK
<1>10. ASSUME NEW w \in Workers, CloseConn(w) PROVE KernelOK'
  <2>1. CASE Close({running[w]})
    BY <1>1, <2>1, CloseOK
  <2>2. CASE UNCHANGED <<client, inbox, interest>>
    BY <1>1, <2>2 DEF KernelOK
  <2>3. QED
    BY <1>10, <2>1, <2>2 DEF CloseConn
<1>11. ASSUME Connect \/ TimePasses \/ Terminate \/ UNCHANGED vars
       PROVE  UNCHANGED <<client, inbox, interest>>
  BY <1>11 DEF Connect, TimePasses, Terminate, vars, kernelVars
<1>12. ASSUME Refuse \/ AcceptFails \/ HandleSignal \/ AfterAppend \/ EndOfEvents \/ Stop
       PROVE  UNCHANGED <<client, inbox, interest>>
  BY <1>12 DEF Refuse, AcceptFails, HandleSignal, AfterAppend, EndOfEvents, Stop, kernelVars
<1>13. ASSUME NEW fd \in Fds, ReactorHandOver(fd) \/ WriteHangs(fd)
       PROVE  UNCHANGED <<client, inbox, interest>>
  BY <1>13 DEF ReactorHandOver, WriteHangs, kernelVars
<1>14. ASSUME NEW w \in Workers, Take(w) \/ Process(w) \/ Return(w) \/ LoadCount(w) \/ StoreCount(w)
                                  \/ ClearSocketfd(w)
       PROVE  UNCHANGED <<client, inbox, interest>>
  BY <1>14 DEF Take, Process, Return, LoadCount, StoreCount, ClearSocketfd, kernelVars
<1>15. CASE UNCHANGED <<client, inbox, interest>>
  BY <1>1, <1>15 DEF KernelOK
<1>16. QED
  BY <1>2, <1>3, <1>4, <1>5, <1>6, <1>7, <1>8, <1>9, <1>10, <1>11, <1>12, <1>13, <1>14, <1>15
     DEF Next, MainStep, WorkerStep, Deals

(* The http_conn objects and the users' timers keep their types. *)
LEMMA ObjectsStep == Shape /\ [Next]_vars => ObjectsOK'
<1> SUFFICES ASSUME Shape, [Next]_vars PROVE ObjectsOK'
  OBVIOUS
<1>1. ObjectsOK
  BY DEF Shape
<1> DEFINE Conns == [connected : BOOLEAN, request : {"none", "part"} \cup Requests,
                     response : {"none", "keep-alive", "close", "error"}]
<1>2. CASE Accept
  <2>1. user_count + 1 \in Int
    BY <1>1 DEF ObjectsOK
  <2>2. \E fd \in Fds : users' = [users EXCEPT ![fd] = NewConn]
    BY <1>2, AcceptEffect
  <2>3. user_count' = user_count + 1 /\ count' = count
    BY <1>2, AcceptEffect DEF workerVars
  <2>4. users' \in [Fds -> Conns]
    BY <1>1, <2>2, NewConnFields DEF ObjectsOK
  <2>5. QED
    BY <1>1, <2>1, <2>3, <2>4 DEF ObjectsOK
<1>3. CASE TimerHandler
  <2> DEFINE fired == allocated \ allocated'
  <2>1. IsFiniteSet(fired)
    <3>1. TL!Tick
      BY <1>3 DEF TimerHandler
    <3>2. allocated \subseteq Timers
      BY DEF Shape, TimersOK
    <3>3. QED
      BY <3>2, Constants, FS_Subset
  <2>2. Cardinality(fired) \in Nat
    BY <2>1, FS_CardinalityType
  <2>3. user_count' = user_count - Cardinality(fired) /\ UNCHANGED <<users, count>>
    BY <1>3 DEF TimerHandler, CbFunc, workerVars
  <2> HIDE DEF fired
  <2>4. QED
    BY <1>1, <2>2, <2>3 DEF ObjectsOK
<1>4. ASSUME NEW fd \in Fds, Deals(fd) PROVE ObjectsOK'
  <2>1. user_count' \in Int
    <3>1. user_count' = user_count - 1
      BY <1>4, DealsEffect, Zenon
    <3>2. user_count \in Int
      BY <1>1 DEF ObjectsOK
    <3>3. QED
      BY <3>1, <3>2
  <2>2. QED
    BY <1>1, <1>4, <2>1, DealsEffect DEF workerVars, ObjectsOK
<1>5. ASSUME NEW fd \in Fds, ReadRequest(fd) PROVE ObjectsOK'
  <2>1. Received(fd) \in {"none", "part"} \cup Requests
    BY <1>1 DEF Received, Shape, KernelOK, ObjectsOK
  <2>2. users' = [users EXCEPT ![fd].request = Received(fd)] /\ UNCHANGED <<user_count, count>>
    BY <1>5 DEF ReadRequest, workerVars
  <2>3. QED
    BY <1>1, <2>1, <2>2 DEF ObjectsOK
<1>6. ASSUME NEW fd \in Fds, WriteKeeps(fd) PROVE ObjectsOK'
  <2>1. users' = Forgotten(fd) /\ UNCHANGED <<user_count, count>>
    BY <1>6 DEF WriteKeeps, workerVars
  <2>2. QED
    BY <1>1, <2>1 DEF ObjectsOK, Forgotten
<1>7. ASSUME NEW w \in Workers, Process(w) PROVE ObjectsOK'
  <2>1. running[w] \in Fds
    BY <1>7 DEF Process, Shape, PoolOK
  <2> DEFINE k == users[running[w]].request
  <2>2. \/ UNCHANGED users
        \/ users' = [users EXCEPT ![running[w]].request = "none"]
        \/ /\ k \notin {"none", "part", "missing"}
           /\ users' = [users EXCEPT ![running[w]].request = "none", ![running[w]].response = k]
    BY <1>7 DEF Process
  <2>5. k \in {"none", "part"} \cup Requests
    BY <1>1, <2>1 DEF ObjectsOK
  <2>6. k \notin {"none", "part", "missing"} => k \in {"keep-alive", "close", "error"}
    BY <2>5 DEF Requests
  <2> HIDE DEF k
  <2>3. UNCHANGED <<user_count, count>>
    BY <1>7 DEF Process
  <2>4. QED
    BY <1>1, <2>1, <2>2, <2>3, <2>6 DEF ObjectsOK
<1>8. ASSUME NEW w \in Workers, LoadCount(w) \/ StoreCount(w) PROVE ObjectsOK'
  <2>1. count[w] - 1 \in Int /\ user_count \in Int
    BY <1>1 DEF ObjectsOK
  <2>2. user_count' \in Int
    BY <1>8, <2>1 DEF LoadCount, StoreCount, userVars
  <2>3. count' = [count EXCEPT ![w] = user_count] \/ count' = [count EXCEPT ![w] = 0]
    BY <1>8 DEF LoadCount, StoreCount
  <2>4. UNCHANGED users
    BY <1>8 DEF LoadCount, StoreCount, userVars
  <2>5. count' \in [Workers -> Int]
    BY <1>1, <2>1, <2>3 DEF ObjectsOK
  <2>6. QED
    BY <1>1, <2>2, <2>4, <2>5 DEF ObjectsOK
<1>9. ASSUME NEW w \in Workers, ClearSocketfd(w) PROVE ObjectsOK'
  BY <1>1, <1>9 DEF ClearSocketfd, ObjectsOK
<1>10. ASSUME Connect \/ ClientStep \/ TimePasses \/ Terminate \/ UNCHANGED vars
       PROVE  UNCHANGED <<users, user_count, count>>
  BY <1>10 DEF Connect, ClientStep, SendPart, SendRequest, HangUp, TimePasses, Terminate, vars, userVars, workerVars
<1>11. ASSUME EpollWait \/ Refuse \/ AcceptFails \/ HandleSignal \/ AfterAppend \/ EndOfEvents \/ Stop
       PROVE  UNCHANGED <<users, user_count, count>>
  BY <1>11 DEF EpollWait, Refuse, AcceptFails, HandleSignal, AfterAppend, EndOfEvents, Stop, userVars, workerVars
<1>12. ASSUME NEW fd \in Fds, WriteBlocks(fd) \/ WriteHangs(fd) \/ ReactorHandOver(fd)
       PROVE  UNCHANGED <<users, user_count, count>>
  BY <1>12 DEF WriteBlocks, WriteHangs, ReactorHandOver, userVars, workerVars
<1>13. ASSUME NEW w \in Workers, Take(w) \/ Rearm(w) \/ Return(w) \/ CloseConn(w)
       PROVE  UNCHANGED <<users, user_count, count>>
  BY <1>13 DEF Take, Rearm, Return, CloseConn, userVars
<1>14. CASE UNCHANGED <<users, user_count, count>>
  BY <1>1, <1>14 DEF ObjectsOK
<1>15. QED
  BY <1>2, <1>3, <1>4, <1>5, <1>6, <1>7, <1>8, <1>9, <1>10, <1>11, <1>12, <1>13, <1>14
     DEF Next, MainStep, WorkerStep, Deals

(* append_p() adds one request or refuses it. *)
LEMMA AppendOK ==
  ASSUME PoolOK, NEW fd \in Fds, AppendRequest(fd)
  PROVE  /\ pending' \in Seq(Fds) /\ Len(pending') <= MaxRequests /\ running' = running
         /\ pending' = Append(pending, fd) \/ pending' = pending
<1>1. CASE UNCHANGED poolVars
  BY <1>1 DEF PoolOK, poolVars
<1>2. CASE Pool!Submit(fd)
  <2>1. pending \in Seq(Fds) /\ Len(pending) < MaxRequests /\ pending' = Append(pending, fd) /\ running' = running
    BY <1>2 DEF Pool!Submit, PoolOK
  <2>2. Len(Append(pending, fd)) = Len(pending) + 1 /\ Append(pending, fd) \in Seq(Fds)
    BY <2>1, AppendProperties
  <2>3. Len(pending) \in Nat /\ MaxRequests \in Nat
    BY <2>1, Constants
  <2>4. QED
    BY <2>1, <2>2, <2>3
<1>3. QED
  BY <1>1, <1>2 DEF AppendRequest

(* A worker takes the first request. *)
LEMMA TakeEffect ==
  ASSUME PoolOK, NEW w \in Workers, Take(w)
  PROVE  /\ pending # <<>> /\ running[w] = NULL /\ step[w] = "idle"
         /\ Head(pending) \in Fds /\ pending' = Tail(pending)
         /\ pending' \in Seq(Fds) /\ Len(pending') <= MaxRequests
         /\ running' = [running EXCEPT ![w] = Head(pending)]
         /\ step' = [step EXCEPT ![w] = "process_read"]
         /\ UNCHANGED <<kernelVars, loopVars, userVars, timerVars, count>>
<1>1. /\ pending # <<>> /\ running[w] = NULL /\ pending' = Tail(pending)
      /\ running' = [running EXCEPT ![w] = Head(pending)]
  BY DEF Take, Pool!Take
<1>2. pending \in Seq(Fds) /\ Len(pending) <= MaxRequests
  BY DEF PoolOK
<1>3. Head(pending) \in Fds /\ Tail(pending) \in Seq(Fds) /\ Len(Tail(pending)) = Len(pending) - 1
  BY <1>1, <1>2, HeadTailProperties
<1>4. Len(pending) \in Nat /\ MaxRequests \in Nat
  BY <1>2, Constants
<1>5. Len(Tail(pending)) <= MaxRequests
  BY <1>2, <1>3, <1>4
<1>6. QED
  BY <1>1, <1>3, <1>5 DEF Take

(* After process() the worker is idle. *)
LEMMA ReturnEffect ==
  ASSUME NEW w \in Workers, Return(w)
  PROVE  /\ step[w] = "return" /\ pending' = pending
         /\ running' = [running EXCEPT ![w] = NULL]
         /\ step' = [step EXCEPT ![w] = "idle"]
  BY DEF Return, Pool!Finish

(* The steps of process() before its last one. *)
LEMMA InProcess ==
  ASSUME NEW w \in Workers,
         Process(w) \/ Rearm(w) \/ CloseConn(w) \/ LoadCount(w) \/ StoreCount(w) \/ ClearSocketfd(w)
  PROVE  /\ step[w] \notin {"idle", "return"} /\ UNCHANGED <<pending, running>>
         /\ \E s \in Steps \ {"idle"} :
               step' = [step EXCEPT ![w] = s] /\ (s = "return" <=> Rearm(w))
<1>1. CASE Process(w)
  <2>1. step[w] = "process_read" /\ UNCHANGED <<pending, running>> /\ ~Rearm(w)
    BY <1>1 DEF Process, Rearm, poolVars
  <2>2. \E s \in {"rearm in", "close_conn", "rearm out"} : step' = [step EXCEPT ![w] = s]
    BY <1>1 DEF Process
  <2>3. QED
    BY <2>1, <2>2 DEF Steps
<1>2. CASE CloseConn(w)
  BY <1>2 DEF CloseConn, Rearm, poolVars, Steps
<1>3. CASE LoadCount(w) \/ StoreCount(w) \/ ClearSocketfd(w)
  BY <1>3 DEF LoadCount, StoreCount, ClearSocketfd, Rearm, poolVars, Steps
<1>4. CASE Rearm(w)
  BY <1>4 DEF Rearm, poolVars, Steps
<1>5. QED
  BY <1>1, <1>2, <1>3, <1>4

(* The queue and the workers keep their types. *)
LEMMA PoolStep == Shape /\ [Next]_vars => PoolOK'
<1> SUFFICES ASSUME Shape, [Next]_vars PROVE PoolOK'
  OBVIOUS
<1>1. PoolOK /\ NULL \notin Fds
  BY Constants DEF Shape
<1>2. ASSUME NEW fd \in Fds, ReadRequest(fd) \/ ReactorHandOver(fd) PROVE PoolOK'
  <2>1. AppendRequest(fd) /\ step' = step
    BY <1>2 DEF ReadRequest, ReactorHandOver, workerVars
  <2>2. QED
    BY <1>1, <2>1, AppendOK DEF PoolOK
<1>3. ASSUME NEW w \in Workers, Take(w) PROVE PoolOK'
  <2>1. /\ Head(pending) \in Fds /\ pending' \in Seq(Fds) /\ Len(pending') <= MaxRequests
        /\ running' = [running EXCEPT ![w] = Head(pending)]
        /\ step' = [step EXCEPT ![w] = "process_read"]
    BY <1>1, <1>3, TakeEffect
  <2> DEFINE h == Head(pending)
  <2> HIDE DEF h
  <2>2. h \in Fds /\ running' = [running EXCEPT ![w] = h]
    BY <2>1 DEF h
  <2>3. QED
    BY <1>1, <2>1, <2>2 DEF PoolOK, Steps
<1>4. ASSUME NEW w \in Workers, Return(w) PROVE PoolOK'
  BY <1>1, <1>4, ReturnEffect DEF PoolOK, Steps
<1>5. ASSUME NEW w \in Workers,
             Process(w) \/ Rearm(w) \/ CloseConn(w) \/ LoadCount(w) \/ StoreCount(w) \/ ClearSocketfd(w)
      PROVE  PoolOK'
  <2>1. /\ step[w] \notin {"idle", "return"} /\ UNCHANGED <<pending, running>>
        /\ \E s \in Steps \ {"idle"} : step' = [step EXCEPT ![w] = s]
    BY <1>5, InProcess
  <2>2. QED
    BY <1>1, <2>1 DEF PoolOK
<1>6. ASSUME Connect \/ ClientStep \/ TimePasses \/ Terminate \/ UNCHANGED vars
      PROVE  UNCHANGED <<pending, running, step>>
  BY <1>6 DEF Connect, ClientStep, SendPart, SendRequest, HangUp, TimePasses, Terminate, vars, poolVars, workerVars
<1>7. ASSUME EpollWait \/ Accept \/ Refuse \/ AcceptFails \/ HandleSignal \/ AfterAppend
             \/ EndOfEvents \/ TimerHandler \/ Stop
      PROVE  UNCHANGED <<pending, running, step>>
  BY <1>7 DEF EpollWait, Accept, Refuse, AcceptFails, HandleSignal, AfterAppend, EndOfEvents,
              TimerHandler, Stop, poolVars, workerVars
<1>8. ASSUME NEW fd \in Fds, Deals(fd) \/ WriteKeeps(fd) \/ WriteBlocks(fd) \/ WriteHangs(fd)
      PROVE  UNCHANGED <<pending, running, step>>
  BY <1>8 DEF Deals, HandleHangUp, ReadFails, WriteEnds, WriteKeeps, WriteBlocks, WriteHangs, poolVars, workerVars
<1>9. CASE UNCHANGED <<pending, running, step>>
  BY <1>1, <1>9 DEF PoolOK
<1>10. QED
  BY <1>2, <1>3, <1>4, <1>5, <1>6, <1>7, <1>8, <1>9 DEF Next, MainStep, WorkerStep, Deals

(* The timers of a subset of the connections leave room for as many        *)
(* clients.                                                                *)
LEMMA Room ==
  ASSUME NEW S \in SUBSET Timers, NEW T \in SUBSET S, NEW m \in Nat, NEW n \in Nat,
         m + Cardinality(S) <= Cardinality(Timers), n <= m
  PROVE  n + Cardinality(T) <= Cardinality(Timers)
<1>1. IsFiniteSet(S) /\ IsFiniteSet(Timers)
  BY Constants, FS_Subset
<1>2. Cardinality(T) <= Cardinality(S) /\ IsFiniteSet(T)
  BY <1>1, FS_Subset
<1>3. Cardinality(S) \in Nat /\ Cardinality(T) \in Nat /\ Cardinality(Timers) \in Nat
  BY <1>1, <1>2, FS_CardinalityType
<1>4. QED
  BY <1>2, <1>3

(* What a step that adjusts the timer of a connection leaves alone. *)
Adjusts(fd) == WriteKeeps(fd) \/ WriteBlocks(fd) \/ ReactorHandOver(fd)

(* These handlers call adjust_timer(). *)
LEMMA AdjustsEffect ==
  ASSUME NEW fd \in Fds, Adjusts(fd)
  PROVE  TL!AdjustTimer(users_timer[fd]) /\ UNCHANGED <<users_timer, user_data, backlog>>
  BY DEF Adjusts, WriteKeeps, WriteBlocks, ReactorHandOver, userVars, kernelVars, listenVars

(* The timers keep their types, and are fewer than Timers when a client    *)
(* may connect.                                                            *)
LEMMA TimersStep == Shape /\ [Next]_vars => TimersOK'
<1> SUFFICES ASSUME Shape, [Next]_vars PROVE TimersOK'
  OBVIOUS
<1>1. TimersOK /\ backlog \in Nat /\ Lifetime \in Nat
  BY Constants DEF Shape, ListenOK
<1>2. CASE Connect
  <2>1. backlog' = backlog + 1 /\ backlog + Cardinality(allocated) < Cardinality(Timers)
        /\ UNCHANGED <<remaining, allocated, users_timer, user_data>>
    BY <1>2 DEF Connect, timerVars, userVars
  <2>2. Cardinality(allocated) \in Nat /\ Cardinality(Timers) \in Nat
    BY <1>1, Constants, FS_Subset, FS_CardinalityType DEF TimersOK
  <2>3. backlog + 1 + Cardinality(allocated) <= Cardinality(Timers)
    BY <1>1, <2>1, <2>2
  <2>4. QED
    BY <1>1, <2>1, <2>3 DEF TimersOK
<1>3. CASE Accept
  <2>1. PICK fd \in Fds, t \in Timers :
            /\ t \notin allocated /\ backlog > 0 /\ backlog' = backlog - 1
            /\ users_timer' = [users_timer EXCEPT ![fd] = t]
            /\ user_data' = [user_data EXCEPT ![t] = fd]
            /\ TL!AddTimer(t)
    BY <1>3, AcceptEffect
  <2>2. /\ remaining' = [remaining EXCEPT ![t] = Lifetime]
        /\ allocated' = allocated \cup {t} \/ allocated' = allocated
    BY <2>1, AddEffect
  <2>3. /\ remaining' \in [Timers -> Nat] /\ allocated' \subseteq Timers
        /\ users_timer' \in [Fds -> Timers \cup {NULL}] /\ user_data' \in [Timers -> Fds \cup {NULL}]
        /\ \A x \in allocated' : user_data'[x] \in Fds
    BY <1>1, <2>1, <2>2 DEF TimersOK
  <2>4. IsFiniteSet(allocated) /\ Cardinality(allocated) \in Nat /\ Cardinality(Timers) \in Nat
    BY <1>1, Constants, FS_Subset, FS_CardinalityType DEF TimersOK
  <2>5. Cardinality(allocated') <= Cardinality(allocated) + 1 /\ Cardinality(allocated') \in Nat
    <3>1. Cardinality(allocated \cup {t}) = Cardinality(allocated) + 1
      BY <2>1, <2>4, FS_AddElement
    <3>2. CASE allocated' = allocated \cup {t}
      BY <2>4, <3>1, <3>2
    <3>3. CASE allocated' = allocated
      BY <2>4, <3>3
    <3>4. QED
      BY <2>2, <3>2, <3>3
  <2>6. backlog' + Cardinality(allocated') <= Cardinality(Timers)
    <3>1. backlog + Cardinality(allocated) <= Cardinality(Timers)
      BY <1>1 DEF TimersOK
    <3>2. backlog' = backlog - 1
      BY <2>1
    <3>3. QED
      BY <1>1, <2>4, <2>5, <3>1, <3>2
  <2>7. QED
    BY <2>3, <2>6 DEF TimersOK
<1>4. CASE Refuse
  <2>1. backlog > 0 /\ backlog' = backlog - 1 /\ UNCHANGED <<remaining, allocated, users_timer, user_data>>
    BY <1>4 DEF Refuse, timerVars, userVars
  <2>2. backlog' \in Nat /\ backlog' <= backlog
    BY <1>1, <2>1
  <2>3. backlog' + Cardinality(allocated) <= Cardinality(Timers)
    BY <1>1, <2>2, Room DEF TimersOK
  <2>4. QED
    BY <1>1, <2>1, <2>3 DEF TimersOK
<1>5. CASE TimePasses
  <2>1. remaining' = [t \in Timers |-> IF remaining[t] > 0 THEN remaining[t] - 1 ELSE 0]
        /\ UNCHANGED <<allocated, users_timer, user_data, backlog>>
    BY <1>5, PassEffect DEF TimePasses, userVars, listenVars
  <2>2. \A n \in Nat : (IF n > 0 THEN n - 1 ELSE 0) \in Nat
    OBVIOUS
  <2>3. remaining' \in [Timers -> Nat]
    BY <1>1, <2>1, <2>2 DEF TimersOK
  <2>4. QED
    BY <1>1, <2>1, <2>3 DEF TimersOK
<1>6. CASE TimerHandler
  <2>1. TL!Tick /\ UNCHANGED <<users_timer, user_data, backlog>>
    BY <1>6 DEF TimerHandler, listenVars
  <2>2. remaining' = remaining /\ allocated' \subseteq allocated
    BY <2>1, TickEffect
  <2>3. backlog + Cardinality(allocated') <= Cardinality(Timers)
    BY <1>1, <2>2, Room DEF TimersOK
  <2>4. QED
    BY <1>1, <2>1, <2>2, <2>3 DEF TimersOK
<1>7. ASSUME NEW fd \in Fds, Deals(fd) PROVE TimersOK'
  <2>1. TL!DelTimer(users_timer[fd])
    BY <1>7, DealsEffect
  <2>2. remaining' = [remaining EXCEPT ![users_timer[fd]] = 0] /\ allocated' \subseteq allocated
    BY <2>1, DelEffect
  <2>3. UNCHANGED <<users_timer, user_data, backlog>>
    BY <1>7, ConnStepHandles DEF ConnStep, Deals, listenVars
  <2>4. backlog + Cardinality(allocated') <= Cardinality(Timers)
    BY <1>1, <2>2, Room DEF TimersOK
  <2>5. QED
    BY <1>1, <2>2, <2>3, <2>4 DEF TimersOK
<1>8. ASSUME NEW t, TL!AdjustTimer(t), UNCHANGED <<users_timer, user_data, backlog>>
      PROVE  TimersOK'
  <2>1. remaining' = [remaining EXCEPT ![t] = Lifetime] /\ allocated' = allocated
    BY <1>8, AdjustEffect
  <2>2. QED
    BY <1>1, <1>8, <2>1 DEF TimersOK
<1>9. CASE AfterAppend
  BY <1>8, <1>9 DEF AfterAppend, kernelVars, listenVars, userVars
<1>10. ASSUME NEW fd \in Fds, Adjusts(fd) PROVE TimersOK'
  BY <1>8, <1>10, AdjustsEffect
<1>11. ASSUME ClientStep \/ Terminate \/ UNCHANGED vars
       PROVE  UNCHANGED <<backlog, remaining, allocated, users_timer, user_data>>
  BY <1>11 DEF ClientStep, SendPart, SendRequest, HangUp, Terminate, vars, kernelVars, listenVars, timerVars, userVars
<1>12. ASSUME EpollWait \/ AcceptFails \/ HandleSignal \/ EndOfEvents \/ Stop
       PROVE  UNCHANGED <<backlog, remaining, allocated, users_timer, user_data>>
  BY <1>12 DEF EpollWait, AcceptFails, HandleSignal, EndOfEvents, Stop, kernelVars, listenVars, timerVars, userVars
<1>13. ASSUME NEW fd \in Fds, ReadRequest(fd) \/ WriteHangs(fd)
       PROVE  UNCHANGED <<backlog, remaining, allocated, users_timer, user_data>>
  BY <1>13 DEF ReadRequest, WriteHangs, kernelVars, listenVars, timerVars, userVars
<1>14. ASSUME NEW w \in Workers, WorkerStep(w)
       PROVE  UNCHANGED <<backlog, remaining, allocated, users_timer, user_data>>
  BY <1>14, WorkerEffect DEF listenVars, timerVars
<1>15. CASE UNCHANGED <<backlog, remaining, allocated, users_timer, user_data>>
  BY <1>1, <1>15 DEF TimersOK
<1>16. QED
  BY <1>2, <1>3, <1>4, <1>5, <1>6, <1>7, <1>9, <1>10, <1>11, <1>12, <1>13, <1>14, <1>15
     DEF Next, MainStep, Deals, Adjusts

(* The histories of what was closed only grow: by what a worker closes ... *)
LEMMA DroppedEffect ==
  ASSUME Shape, [Next]_vars
  PROVE  \/ UNCHANGED dropped
         \/ \E w \in Workers : /\ CloseConn(w) /\ running[w] \in Fds
                               /\ dropped' = dropped \cup {running[w]}
<1>1. CASE Connect \/ ClientStep \/ TimePasses \/ Terminate \/ UNCHANGED vars
  BY <1>1 DEF Connect, ClientStep, SendPart, SendRequest, HangUp, TimePasses, Terminate, vars, closedVars
<1>2. CASE EpollWait \/ Accept \/ Refuse \/ AcceptFails \/ HandleSignal \/ AfterAppend
           \/ EndOfEvents \/ TimerHandler \/ Stop
  BY <1>2 DEF EpollWait, Accept, Refuse, AcceptFails, HandleSignal, AfterAppend, EndOfEvents,
              TimerHandler, Stop, closedVars
<1>3. ASSUME NEW fd \in Fds, ConnStep(fd) PROVE UNCHANGED dropped
  BY <1>3, DealsEffect DEF ConnStep, Deals, ReadRequest, WriteKeeps, WriteBlocks, WriteHangs,
                           ReactorHandOver, closedVars
<1>4. ASSUME NEW w \in Workers, CloseConn(w)
      PROVE  UNCHANGED dropped \/ (running[w] \in Fds /\ dropped' = dropped \cup {running[w]})
  BY <1>4 DEF CloseConn, Shape, PoolOK
<1>5. ASSUME NEW w \in Workers, WorkerStep(w), ~CloseConn(w) PROVE UNCHANGED dropped
  BY <1>5 DEF WorkerStep, Take, Process, Rearm, Return, LoadCount, StoreCount, ClearSocketfd, closedVars
<1>6. QED
  BY <1>1, <1>2, <1>3, <1>4, <1>5 DEF Next, MainStep, ConnStep

(* ... and by the connections of a worker or the queue that cb_func        *)
(* closes.                                                                 *)
LEMMA OutlivedEffect ==
  ASSUME Shape, [Next]_vars
  PROVE  \/ UNCHANGED outlived
         \/ \E closed \in SUBSET Fds : outlived' = outlived \cup {fd \in closed : InPool(fd)}
<1>1. CASE Connect \/ ClientStep \/ TimePasses \/ Terminate \/ UNCHANGED vars
  BY <1>1 DEF Connect, ClientStep, SendPart, SendRequest, HangUp, TimePasses, Terminate, vars, closedVars
<1>2. CASE EpollWait \/ Accept \/ Refuse \/ AcceptFails \/ HandleSignal \/ AfterAppend
           \/ EndOfEvents \/ Stop
  BY <1>2 DEF EpollWait, Accept, Refuse, AcceptFails, HandleSignal, AfterAppend, EndOfEvents,
              Stop, closedVars
<1>3. CASE TimerHandler
  <2> DEFINE closed == {user_data[t] : t \in allocated \ allocated'}
  <2>1. closed \in SUBSET Fds
    BY DEF Shape, TimersOK
  <2>2. outlived' = outlived \cup {fd \in closed : InPool(fd)}
    BY <1>3 DEF TimerHandler, CbFunc
  <2> HIDE DEF closed
  <2>3. QED
    BY <2>1, <2>2
<1>4. ASSUME NEW fd \in Fds, Deals(fd)
      PROVE  {fd} \in SUBSET Fds /\ outlived' = outlived \cup {f \in {fd} : InPool(f)}
  BY <1>4, DealsEffect DEF CbFunc
<1>5. ASSUME NEW fd \in Fds, ConnStep(fd), ~Deals(fd) PROVE UNCHANGED outlived
  BY <1>5 DEF ConnStep, Deals, ReadRequest, WriteKeeps, WriteBlocks, WriteHangs, ReactorHandOver,
              closedVars
<1>6. ASSUME NEW w \in Workers, WorkerStep(w) PROVE UNCHANGED outlived
  BY <1>6 DEF WorkerStep, Take, Process, Rearm, Return, CloseConn, LoadCount, StoreCount,
              ClearSocketfd, closedVars
<1>7. QED
  BY <1>1, <1>2, <1>3, <1>4, <1>5, <1>6 DEF Next, MainStep, ConnStep

LEMMA ClosedStep == Shape /\ [Next]_vars => ClosedOK' /\ dropped \subseteq dropped' /\ outlived \subseteq outlived'
<1> SUFFICES ASSUME Shape, [Next]_vars
             PROVE  ClosedOK' /\ dropped \subseteq dropped' /\ outlived \subseteq outlived'
  OBVIOUS
<1>1. ClosedOK
  BY DEF Shape
<1>2. dropped \subseteq dropped' /\ dropped' \subseteq Fds
  BY <1>1, DroppedEffect DEF ClosedOK
<1>3. outlived \subseteq outlived' /\ outlived' \subseteq Fds
  BY <1>1, OutlivedEffect DEF ClosedOK
<1>4. QED
  BY <1>2, <1>3 DEF ClosedOK

(* Every step keeps the shape. *)
LEMMA ShapeStep == Shape /\ [Next]_vars => Shape'
  BY KernelStep, ListenStep, LoopStep, ObjectsStep, PoolStep, TimersStep, ClosedStep DEF Shape

-------------------------------------------------------------------------------
(* What epoll reports                                                      *)

(* The descriptors in epoll's set are the open ones. *)
Registered == \A fd \in Fds : interest[fd] # "none" <=> Open(fd)

(* A batch has at most one event of a connection. *)
OnceReported == \A d, e \in events : d.fd = e.fd /\ d.fd \in Fds => d = e

(* Steps that concern neither a connection nor its timer. *)
Aside == Connect \/ Terminate \/ Refuse \/ AcceptFails \/ HandleSignal \/ EndOfEvents \/ Stop
         \/ UNCHANGED vars

(* These steps concern no connection. *)
LEMMA AsideEffect ==
  ASSUME Aside
  PROVE  /\ UNCHANGED <<client, inbox, interest, sockfd, userVars, timerVars, poolVars, workerVars>>
         /\ events' \subseteq events
         /\ loop' = loop \/ (loop # "adjust" /\ loop' # "adjust")
<1>1. CASE Connect \/ Terminate \/ UNCHANGED vars
  BY <1>1 DEF Connect, Terminate, vars, kernelVars, loopVars
<1>2. CASE Refuse \/ AcceptFails
  BY <1>2 DEF Refuse, AcceptFails, CallAccept, Handle
<1>3. CASE HandleSignal
  BY <1>3 DEF HandleSignal, Handle
<1>4. CASE EndOfEvents \/ Stop
  BY <1>4 DEF EndOfEvents, Stop, kernelVars
<1>5. QED
  BY <1>1, <1>2, <1>3, <1>4 DEF Aside

(* An event of a connection is reported for a descriptor that epoll        *)
(* watches.                                                                *)
LEMMA ReadyEvents ==
  /\ \A e \in Ready : e.fd \in Fds => interest[e.fd] \in {"in", "out"}
  /\ \A d, e \in Ready : d.fd = e.fd /\ d.fd \in Fds => d = e
<1>1. Listen.fd \notin Fds /\ Signal.fd \notin Fds
  BY Constants DEF Listen, Signal
<1>2. \A e \in Ready : e.fd \in Fds =>
         /\ interest[e.fd] \in {"in", "out"}
         /\ e = Event(e.fd, IF client[e.fd] = "gone" THEN "hup" ELSE interest[e.fd])
  <2> SUFFICES ASSUME NEW e \in Ready, e.fd \in Fds
               PROVE  /\ interest[e.fd] \in {"in", "out"}
                      /\ e = Event(e.fd, IF client[e.fd] = "gone" THEN "hup" ELSE interest[e.fd])
    OBVIOUS
  <2>1. e # Listen /\ e # Signal
    BY <1>1
  <2>2. \/ \E fd \in Fds : e = Event(fd, "hup") /\ interest[fd] \in {"in", "out"} /\ client[fd] = "gone"
        \/ \E fd \in Fds : e = Event(fd, "in") /\ interest[fd] = "in" /\ client[fd] # "gone"
        \/ \E fd \in Fds : e = Event(fd, "out") /\ interest[fd] = "out" /\ client[fd] # "gone"
    BY <2>1 DEF Ready
  <2>3. QED
    BY <2>2 DEF Event
<1>3. QED
  BY <1>2

(* Only epoll_wait() adds events to a batch. *)
LEMMA EventsShrink == [Next]_vars => EpollWait \/ events' \subseteq events
<1> SUFFICES ASSUME [Next]_vars, ~EpollWait PROVE events' \subseteq events
  OBVIOUS
<1>1. CASE Aside
  BY <1>1, AsideEffect
<1>2. CASE Accept
  BY <1>2 DEF Accept, CallAccept, Handle
<1>3. ASSUME NEW fd \in Fds, ConnStep(fd) PROVE events' \subseteq events
  BY <1>3, ConnStepHandles
<1>4. CASE ClientStep \/ TimePasses
  BY <1>4 DEF ClientStep, SendPart, SendRequest, HangUp, TimePasses, loopVars
<1>5. CASE AfterAppend \/ TimerHandler
  BY <1>5 DEF AfterAppend, TimerHandler
<1>6. ASSUME NEW w \in Workers, WorkerStep(w) PROVE events' \subseteq events
  BY <1>6, WorkerEffect DEF loopVars
<1>7. QED
  BY <1>1, <1>2, <1>3, <1>4, <1>5, <1>6 DEF Next, MainStep, ConnStep, Aside

(* A descriptor is in a batch once. *)
LEMMA OnceReportedStep == OnceReported /\ [Next]_vars => OnceReported'
<1> SUFFICES ASSUME OnceReported, [Next]_vars PROVE OnceReported'
  OBVIOUS
<1>1. CASE EpollWait
  <2>1. events' = Ready
    BY <1>1 DEF EpollWait
  <2>2. QED
    BY <2>1, ReadyEvents DEF OnceReported
<1>2. CASE events' \subseteq events
  BY <1>2 DEF OnceReported
<1>3. QED
  BY <1>1, <1>2, EventsShrink

(* What a step can do to the sockets and to epoll's set. *)
LEMMA KernelEffects ==
  ASSUME Shape, [Next]_vars
  PROVE  \/ ClientStep \/ EpollWait \/ Accept
         \/ \E closed : Close(closed)
         \/ \E fd \in Fds, ev \in {"in", "out"} :
               interest' = Modfd(fd, ev) /\ inbox' = inbox /\ client' \in {client, Answered(fd)}
         \/ UNCHANGED <<client, interest>>
<1> DEFINE Goal ==
         \/ \E closed : Close(closed)
         \/ \E fd \in Fds, ev \in {"in", "out"} :
               interest' = Modfd(fd, ev) /\ inbox' = inbox /\ client' \in {client, Answered(fd)}
         \/ UNCHANGED <<client, interest>>
<1>1. CASE Aside \/ TimePasses \/ AfterAppend
  BY <1>1, AsideEffect DEF TimePasses, AfterAppend, kernelVars
<1>2. CASE TimerHandler
  BY <1>2 DEF TimerHandler, CbFunc
<1>3. ASSUME NEW fd \in Fds, Deals(fd) PROVE Goal
  <2>1. Close({fd})
    BY <1>3, DealsEffect
  <2>2. QED
    BY <2>1
<1>4. ASSUME NEW fd \in Fds, ReadRequest(fd) \/ ReactorHandOver(fd) \/ WriteHangs(fd)
      PROVE  UNCHANGED <<client, interest>>
  BY <1>4 DEF ReadRequest, ReactorHandOver, WriteHangs, kernelVars
<1>5. ASSUME NEW fd \in Fds, WriteKeeps(fd) PROVE Goal
  <2>1. interest' = Modfd(fd, "in") /\ inbox' = inbox /\ client' \in {client, Answered(fd)}
    BY <1>5 DEF WriteKeeps
  <2>2. QED
    BY <2>1
<1>6. ASSUME NEW fd \in Fds, WriteBlocks(fd) PROVE Goal
  <2>1. interest' = Modfd(fd, "out") /\ inbox' = inbox /\ client' = client
    BY <1>6 DEF WriteBlocks
  <2>2. QED
    BY <2>1
<1>7. ASSUME NEW w \in Workers, Rearm(w) PROVE Goal
  <2>1. running[w] \in Fds
    BY <1>7 DEF Rearm, Shape, PoolOK
  <2>2. \/ interest' = Modfd(running[w], "in") /\ inbox' = inbox /\ client' = client
        \/ interest' = Modfd(running[w], "out") /\ inbox' = inbox /\ client' = client
    BY <1>7 DEF Rearm
  <2>3. QED
    BY <2>1, <2>2
<1>8. ASSUME NEW w \in Workers, CloseConn(w) PROVE Goal
  BY <1>8 DEF CloseConn
<1>9. ASSUME NEW w \in Workers, Take(w) \/ Process(w) \/ Return(w) \/ LoadCount(w) \/ StoreCount(w)
                                 \/ ClearSocketfd(w)
      PROVE  UNCHANGED <<client, interest>>
  BY <1>9 DEF Take, Process, Return, LoadCount, StoreCount, ClearSocketfd, kernelVars
<1>10. ClientStep \/ EpollWait \/ Accept \/ Goal
  BY <1>1, <1>2, <1>3, <1>4, <1>5, <1>6, <1>7, <1>8, <1>9
     DEF Next, MainStep, WorkerStep, Deals, Aside
<1>11. QED
  BY <1>10

(* epoll's set is the set of open descriptors. *)
LEMMA RegisteredStep == Shape /\ Registered /\ [Next]_vars => Registered'
<1> SUFFICES ASSUME Shape, Registered, [Next]_vars PROVE Registered'
  OBVIOUS
<1>1. KernelOK
  BY DEF Shape
<1> USE DEF Registered, Open
<1>2. CASE ClientStep
  BY <1>1, <1>2 DEF ClientStep, SendPart, SendRequest, HangUp, KernelOK
<1>3. CASE EpollWait
  <2>1. client' = client /\ interest' = Disarmed(Ready)
    BY <1>3 DEF EpollWait
  <2>2. \A fd \in Fds : interest'[fd] = interest[fd]
                        \/ (interest'[fd] = "off" /\ \E e \in Ready : e.fd = fd)
    BY <2>1 DEF Disarmed
  <2>3. \A fd \in Fds : interest'[fd] = interest[fd]
                        \/ (interest'[fd] = "off" /\ interest[fd] \in {"in", "out"})
    BY <2>2, ReadyEvents
  <2>4. QED
    BY <2>1, <2>3
<1>4. CASE Accept
  <2>1. PICK fd \in Fds : client' = [client EXCEPT ![fd] = "idle"] /\ interest' = [interest EXCEPT ![fd] = "in"]
    BY <1>4, AcceptEffect
  <2>2. QED
    BY <1>1, <2>1 DEF KernelOK
<1>5. ASSUME NEW closed, Close(closed) PROVE Registered'
  BY <1>5 DEF Close
<1>6. ASSUME NEW fd \in Fds, NEW ev \in {"in", "out"}, interest' = Modfd(fd, ev),
             client' \in {client, Answered(fd)}
      PROVE  Registered'
  <2>1. \A f \in Fds : interest'[f] # "none" <=> interest[f] # "none"
    BY <1>1, <1>6 DEF Modfd, KernelOK
  <2>2. \A f \in Fds : client'[f] # "none" <=> client[f] # "none"
    BY <1>1, <1>6 DEF Answered, KernelOK
  <2>3. QED
    BY <2>1, <2>2
<1>7. CASE UNCHANGED <<client, interest>>
  BY <1>7
<1>8. QED
  BY <1>2, <1>3, <1>4, <1>5, <1>6, <1>7, KernelEffects

-------------------------------------------------------------------------------
(* Timers in use                                                           *)

(* Only accept() opens a descriptor. *)
LEMMA OpenShrinks ==
  ASSUME Shape, [Next]_vars, ~Accept
  PROVE  \A fd \in Fds : Open(fd)' => Open(fd)
<1> USE DEF Open
<1>1. KernelOK
  BY DEF Shape
<1>2. CASE ClientStep
  BY <1>1, <1>2 DEF ClientStep, SendPart, SendRequest, HangUp, KernelOK
<1>3. CASE EpollWait
  BY <1>3 DEF EpollWait
<1>4. ASSUME NEW closed, Close(closed) PROVE \A fd \in Fds : client'[fd] # "none" => client[fd] # "none"
  BY <1>4 DEF Close
<1>5. ASSUME NEW fd \in Fds, client' \in {client, Answered(fd)}
      PROVE  \A f \in Fds : client'[f] # "none" => client[f] # "none"
  BY <1>1, <1>5 DEF Answered, KernelOK
<1>6. QED
  BY <1>2, <1>3, <1>4, <1>5, KernelEffects

(* A dead process takes no step. *)
LEMMA OnlyTheLiving == Next => fault = "none"
<1> SUFFICES ASSUME Next PROVE fault = "none"
  OBVIOUS
<1>1. CASE Connect \/ ClientStep \/ TimePasses \/ Terminate
  BY <1>1 DEF Connect, ClientStep, SendPart, SendRequest, HangUp, TimePasses, Terminate, Alive
<1>2. CASE EpollWait \/ Accept \/ Refuse \/ AcceptFails \/ HandleSignal \/ EndOfEvents \/ Stop
  BY <1>2 DEF EpollWait, Accept, Refuse, AcceptFails, CallAccept, HandleSignal, Handle, EndOfEvents, Stop, Alive
<1>3. CASE AfterAppend
  BY <1>3, AdjustEffect DEF AfterAppend
<1>4. CASE TimerHandler
  BY <1>4, TickEffect DEF TimerHandler
<1>5. ASSUME NEW fd \in Fds, ConnStep(fd) PROVE fault = "none"
  BY <1>5, ConnStepHandles
<1>6. ASSUME NEW w \in Workers, WorkerStep(w) PROVE fault = "none"
  BY <1>6, WorkerEffect DEF Alive
<1>7. QED
  BY <1>1, <1>2, <1>3, <1>4, <1>5, <1>6 DEF Next, MainStep, ConnStep

(* Connections whose timer the event loop may still use. *)
Used(fd) == Open(fd) \/ HasEvent(fd) \/ (loop = "adjust" /\ sockfd = fd)

HasTimer(fd) == users_timer[fd] \in allocated /\ user_data[users_timer[fd]] = fd

(* Steps that delete no timer put no connection in use that was not. *)
LEMMA UsedShrinks ==
  ASSUME Shape, Registered, [Next]_vars, ~Accept
  PROVE  \A fd \in Fds : Used(fd)' => Used(fd)
<1> SUFFICES ASSUME NEW fd \in Fds, Used(fd)' PROVE Used(fd)
  OBVIOUS
<1>1. CASE Open(fd)'
  BY <1>1, OpenShrinks DEF Used
<1>2. CASE HasEvent(fd)'
  <2>1. CASE EpollWait
    <3>1. \E e \in Ready : e.fd = fd
      BY <1>2, <2>1 DEF HasEvent, EpollWait
    <3>2. interest[fd] \in {"in", "out"}
      BY <3>1, ReadyEvents
    <3>3. QED
      BY <3>2 DEF Registered, Used
  <2>2. CASE events' \subseteq events
    BY <1>2, <2>2 DEF HasEvent, Used
  <2>3. QED
    BY <2>1, <2>2, EventsShrink
<1>3. CASE loop' = "adjust" /\ sockfd' = fd
  <2>1. ASSUME NEW f \in Fds, ConnStep(f) PROVE Used(fd)
    <3>1. \E what : Event(f, what) \in events
      BY <2>1, ConnStepHandles
    <3>2. HasEvent(f)
      BY <3>1 DEF HasEvent, Event
    <3>3. f = fd
      BY <1>3, <2>1, ConnStepHandles
    <3>4. QED
      BY <3>2, <3>3 DEF Used
  <2>2. CASE Aside
    BY <1>3, <2>2, AsideEffect DEF Used
  <2>3. CASE EpollWait \/ AfterAppend \/ TimerHandler
    BY <1>3, <2>3 DEF EpollWait, AfterAppend, TimerHandler
  <2>4. CASE ClientStep \/ TimePasses
    BY <1>3, <2>4 DEF ClientStep, SendPart, SendRequest, HangUp, TimePasses, loopVars, Used
  <2>5. ASSUME NEW w \in Workers, WorkerStep(w) PROVE Used(fd)
    BY <1>3, <2>5, WorkerEffect DEF loopVars, Used
  <2>6. QED
    BY <2>1, <2>2, <2>3, <2>4, <2>5 DEF Next, MainStep, ConnStep, Aside
<1>4. QED
  BY <1>1, <1>2, <1>3 DEF Used

(* Only deal_timer() and timer_handler() delete timers. *)
LEMMA TimersKept ==
  ASSUME [Next]_vars, ~Accept, ~TimerHandler, \A fd \in Fds : ~Deals(fd)
  PROVE  UNCHANGED <<allocated, users_timer, user_data>>
<1>1. CASE Aside
  BY <1>1, AsideEffect DEF userVars, timerVars
<1>2. CASE ClientStep \/ EpollWait
  BY <1>2 DEF ClientStep, SendPart, SendRequest, HangUp, EpollWait, userVars, timerVars
<1>3. CASE TimePasses
  BY <1>3, PassEffect DEF TimePasses, userVars
<1>4. CASE AfterAppend
  BY <1>4, AdjustEffect DEF AfterAppend, userVars
<1>5. ASSUME NEW fd \in Fds, Adjusts(fd) PROVE UNCHANGED <<allocated, users_timer, user_data>>
  BY <1>5, AdjustsEffect, AdjustEffect
<1>6. ASSUME NEW fd \in Fds, ReadRequest(fd) \/ WriteHangs(fd)
      PROVE  UNCHANGED <<allocated, users_timer, user_data>>
  BY <1>6 DEF ReadRequest, WriteHangs, userVars, timerVars
<1>7. ASSUME NEW w \in Workers, WorkerStep(w) PROVE UNCHANGED <<allocated, users_timer, user_data>>
  BY <1>7, WorkerEffect DEF timerVars
<1>8. QED
  BY <1>1, <1>2, <1>3, <1>4, <1>5, <1>6, <1>7 DEF Next, MainStep, Aside, Adjusts, Deals

TimersInv == Shape /\ Registered /\ OnceReported /\ TimersInUseExist

(* No step deletes the timer that a handler is going to use. *)
LEMMA InUseStep == TimersInv /\ [Next]_vars => TimersInUseExist'
<1> SUFFICES ASSUME TimersInv, [Next]_vars, fault' = "none", NEW fd \in Fds, Used(fd)'
             PROVE  HasTimer(fd)'
  BY DEF TimersInUseExist, Used, HasTimer, Open, HasEvent
<1>1. fault = "none"
  BY OnlyTheLiving DEF vars, timerVars
<1>2. Shape /\ TimersOK /\ Registered /\ OnceReported
  BY DEF TimersInv, Shape
<1>3. \A f \in Fds : Used(f) => HasTimer(f)
  BY <1>1 DEF TimersInv, TimersInUseExist, Used, HasTimer
<1>4. CASE Accept
  <2>1. PICK f \in Fds, t \in Timers :
            /\ t \notin allocated /\ loop' = AfterAccept /\ events' \subseteq events
            /\ client' = [client EXCEPT ![f] = "idle"]
            /\ users_timer' = [users_timer EXCEPT ![f] = t]
            /\ user_data' = [user_data EXCEPT ![t] = f]
            /\ TL!AddTimer(t)
    BY <1>2, <1>4, AcceptEffect
  <2>2. allocated' = allocated \cup {t}
    BY <2>1, AddEffect
  <2>3. CASE fd = f
    BY <1>2, <2>1, <2>2, <2>3 DEF TimersOK, HasTimer
  <2>4. CASE fd # f
    <3>1. loop' # "adjust"
      BY <2>1 DEF AfterAccept
    <3>2. Open(fd) \/ HasEvent(fd)
      BY <2>1, <2>4, <3>1 DEF Used, Open, HasEvent
    <3>3. HasTimer(fd)
      BY <1>3, <3>2 DEF Used
    <3>4. users_timer[fd] # t
      BY <2>1, <3>3 DEF HasTimer
    <3>5. QED
      BY <1>2, <2>1, <2>2, <2>4, <3>3, <3>4 DEF TimersOK, HasTimer
  <2>5. QED
    BY <2>3, <2>4
<1>5. CASE TimerHandler
  <2>1. HasTimer(fd)
    <3>1. ~Accept
      BY <1>5 DEF Accept, TimerHandler, AfterAccept
    <3>2. QED
      BY <1>2, <1>3, <3>1, UsedShrinks
  <2>2. /\ events = {} /\ events' = events /\ loop' = "epoll_wait" /\ UNCHANGED <<users_timer, user_data>>
        /\ Close({user_data[t] : t \in allocated \ allocated'})
    BY <1>5 DEF TimerHandler, CbFunc
  <2>3. Open(fd)'
    BY <2>2 DEF Used, HasEvent
  <2>4. fd \notin {user_data[t] : t \in allocated \ allocated'}
    BY <2>2, <2>3 DEF Open, Close
  <2>5. users_timer[fd] \in allocated'
    BY <2>1, <2>4 DEF HasTimer
  <2>6. QED
    BY <2>1, <2>2, <2>5 DEF HasTimer
<1>6. ASSUME NEW f \in Fds, Deals(f) PROVE HasTimer(fd)'
  <2>1. /\ UNCHANGED <<users_timer, user_data>> /\ loop' = "events"
        /\ \E what \in {"in", "out", "hup"} :
              Event(f, what) \in events /\ events' = events \ {Event(f, what)}
    BY <1>6, ConnStepHandles, DealsEffect DEF ConnStep, Deals
  <2>2. Close({f}) /\ TL!DelTimer(users_timer[f])
    BY <1>6, DealsEffect
  <2>3. allocated' = allocated \ {users_timer[f]}
    BY <2>2, DelEffect
  <2>4. ~HasEvent(f)'
    <3>1. PICK what \in {"in", "out", "hup"} :
             Event(f, what) \in events /\ events' = events \ {Event(f, what)}
      BY <2>1
    <3>2. \A e \in events : e.fd = f => e = Event(f, what)
      BY <1>2, <3>1 DEF OnceReported, Event
    <3>3. QED
      BY <3>1, <3>2 DEF HasEvent
  <2>5. ~Open(f)'
    BY <2>2 DEF Close, Open
  <2>6. fd # f
    BY <2>1, <2>4, <2>5 DEF Used
  <2>7. HasEvent(f)
    BY <2>1 DEF HasEvent, Event
  <2>8. HasTimer(f)
    BY <1>3, <2>7 DEF Used
  <2>9. HasTimer(fd)
    <3>1. Open(fd)' => Open(fd)
      BY <2>2 DEF Close, Open
    <3>2. HasEvent(fd)' => HasEvent(fd)
      BY <2>1 DEF HasEvent
    <3>3. QED
      BY <1>3, <2>1, <3>1, <3>2 DEF Used
  <2>10. QED
    BY <2>1, <2>3, <2>6, <2>8, <2>9 DEF HasTimer
<1>7. CASE ~Accept /\ ~TimerHandler /\ \A f \in Fds : ~Deals(f)
  <2>1. HasTimer(fd)
    BY <1>2, <1>3, <1>7, UsedShrinks
  <2>2. UNCHANGED <<allocated, users_timer, user_data>>
    BY <1>7, TimersKept
  <2>3. QED
    BY <2>1, <2>2 DEF HasTimer
<1>8. QED
  BY <1>4, <1>5, <1>6, <1>7

(* Until a fault ends the program, the timer that the event loop uses for  *)
(* a connection exists and belongs to it, whatever the workers close, for  *)
(* any number of connections and workers: deal_timer(), timer_handler()    *)
(* and the handlers of one batch never delete a timer twice or use it      *)
(* after its deletion.                                                     *)
THEOREM TimersInUseAreNotDeleted == Spec => []TimersInUseExist
<1>1. Init => TimersInv
  <2>1. Init => Registered /\ OnceReported /\ TimersInUseExist
    BY DEF Init, Registered, Open, OnceReported, TimersInUseExist, HasEvent
  <2>2. QED
    BY <2>1, ShapeInit DEF TimersInv
<1>2. TimersInv /\ [Next]_vars => TimersInv'
  BY ShapeStep, RegisteredStep, OnceReportedStep, InUseStep DEF TimersInv
<1>3. TimersInv => TimersInUseExist
  BY DEF TimersInv
<1>4. QED
  BY <1>1, <1>2, <1>3, PTL DEF Spec, SafeSpec

-------------------------------------------------------------------------------
(* One owner                                                               *)

(* A connection is not twice in the pool. *)
HeldOnce(fd) ==
    /\ \A i, j \in DOMAIN pending : pending[i] = fd /\ pending[j] = fd => i = j
    /\ \A v, w \in Holders(fd) : v = w
    /\ Holders(fd) # {} => \A i \in DOMAIN pending : pending[i] # fd

(* A connection is open, and epoll is silent about it. *)
Silent(fd) == Open(fd) /\ interest[fd] = "off" /\ ~HasEvent(fd)

OwnedOnce == \A fd \in Fds : InPool(fd) /\ Intact(fd) => HeldOnce(fd) /\ Silent(fd)

(* Every timer belongs to an open connection, unless a worker closed it.   *)
TimersOwned ==
    fault = "none" => \A t \in allocated : user_data[t] \notin dropped =>
        Open(user_data[t]) /\ users_timer[user_data[t]] = t

OwnerInv == TimersInv /\ OwnedOnce /\ EventsAreFresh /\ TimersOwned

(* Indices of a sequence that got one more element. *)
LEMMA AppendIndex ==
  ASSUME NEW S, NEW s \in Seq(S), NEW x \in S
  PROVE  /\ DOMAIN s \subseteq DOMAIN Append(s, x)
         /\ \A i \in DOMAIN s : Append(s, x)[i] = s[i]
         /\ \E last : \A i \in DOMAIN Append(s, x) : i \in DOMAIN s \/ (i = last /\ Append(s, x)[i] = x)
<1>1. DOMAIN s = 1 .. Len(s) /\ Len(s) \in Nat
  BY LenProperties
<1>2. /\ Append(s, x) \in Seq(S) /\ Len(Append(s, x)) = Len(s) + 1
      /\ \A i \in 1 .. Len(s) : Append(s, x)[i] = s[i]
      /\ Append(s, x)[Len(s) + 1] = x
  BY AppendProperties
<1>3. DOMAIN Append(s, x) = 1 .. Len(s) + 1
  BY <1>2, LenProperties
<1>4. \A i \in 1 .. Len(s) + 1 : i \in 1 .. Len(s) \/ i = Len(s) + 1
  BY <1>1
<1>5. 1 .. Len(s) \subseteq 1 .. Len(s) + 1
  BY <1>1
<1>6. \A i \in DOMAIN Append(s, x) : i \in DOMAIN s \/ (i = Len(s) + 1 /\ Append(s, x)[i] = x)
  BY <1>1, <1>2, <1>3, <1>4
<1>7. QED
  BY <1>1, <1>2, <1>3, <1>5, <1>6

(* Indices of a sequence that lost its first element. *)
LEMMA TailIndex ==
  ASSUME NEW S, NEW s \in Seq(S), s # <<>>
  PROVE  /\ 1 \in DOMAIN s /\ Head(s) = s[1]
         /\ \A i \in DOMAIN Tail(s) : i \in Nat /\ i + 1 \in DOMAIN s /\ i + 1 # 1 /\ Tail(s)[i] = s[i + 1]
<1>1. DOMAIN s = 1 .. Len(s) /\ Len(s) \in Nat /\ Len(s) # 0
  BY LenProperties, EmptySeq
<1>2. /\ Tail(s) \in Seq(S) /\ Len(Tail(s)) = Len(s) - 1
      /\ \A i \in 1 .. Len(Tail(s)) : Tail(s)[i] = s[i + 1]
  BY HeadTailProperties
<1>3. DOMAIN Tail(s) = 1 .. Len(s) - 1
  BY <1>2, LenProperties
<1>4. \A i \in 1 .. Len(s) - 1 : i \in Nat /\ i + 1 \in 1 .. Len(s) /\ i + 1 # 1
  BY <1>1
<1>5. 1 \in DOMAIN s
  BY <1>1
<1>6. QED
  BY <1>1, <1>2, <1>3, <1>4, <1>5

(* append() and append_p() put into the pool what was not there. *)
LEMMA AppendHolds ==
  ASSUME PoolOK, NEW f \in Fds, AppendRequest(f), step' = step, NEW fd \in Fds
  PROVE  /\ InPool(fd)' => InPool(fd) \/ f = fd
         /\ HeldOnce(fd) /\ (f = fd => ~InPool(fd)) => HeldOnce(fd)'
<1>1. running' = running /\ pending \in Seq(Fds)
  BY AppendOK DEF PoolOK
<1>2. Holders(fd)' = Holders(fd)
  BY <1>1 DEF Holders
<1>3. CASE pending' = pending
  BY <1>2, <1>3 DEF HeldOnce, InPool
<1>4. CASE pending' = Append(pending, f)
  <2>1. PICK last : \A i \in DOMAIN pending' : i \in DOMAIN pending \/ (i = last /\ pending'[i] = f)
    BY <1>1, <1>4, AppendIndex, SMTT(60)
  <2>2. \A i \in DOMAIN pending : pending'[i] = pending[i]
    BY <1>1, <1>4, AppendIndex
  <2>3. InPool(fd)' => InPool(fd) \/ f = fd
    BY <1>2, <2>1, <2>2 DEF InPool
  <2>4. ASSUME HeldOnce(fd), f = fd => ~InPool(fd) PROVE HeldOnce(fd)'
    <3>1. CASE f = fd
      <4>1. Holders(fd) = {} /\ \A i \in DOMAIN pending : pending[i] # fd
        BY <2>4, <3>1 DEF InPool
      <4>2. QED
        BY <1>2, <2>1, <2>2, <4>1 DEF HeldOnce
    <3>2. CASE f # fd
      <4>1. \A i \in DOMAIN pending' : pending'[i] = fd => i \in DOMAIN pending /\ pending[i] = fd
        BY <2>1, <2>2, <3>2
      <4>2. QED
        BY <1>2, <2>4, <4>1 DEF HeldOnce
    <3>3. QED
      BY <3>1, <3>2
  <2>5. QED
    BY <2>3, <2>4
<1>5. QED
  BY <1>3, <1>4, AppendOK

(* A request that a worker takes leaves the queue. *)
LEMMA TakeHolds ==
  ASSUME PoolOK, NEW w \in Workers, Take(w), NEW fd \in Fds
  PROVE  /\ InPool(fd)' => InPool(fd)
         /\ HeldOnce(fd) => HeldOnce(fd)'
<1> DEFINE h == pending[1]
<1>1. /\ pending # <<>> /\ pending \in Seq(Fds) /\ pending' = Tail(pending)
      /\ running[w] = NULL /\ NULL # fd
      /\ running' = [running EXCEPT ![w] = Head(pending)]
      /\ step' = [step EXCEPT ![w] = "process_read"]
  BY TakeEffect, Constants DEF PoolOK
<1>2. /\ 1 \in DOMAIN pending /\ Head(pending) = h
      /\ \A i \in DOMAIN pending' : i \in Nat /\ i + 1 \in DOMAIN pending /\ i + 1 # 1 /\ pending'[i] = pending[i + 1]
  BY <1>1, TailIndex
<1>3. /\ running' = [running EXCEPT ![w] = h] /\ running \in [Workers -> Fds \cup {NULL}]
      /\ step \in [Workers -> Steps]
  BY <1>1, <1>2 DEF PoolOK
<1>4. w \notin Holders(fd)
  BY <1>1 DEF Holders
<1>5. Holders(fd)' = IF h = fd THEN Holders(fd) \cup {w} ELSE Holders(fd)
  <2> HIDE DEF h
  <2>1. running'[w] = h /\ step'[w] = "process_read"
    BY <1>1, <1>3
  <2>2. \A v \in Workers : v # w => running'[v] = running[v] /\ step'[v] = step[v]
    BY <1>1, <1>3
  <2>3. QED
    BY <1>4, <2>1, <2>2 DEF Holders
<1>6. InPool(fd)' => InPool(fd)
  BY <1>2, <1>5 DEF InPool
<1>7. ASSUME HeldOnce(fd) PROVE HeldOnce(fd)'
  <2>1. \A i, j \in DOMAIN pending' : pending'[i] = fd /\ pending'[j] = fd => i = j
    <3>1. \A i, j \in Nat : i + 1 = j + 1 => i = j
      OBVIOUS
    <3>2. \A i, j \in DOMAIN pending' : pending'[i] = fd /\ pending'[j] = fd => i + 1 = j + 1
      BY <1>2, <1>7 DEF HeldOnce
    <3>3. QED
      BY <1>2, <3>1, <3>2
  <2>2. CASE h = fd
    <3>1. Holders(fd) = {}
      BY <1>2, <1>7, <2>2 DEF HeldOnce
    <3>2. \A i \in DOMAIN pending' : pending'[i] # fd
      BY <1>2, <1>7, <2>2 DEF HeldOnce
    <3>3. Holders(fd)' = {w}
      BY <1>5, <2>2, <3>1
    <3>4. QED
      BY <2>1, <3>2, <3>3 DEF HeldOnce
  <2>3. CASE h # fd
    <3>1. Holders(fd)' = Holders(fd)
      BY <1>5, <2>3
    <3>2. Holders(fd) # {} => \A i \in DOMAIN pending' : pending'[i] # fd
      BY <1>2, <1>7 DEF HeldOnce
    <3>3. \A u, v \in Holders(fd) : u = v
      BY <1>7 DEF HeldOnce
    <3>4. QED
      BY <2>1, <3>1, <3>2, <3>3 DEF HeldOnce
  <2>4. QED
    BY <2>2, <2>3
<1>8. QED
  BY <1>6, <1>7

(* Otherwise a worker takes nothing, and gives up what it held at its      *)
(* modfd.                                                                  *)
LEMMA WorkerHolds ==
  ASSUME PoolOK, NEW w \in Workers, WorkerStep(w), ~Take(w), NEW fd \in Fds
  PROVE  /\ pending' = pending /\ Holders(fd)' \subseteq Holders(fd)
         /\ Rearm(w) /\ running[w] = fd => w \in Holders(fd) /\ w \notin Holders(fd)'
<1>1. running \in [Workers -> Fds \cup {NULL}] /\ step \in [Workers -> Steps] /\ NULL # fd
  BY Constants DEF PoolOK
<1>2. CASE Return(w)
  BY <1>1, <1>2, ReturnEffect DEF Holders, Rearm
<1>3. CASE Process(w) \/ Rearm(w) \/ CloseConn(w) \/ LoadCount(w) \/ StoreCount(w) \/ ClearSocketfd(w)
  <2>1. /\ step[w] # "return" /\ UNCHANGED <<pending, running>>
        /\ \E s \in Steps \ {"idle"} : step' = [step EXCEPT ![w] = s] /\ (s = "return" <=> Rearm(w))
    BY <1>3, InProcess
  <2>2. QED
    BY <1>1, <2>1 DEF Holders
<1>4. QED
  BY <1>2, <1>3 DEF WorkerStep

(* Only append(), append_p() and the workers change the pool. *)
LEMMA PoolEffects ==
  ASSUME [Next]_vars
  PROVE  \/ \E fd \in Fds : (ReadRequest(fd) \/ ReactorHandOver(fd)) /\ AppendRequest(fd) /\ step' = step
         \/ \E w \in Workers : WorkerStep(w)
         \/ UNCHANGED <<pending, running, step>>
<1>1. ASSUME NEW fd \in Fds, ReadRequest(fd) \/ ReactorHandOver(fd)
      PROVE  AppendRequest(fd) /\ step' = step
  BY <1>1 DEF ReadRequest, ReactorHandOver, workerVars
<1>2. CASE Aside
  BY <1>2, AsideEffect DEF poolVars, workerVars
<1>3. CASE ClientStep \/ TimePasses \/ EpollWait \/ AfterAppend \/ TimerHandler
  BY <1>3 DEF ClientStep, SendPart, SendRequest, HangUp, TimePasses, EpollWait, AfterAppend,
              TimerHandler, poolVars, workerVars
<1>4. CASE Accept
  BY <1>4 DEF Accept, poolVars, workerVars
<1>5. ASSUME NEW fd \in Fds, Deals(fd) \/ WriteKeeps(fd) \/ WriteBlocks(fd) \/ WriteHangs(fd)
      PROVE  UNCHANGED <<pending, running, step>>
  BY <1>5 DEF Deals, HandleHangUp, ReadFails, WriteEnds, WriteKeeps, WriteBlocks, WriteHangs,
              poolVars, workerVars
<1>6. QED
  BY <1>1, <1>2, <1>3, <1>4, <1>5 DEF Next, MainStep, Aside, Deals

(* Whoever is handed to the pool had an event. *)
LEMMA HandedOver ==
  ASSUME NEW fd \in Fds, ConnStep(fd)
  PROVE  HasEvent(fd)
<1>1. \E what : Event(fd, what) \in events
  BY ConnStepHandles
<1>2. QED
  BY <1>1 DEF HasEvent, Event

(* A connection comes into the pool by append() and append_p(), only while *)
(* it is not there, and leaves it by its modfd.                            *)
LEMMA InPoolStep ==
  ASSUME Shape, [Next]_vars, NEW fd \in Fds, InPool(fd)',
         InPool(fd) => HeldOnce(fd) /\ ~HasEvent(fd)
  PROVE  /\ HeldOnce(fd)'
         /\ \/ InPool(fd) /\ \A w \in Workers : ~(Rearm(w) /\ running[w] = fd)
            \/ ReadRequest(fd) \/ ReactorHandOver(fd)
<1>1. PoolOK
  BY DEF Shape
<1>2. HeldOnce(fd)
  <2>1. ~InPool(fd) => HeldOnce(fd)
    BY DEF InPool, HeldOnce
  <2>2. QED
    BY <2>1
<1>3. ASSUME NEW w \in Workers, WorkerStep(w), ~Take(w)
      PROVE  InPool(fd) /\ HeldOnce(fd)' /\ ~(Rearm(w) /\ running[w] = fd)
  <2>1. /\ pending' = pending /\ Holders(fd)' \subseteq Holders(fd)
        /\ Rearm(w) /\ running[w] = fd => w \in Holders(fd) /\ w \notin Holders(fd)'
    BY <1>1, <1>3, WorkerHolds
  <2>2. InPool(fd) /\ HeldOnce(fd)'
    BY <1>2, <2>1 DEF InPool, HeldOnce
  <2>3. ASSUME Rearm(w), running[w] = fd PROVE FALSE
    <3>1. Holders(fd)' = {} /\ \A i \in DOMAIN pending' : pending'[i] # fd
      BY <1>2, <2>1, <2>3 DEF HeldOnce
    <3>2. QED
      BY <3>1 DEF InPool
  <2>4. QED
    BY <2>2, <2>3
<1>4. ASSUME NEW w \in Workers, Take(w)
      PROVE  InPool(fd) /\ HeldOnce(fd)'
  BY <1>1, <1>2, <1>4, TakeHolds
<1>5. ASSUME NEW w \in Workers, Rearm(w) PROVE WorkerStep(w) /\ ~Take(w)
  BY <1>5 DEF WorkerStep, Rearm, Take
<1>6. SUFFICES HeldOnce(fd)' /\ (InPool(fd) \/ ReadRequest(fd) \/ ReactorHandOver(fd))
  BY <1>3, <1>5
<1>7. ASSUME NEW f \in Fds, ReadRequest(f) \/ ReactorHandOver(f), AppendRequest(f), step' = step
      PROVE  HeldOnce(fd)' /\ (InPool(fd) \/ f = fd)
  <2>1. f = fd => ~InPool(fd)
    BY <1>7, HandedOver DEF ConnStep
  <2>2. QED
    BY <1>1, <1>2, <1>7, <2>1, AppendHolds
<1>8. CASE UNCHANGED <<pending, running, step>>
  <2>1. Holders(fd)' = Holders(fd)
    BY <1>8 DEF Holders
  <2>2. QED
    BY <1>2, <1>8, <2>1 DEF InPool, HeldOnce
<1>9. QED
  BY <1>3, <1>4, <1>7, <1>8, PoolEffects

(* The connections whose timers tick() deletes. *)
Fired(fd) == TimerHandler /\ fd \in {user_data[t] : t \in allocated \ allocated'}

(* What opens, closes and arms a descriptor. *)
LEMMA Undisturbed ==
  ASSUME Shape, [Next]_vars, ~EpollWait,
         NEW fd \in Fds, Open(fd), ~ConnStep(fd), ~Fired(fd), fd \notin dropped',
         \A w \in Workers : ~(Rearm(w) /\ running[w] = fd)
  PROVE  Open(fd)' /\ interest'[fd] = interest[fd]
<1> USE DEF Open
<1>1. KernelOK
  BY DEF Shape
<1>2. CASE Aside \/ TimePasses \/ AfterAppend
  BY <1>2, AsideEffect DEF TimePasses, AfterAppend, kernelVars
<1>3. CASE ClientStep
  BY <1>1, <1>3 DEF ClientStep, SendPart, SendRequest, HangUp, KernelOK
<1>4. CASE Accept
  <2>1. PICK f \in Fds : /\ client[f] = "none" /\ client' = [client EXCEPT ![f] = "idle"]
                         /\ interest' = [interest EXCEPT ![f] = "in"]
    BY <1>4, AcceptEffect
  <2>2. QED
    BY <1>1, <2>1 DEF KernelOK
<1>5. CASE TimerHandler
  <2>1. Close({user_data[t] : t \in allocated \ allocated'})
    BY <1>5 DEF TimerHandler, CbFunc
  <2>2. fd \notin {user_data[t] : t \in allocated \ allocated'}
    BY <1>5 DEF Fired
  <2>3. QED
    BY <2>1, <2>2 DEF Close
<1>6. ASSUME NEW f \in Fds, ConnStep(f) PROVE client'[fd] # "none" /\ interest'[fd] = interest[fd]
  <2>1. f # fd
    BY <1>6
  <2>2. CASE Deals(f)
    <3>1. Close({f})
      BY <2>2, DealsEffect
    <3>2. QED
      BY <2>1, <3>1 DEF Close
  <2>3. CASE ReadRequest(f) \/ ReactorHandOver(f) \/ WriteHangs(f)
    BY <2>3 DEF ReadRequest, ReactorHandOver, WriteHangs, kernelVars
  <2>4. CASE WriteKeeps(f) \/ WriteBlocks(f)
    <3>1. \E ev : interest' = Modfd(f, ev)
      BY <2>4 DEF WriteKeeps, WriteBlocks
    <3>2. client' \in {client, Answered(f)}
      BY <2>4 DEF WriteKeeps, WriteBlocks
    <3>3. QED
      BY <1>1, <2>1, <3>1, <3>2 DEF Modfd, Answered, KernelOK
  <2>5. QED
    BY <1>6, <2>2, <2>3, <2>4 DEF ConnStep, Deals
<1>7. ASSUME NEW w \in Workers, WorkerStep(w) PROVE client'[fd] # "none" /\ interest'[fd] = interest[fd]
  <2>1. CASE Rearm(w)
    <3>1. running[w] # fd /\ client' = client /\ \E ev : interest' = Modfd(running[w], ev)
      BY <2>1 DEF Rearm
    <3>2. QED
      BY <1>1, <3>1 DEF Modfd, KernelOK
  <2>2. CASE Take(w) \/ Process(w) \/ Return(w) \/ LoadCount(w) \/ StoreCount(w) \/ ClearSocketfd(w)
    BY <2>2 DEF Take, Process, Return, LoadCount, StoreCount, ClearSocketfd, kernelVars
  <2>3. CASE CloseConn(w)
    <3>1. CASE UNCHANGED <<client, interest>>
      BY <3>1
    <3>2. CASE Close({running[w]}) /\ running[w] \in dropped'
      BY <3>2 DEF Close
    <3>3. QED
      BY <2>3, <3>1, <3>2 DEF CloseConn
  <2>4. QED
    BY <1>7, <2>1, <2>2, <2>3 DEF WorkerStep
<1>8. QED
  BY <1>2, <1>3, <1>4, <1>5, <1>6, <1>7 DEF Next, MainStep, ConnStep, Aside

(* What closes a connection: its own event, its timer, or its worker.      *)
LEMMA StaysOpen ==
  ASSUME Shape, [Next]_vars, NEW fd \in Fds, Open(fd), ~Deals(fd), ~Fired(fd), fd \notin dropped'
  PROVE  Open(fd)'
<1>1. KernelOK
  BY DEF Shape
<1>2. CASE EpollWait
  BY <1>2 DEF EpollWait, Open
<1>3. CASE ReadRequest(fd) \/ ReactorHandOver(fd) \/ WriteHangs(fd)
  BY <1>3 DEF ReadRequest, ReactorHandOver, WriteHangs, kernelVars, Open
<1>4. CASE WriteKeeps(fd) \/ WriteBlocks(fd)
  <2>1. client' \in {client, Answered(fd)}
    BY <1>4 DEF WriteKeeps, WriteBlocks
  <2>2. QED
    BY <1>1, <2>1 DEF Answered, KernelOK, Open
<1>5. ASSUME NEW w \in Workers, Rearm(w) PROVE Open(fd)'
  BY <1>5 DEF Rearm, Open
<1>6. CASE ~EpollWait /\ ~ConnStep(fd) /\ \A w \in Workers : ~Rearm(w)
  BY <1>6, Undisturbed
<1>7. QED
  BY <1>2, <1>3, <1>4, <1>5, <1>6 DEF ConnStep, Deals

(* An event that is handled is gone, and was the only one of its           *)
(* connection.                                                             *)
LEMMA Consumed ==
  ASSUME OnceReported, NEW fd \in Fds, ConnStep(fd)
  PROVE  ~HasEvent(fd)'
<1>1. PICK what \in {"in", "out", "hup"} :
         Event(fd, what) \in events /\ events' = events \ {Event(fd, what)}
  BY ConnStepHandles
<1>2. \A e \in events : e.fd = fd => e = Event(fd, what)
  BY <1>1 DEF OnceReported, Event
<1>3. QED
  BY <1>1, <1>2 DEF HasEvent

(* The exceptions stay exceptions. *)
LEMMA IntactBefore ==
  ASSUME Shape, [Next]_vars, NEW fd \in Fds
  PROVE  /\ fd \notin dropped' => fd \notin dropped
         /\ Intact(fd)' => Intact(fd) /\ fd \notin dropped'
  BY ClosedStep DEF Intact

(* cb_func makes one of a connection of the pool that tick() closes.       *)
LEMMA PoolSurvives ==
  ASSUME NEW fd \in Fds, InPool(fd), Intact(fd)'
  PROVE  ~Fired(fd)
<1> SUFFICES ASSUME TimerHandler, fd \in {user_data[t] : t \in allocated \ allocated'}
             PROVE  FALSE
  BY DEF Fired
<1> DEFINE closed == {user_data[t] : t \in allocated \ allocated'}
<1>1. outlived' = outlived \cup {f \in closed : InPool(f)}
  BY DEF TimerHandler, CbFunc
<1>2. fd \in closed
  OBVIOUS
<1> HIDE DEF closed
<1>3. QED
  BY <1>1, <1>2 DEF Intact

(* The events of a batch are about open connections that epoll is silent   *)
(* about.                                                                  *)
LEMMA FreshStep ==
  ASSUME OwnerInv, [Next]_vars
  PROVE  EventsAreFresh'
<1> SUFFICES ASSUME NEW fd \in Fds, HasEvent(fd)'
             PROVE  /\ fd \notin dropped' => Open(fd)'
                    /\ Intact(fd)' => interest'[fd] = "off"
  BY DEF EventsAreFresh
<1>1. Shape /\ Registered /\ OnceReported
  BY DEF OwnerInv, TimersInv
<1>2. CASE EpollWait
  <2>1. /\ events' = Ready /\ client' = client /\ interest' = Disarmed(Ready)
    BY <1>2 DEF EpollWait
  <2>2. PICK e \in Ready : e.fd = fd
    BY <2>1 DEF HasEvent
  <2>3. interest[fd] \in {"in", "out"}
    BY <2>2, ReadyEvents
  <2>4. Open(fd)'
    BY <1>1, <2>1, <2>3 DEF Registered, Open
  <2>5. interest'[fd] = "off"
    BY <2>1, <2>2 DEF Disarmed
  <2>6. QED
    BY <2>4, <2>5
<1>3. CASE ~EpollWait
  <2>1. events' \subseteq events
    BY <1>3, EventsShrink
  <2>2. HasEvent(fd)
    BY <2>1 DEF HasEvent
  <2>3. /\ fd \notin dropped => Open(fd)
        /\ Intact(fd) => interest[fd] = "off"
    BY <2>2 DEF OwnerInv, EventsAreFresh
  <2>4. ~ConnStep(fd)
    BY <1>1, Consumed
  <2>5. ~Fired(fd)
    BY <2>2 DEF Fired, TimerHandler, HasEvent
  <2>6. ASSUME Intact(fd), NEW w \in Workers, Rearm(w), running[w] = fd PROVE FALSE
    <3>1. w \in Holders(fd)
      BY <2>6 DEF Rearm, Holders
    <3>2. InPool(fd)
      BY <3>1 DEF InPool
    <3>3. QED
      BY <2>2, <2>6, <3>2 DEF OwnerInv, OwnedOnce, Silent
  <2>7. fd \notin dropped' => Open(fd)'
    <3>1. ~Deals(fd)
      BY <2>4 DEF Deals, ConnStep
    <3>2. QED
      BY <1>1, <2>3, <2>5, <3>1, IntactBefore, StaysOpen
  <2>8. ASSUME Intact(fd)' PROVE interest'[fd] = "off"
    <3>1. Intact(fd) /\ fd \notin dropped'
      BY <1>1, <2>8, IntactBefore
    <3>2. Open(fd) /\ interest[fd] = "off"
      BY <2>3, <3>1 DEF Intact
    <3>3. QED
      BY <1>1, <1>3, <2>4, <2>5, <2>6, <3>1, <3>2, Undisturbed
  <2>9. QED
    BY <2>7, <2>8
<1>4. QED
  BY <1>2, <1>3

(* epoll is silent about a connection in the pool, which has it once.      *)
LEMMA OwnedOnceStep ==
  ASSUME OwnerInv, [Next]_vars
  PROVE  OwnedOnce'
<1> SUFFICES ASSUME NEW fd \in Fds, InPool(fd)', Intact(fd)'
             PROVE  HeldOnce(fd)' /\ Open(fd)' /\ interest'[fd] = "off" /\ ~HasEvent(fd)'
  BY DEF OwnedOnce, Silent
<1>1. Shape /\ Registered /\ OnceReported
  BY DEF OwnerInv, TimersInv
<1>2. Intact(fd) /\ fd \notin dropped'
  BY <1>1, IntactBefore
<1>3. InPool(fd) => HeldOnce(fd) /\ Open(fd) /\ interest[fd] = "off" /\ ~HasEvent(fd)
  BY <1>2 DEF OwnerInv, OwnedOnce, Silent
<1>4. /\ HeldOnce(fd)'
      /\ \/ InPool(fd) /\ \A w \in Workers : ~(Rearm(w) /\ running[w] = fd)
         \/ ReadRequest(fd) \/ ReactorHandOver(fd)
  BY <1>1, <1>3, InPoolStep
<1>5. CASE ReadRequest(fd) \/ ReactorHandOver(fd)
  <2>1. HasEvent(fd) /\ ~HasEvent(fd)'
    BY <1>1, <1>5, HandedOver, Consumed DEF ConnStep
  <2>2. Open(fd) /\ interest[fd] = "off"
    BY <1>2, <2>1 DEF OwnerInv, EventsAreFresh, Intact
  <2>3. UNCHANGED <<client, interest>>
    BY <1>5 DEF ReadRequest, ReactorHandOver, kernelVars
  <2>4. QED
    BY <1>4, <2>1, <2>2, <2>3 DEF Open
<1>6. CASE InPool(fd) /\ \A w \in Workers : ~(Rearm(w) /\ running[w] = fd)
  <2>1. Open(fd) /\ interest[fd] = "off" /\ ~HasEvent(fd)
    BY <1>3, <1>6
  <2>2. CASE EpollWait
    <3>1. /\ events' = Ready /\ client' = client /\ interest' = Disarmed(Ready)
      BY <2>2 DEF EpollWait
    <3>2. \A e \in Ready : e.fd # fd
      BY <2>1, ReadyEvents
    <3>3. interest'[fd] = "off"
      BY <2>1, <3>1 DEF Disarmed
    <3>4. QED
      BY <1>4, <2>1, <3>1, <3>2, <3>3 DEF Open, HasEvent
  <2>3. CASE ~EpollWait
    <3>1. ~HasEvent(fd)'
      BY <2>1, <2>3, EventsShrink DEF HasEvent
    <3>2. ~ConnStep(fd)
      BY <2>1, HandedOver
    <3>3. ~Fired(fd)
      BY <1>6, PoolSurvives
    <3>4. Open(fd)' /\ interest'[fd] = interest[fd]
      BY <1>1, <1>2, <1>6, <2>1, <2>3, <3>2, <3>3, Undisturbed
    <3>5. QED
      BY <1>4, <2>1, <3>1, <3>4
  <2>4. QED
    BY <2>2, <2>3
<1>7. QED
  BY <1>4, <1>5, <1>6

(* A timer that exists is the one its connection uses. *)
LEMMA OwnedStep ==
  ASSUME OwnerInv, [Next]_vars
  PROVE  TimersOwned'
<1> SUFFICES ASSUME fault' = "none", NEW t \in allocated', user_data'[t] \notin dropped'
             PROVE  Open(user_data[t])' /\ users_timer'[user_data'[t]] = t
  BY DEF TimersOwned
<1>1. fault = "none"
  BY OnlyTheLiving DEF vars, timerVars
<1>2. Shape /\ TimersOK /\ KernelOK /\ Registered
  BY DEF OwnerInv, TimersInv, Shape
<1>3. \A x \in allocated : user_data[x] \notin dropped =>
         Open(user_data[x]) /\ users_timer[user_data[x]] = x
  BY <1>1 DEF OwnerInv, TimersOwned
<1>4. dropped \subseteq dropped' /\ \A x \in allocated : user_data[x] \in Fds
  BY <1>2, ClosedStep DEF TimersOK
<1>5. CASE Accept
  <2>1. PICK f \in Fds, new \in Timers :
            /\ client[f] = "none" /\ new \notin allocated
            /\ client' = [client EXCEPT ![f] = "idle"]
            /\ users_timer' = [users_timer EXCEPT ![f] = new]
            /\ user_data' = [user_data EXCEPT ![new] = f]
            /\ TL!AddTimer(new)
    BY <1>2, <1>5, AcceptEffect
  <2>2. allocated' = allocated \cup {new}
    BY <2>1, AddEffect
  <2>3. CASE t = new
    BY <1>2, <2>1, <2>3 DEF TimersOK, KernelOK, Open
  <2>4. CASE t # new
    <3>1. t \in allocated /\ user_data'[t] = user_data[t] /\ user_data[t] \in Fds
      BY <1>2, <1>4, <2>1, <2>2, <2>4 DEF TimersOK
    <3>2. Open(user_data[t]) /\ users_timer[user_data[t]] = t
      BY <1>3, <1>4, <3>1
    <3>3. user_data[t] # f
      BY <2>1, <3>2 DEF Open
    <3>4. QED
      BY <1>2, <2>1, <3>1, <3>2, <3>3 DEF TimersOK, KernelOK, Open
  <2>5. QED
    BY <2>3, <2>4
<1>6. CASE TimerHandler
  <2>1. /\ UNCHANGED <<users_timer, user_data>> /\ TL!Tick
        /\ Close({user_data[x] : x \in allocated \ allocated'})
    BY <1>6 DEF TimerHandler, CbFunc
  <2>2. t \in allocated /\ user_data[t] \notin dropped
    BY <1>4, <2>1, TickEffect
  <2>3. user_data[t] \notin {user_data[x] : x \in allocated \ allocated'}
    BY <1>3, <2>2
  <2>4. QED
    BY <1>3, <1>4, <2>1, <2>2, <2>3 DEF Close, Open
<1>7. ASSUME NEW f \in Fds, Deals(f)
      PROVE  Open(user_data[t])' /\ users_timer'[user_data'[t]] = t
  <2>1. UNCHANGED <<users_timer, user_data>>
    BY <1>7, ConnStepHandles DEF ConnStep, Deals
  <2>2. Close({f}) /\ TL!DelTimer(users_timer[f])
    BY <1>7, DealsEffect
  <2>3. allocated' = allocated \ {users_timer[f]}
    BY <2>2, DelEffect
  <2>4. t \in allocated /\ user_data[t] \notin dropped
    BY <1>4, <2>1, <2>3
  <2>5. user_data[t] # f /\ user_data[t] \in Fds
    BY <1>3, <1>4, <2>3, <2>4
  <2>6. QED
    BY <1>3, <2>1, <2>2, <2>4, <2>5 DEF Close, Open
<1>8. CASE ~Accept /\ ~TimerHandler /\ \A f \in Fds : ~Deals(f)
  <2>1. UNCHANGED <<allocated, users_timer, user_data>>
    BY <1>8, TimersKept
  <2>2. user_data[t] \in Fds /\ Open(user_data[t]) /\ users_timer[user_data[t]] = t
        /\ user_data[t] \notin dropped'
    BY <1>3, <1>4, <2>1
  <2>3. client'[user_data[t]] # "none"
    BY <1>2, <1>8, <2>2, StaysOpen DEF Fired, Open
  <2>4. QED
    BY <2>1, <2>2, <2>3 DEF Open
<1>9. QED
  BY <1>5, <1>6, <1>7, <1>8

(* At the start there are no connections, events or timers. *)
LEMMA OwnerInvInit == Init => OwnerInv
<1> SUFFICES ASSUME Init PROVE OwnerInv
  OBVIOUS
<1>1. NULL \notin Fds
  BY Constants
<1>2. Registered /\ OnceReported /\ TimersInUseExist
  BY DEF Init, Registered, Open, OnceReported, TimersInUseExist, HasEvent
<1>3. pending = <<>> /\ running = [w \in Workers |-> NULL] /\ allocated = {}
  BY DEF Init, Pool!Init, TL!Init
<1>4. DOMAIN pending = {}
  BY <1>3
<1>5. \A fd \in Fds : ~InPool(fd)
  BY <1>1, <1>3, <1>4 DEF InPool, Holders
<1>6. EventsAreFresh
  BY DEF Init, EventsAreFresh, HasEvent
<1>7. QED
  BY <1>2, <1>3, <1>5, <1>6, ShapeInit DEF OwnerInv, TimersInv, OwnedOnce, TimersOwned

(* The invariant is inductive. *)
LEMMA OwnerInvStep == OwnerInv /\ [Next]_vars => OwnerInv'
<1> SUFFICES ASSUME OwnerInv, [Next]_vars PROVE OwnerInv'
  OBVIOUS
<1>1. TimersInv'
  BY ShapeStep, RegisteredStep, OnceReportedStep, InUseStep DEF OwnerInv, TimersInv
<1>2. OwnedOnce' /\ EventsAreFresh' /\ TimersOwned'
  BY OwnedOnceStep, FreshStep, OwnedStep
<1>3. QED
  BY <1>1, <1>2 DEF OwnerInv

(* Every event is handled for the connection it was reported for, whatever *)
(* the clients ask for and however long the pool takes, for any number of  *)
(* connections, workers and clients.                                       *)
THEOREM NoEventIsStale == Spec => []EventsAreFresh
<1>1. OwnerInv => EventsAreFresh
  BY DEF OwnerInv
<1>2. QED
  BY <1>1, OwnerInvInit, OwnerInvStep, PTL DEF Spec, SafeSpec

(* A connection that is in the pool once has one owner. *)
LEMMA OwnerInvGivesOneOwner == OwnerInv => OneOwner
<1> SUFFICES ASSUME OwnerInv, NEW fd \in Fds, InPool(fd), Intact(fd)
             PROVE  Cardinality(Holders(fd)) + Cardinality({i \in DOMAIN pending : pending[i] = fd}) = 1
  BY DEF OwnerInv, OwnedOnce, Silent, OneOwner
<1> DEFINE where == {i \in DOMAIN pending : pending[i] = fd}
<1>1. HeldOnce(fd)
  BY DEF OwnerInv, OwnedOnce
<1>2. CASE Holders(fd) # {}
  <2>1. PICK w : w \in Holders(fd)
    BY <1>2
  <2>2. Holders(fd) = {w}
    BY <1>1, <2>1 DEF HeldOnce
  <2>3. where = {}
    BY <1>1, <2>1 DEF HeldOnce
  <2>4. Cardinality(Holders(fd)) = 1 /\ Cardinality(where) = 0
    BY <2>2, <2>3, FS_EmptySet, FS_Singleton
  <2>5. QED
    BY <2>4
<1>3. CASE Holders(fd) = {}
  <2>1. PICK i \in DOMAIN pending : pending[i] = fd
    BY <1>3 DEF InPool
  <2>2. where = {i}
    BY <1>1, <2>1 DEF HeldOnce
  <2>3. Cardinality(where) = 1 /\ Cardinality(Holders(fd)) = 0
    BY <1>3, <2>2, FS_EmptySet, FS_Singleton
  <2>4. QED
    BY <2>3
<1>4. QED
  BY <1>2, <1>3

(* A connection in the pool has one owner: it is in the queue once or with *)
(* one worker, open, epoll is silent about it and no event of it waits in  *)
(* the batch, unless the two defects that Intact names have met it.        *)
THEOREM ConnectionsHaveOneOwner == Spec => []OneOwner
  BY OwnerInvInit, OwnerInvStep, OwnerInvGivesOneOwner, PTL DEF Spec, SafeSpec

(* Timers that are owned match the connections. *)
LEMMA OwnerInvGivesTimers == OwnerInv => TimersMatchConnections
<1> SUFFICES ASSUME OwnerInv, fault = "none"
             PROVE  /\ \A fd \in Fds \ dropped : Open(fd) =>
                          users_timer[fd] \in allocated /\ user_data[users_timer[fd]] = fd
                    /\ \A t \in allocated : user_data[t] \notin dropped =>
                          user_data[t] # NULL /\ Open(user_data[t]) /\ users_timer[user_data[t]] = t
  BY DEF TimersMatchConnections
<1>1. \A fd \in Fds : Open(fd) => users_timer[fd] \in allocated /\ user_data[users_timer[fd]] = fd
  BY DEF OwnerInv, TimersInv, TimersInUseExist
<1>2. \A t \in allocated : user_data[t] \notin dropped =>
         Open(user_data[t]) /\ users_timer[user_data[t]] = t
  BY DEF OwnerInv, TimersOwned
<1>3. \A t \in allocated : user_data[t] \in Fds
  BY DEF OwnerInv, TimersInv, Shape, TimersOK
<1>4. QED
  BY <1>1, <1>2, <1>3, Constants

(* Until a fault ends the program, connections and timers are one to one,  *)
(* but for the descriptors that a worker closed, in any of their lives.    *)
THEOREM TimersAndConnectionsMatch == Spec => []TimersMatchConnections
  BY OwnerInvInit, OwnerInvStep, OwnerInvGivesTimers, PTL DEF Spec, SafeSpec

(* The members of a finite set and their images, all different, are as     *)
(* many.                                                                   *)
LEMMA SameNumber ==
  ASSUME NEW S, IsFiniteSet(S), NEW g, \A x, y \in S : g[x] = g[y] => x = y
  PROVE  Cardinality({g[x] : x \in S}) = Cardinality(S)
<1> DEFINE T == {g[x] : x \in S}
           f == [x \in S |-> g[x]]
<1>1. f \in Bijection(S, T)
  <2>1. f \in [S -> T] /\ \A x \in S : f[x] = g[x]
    OBVIOUS
  <2>2. \A y \in T : \E x \in S : g[x] = y
    OBVIOUS
  <2> HIDE DEF f, T
  <2>3. f \in Injection(S, T)
    BY <2>1 DEF Injection, IsInjective
  <2>4. f \in Surjection(S, T)
    BY <2>1, <2>2 DEF Surjection
  <2>5. QED
    BY <2>3, <2>4 DEF Bijection
<1>2. ExistsBijection(S, T)
  BY <1>1 DEF ExistsBijection
<1>3. QED
  BY <1>2, FS_Bijection

(* A worker counts a user off only after it dropped one. *)
NoUserLost == \A w \in Workers : step[w] \in {"load count", "store count"} => dropped # {}

LEMMA NoUserLostStep == Shape /\ NoUserLost /\ [Next]_vars => NoUserLost'
<1> SUFFICES ASSUME Shape, NoUserLost, [Next]_vars, NEW v \in Workers,
                    step'[v] \in {"load count", "store count"}
             PROVE  dropped' # {}
  BY DEF NoUserLost
<1>1. SUFFICES ASSUME dropped = {} PROVE dropped' # {}
  BY ClosedStep
<1>2. PoolOK /\ step[v] \notin {"load count", "store count"}
  BY <1>1 DEF Shape, NoUserLost
<1>3. ASSUME NEW w \in Workers, WorkerStep(w) PROVE dropped' # {}
  <2>1. CASE Take(w)
    BY <1>2, <2>1, TakeEffect DEF PoolOK
  <2>2. CASE Process(w)
    <3>1. step' \in [Workers -> Steps] /\ step'[w] \in {"rearm in", "close_conn", "rearm out"}
          /\ \A u \in Workers : u # w => step'[u] = step[u]
      BY <1>2, <2>2 DEF Process, PoolOK, Steps
    <3>2. QED
      BY <1>2, <3>1
  <2>3. CASE Rearm(w) \/ Return(w) \/ LoadCount(w) \/ StoreCount(w) \/ ClearSocketfd(w)
    BY <1>1, <1>2, <2>3 DEF Rearm, Return, LoadCount, StoreCount, ClearSocketfd, PoolOK, NoUserLost
  <2>4. CASE CloseConn(w)
    BY <1>2, <2>4 DEF CloseConn, PoolOK
  <2>5. QED
    BY <1>3, <2>1, <2>2, <2>3, <2>4 DEF WorkerStep
<1>4. step' # step
  BY <1>2
<1>5. QED
  BY <1>3, <1>4, PoolEffects

(* m_user_count goes up and down with the connections. *)
LEMMA CountedStep ==
  ASSUME OwnerInv, NoUserLost, CountMatchesUntilDropped, [Next]_vars
  PROVE  CountMatchesUntilDropped'
<1> DEFINE open == {fd \in Fds : Open(fd)}
<1> SUFFICES ASSUME dropped' = {} PROVE user_count' = Cardinality(open')
  BY DEF CountMatchesUntilDropped
<1>1. Shape /\ TimersOK /\ KernelOK /\ Registered
  BY DEF OwnerInv, TimersInv, Shape
<1>2. dropped = {}
  BY <1>1, ClosedStep
<1>3. user_count = Cardinality(open) /\ IsFiniteSet(open) /\ Cardinality(open) \in Nat
  BY <1>2, Constants, FS_Subset, FS_CardinalityType DEF CountMatchesUntilDropped
<1>4. CASE Accept
  <2>1. PICK f \in Fds : client[f] = "none" /\ client' = [client EXCEPT ![f] = "idle"]
    BY <1>1, <1>4, AcceptEffect
  <2>2. user_count' = user_count + 1
    BY <1>1, <1>4, AcceptEffect
  <2>3. open' = open \cup {f} /\ f \notin open
    BY <1>1, <2>1 DEF KernelOK, Open
  <2>4. QED
    BY <1>3, <2>2, <2>3, FS_AddElement
<1>5. CASE TimerHandler
  <2> DEFINE fired == allocated \ allocated'
             gone  == {user_data[t] : t \in fired}
  <2>1. TL!Tick /\ Close(gone) /\ user_count' = user_count - Cardinality(fired)
    BY <1>5 DEF TimerHandler, CbFunc
  <2>2. fault = "none"
    BY <2>1, TickEffect
  <2>3. \A t \in allocated : user_data[t] \in Fds /\ Open(user_data[t]) /\ users_timer[user_data[t]] = t
    BY <1>1, <1>2, <2>2 DEF OwnerInv, TimersOwned, TimersOK
  <2>4. IsFiniteSet(fired)
    BY <1>1, Constants, FS_Subset DEF TimersOK
  <2>5. Cardinality(gone) = Cardinality(fired)
    <3>1. \A s, t \in fired : user_data[s] = user_data[t] => s = t
      BY <2>3
    <3>2. QED
      BY <2>4, <3>1, SameNumber
  <2>6. gone \subseteq open
    BY <2>3
  <2>7. open' = open \ gone
    BY <2>1 DEF Close, Open
  <2> HIDE DEF open, gone, fired
  <2>8. open \cap gone = gone
    BY <2>6
  <2>9. Cardinality(open') = Cardinality(open) - Cardinality(gone)
    <3>1. IsFiniteSet(open)
      BY <1>3
    <3>2. QED
      BY <2>7, <2>8, <3>1, FS_Difference
  <2>10. user_count' = Cardinality(open) - Cardinality(gone)
    BY <1>3, <2>1, <2>5
  <2>11. QED
    BY <2>9, <2>10
<1>6. ASSUME NEW f \in Fds, Deals(f) PROVE user_count' = Cardinality(open')
  <2>1. Close({f}) /\ user_count' = user_count - 1
    BY <1>6, DealsEffect
  <2>2. HasEvent(f)
    BY <1>6, HandedOver DEF ConnStep, Deals
  <2>3. f \in open
    BY <1>2, <2>2 DEF OwnerInv, EventsAreFresh
  <2>4. open' = open \ {f}
    BY <2>1 DEF Close, Open
  <2>5. QED
    BY <1>3, <2>1, <2>3, <2>4, FS_RemoveElement
<1>7. CASE ~Accept /\ ~TimerHandler /\ \A f \in Fds : ~Deals(f)
  <2>1. open' = open
    <3>1. \A fd \in Fds : Open(fd) => Open(fd)'
      BY <1>1, <1>7, StaysOpen DEF Fired
    <3>2. \A fd \in Fds : Open(fd)' => Open(fd)
      BY <1>1, <1>7, OpenShrinks
    <3>3. QED
      BY <3>1, <3>2
  <2>2. user_count' = user_count
    <3>1. CASE Aside
      BY <3>1, AsideEffect DEF userVars
    <3>2. CASE ClientStep \/ TimePasses \/ EpollWait \/ AfterAppend
      BY <3>2 DEF ClientStep, SendPart, SendRequest, HangUp, TimePasses, EpollWait, AfterAppend, userVars
    <3>3. ASSUME NEW f \in Fds,
                 ReadRequest(f) \/ WriteKeeps(f) \/ WriteBlocks(f) \/ WriteHangs(f) \/ ReactorHandOver(f)
          PROVE  user_count' = user_count
      BY <3>3 DEF ReadRequest, WriteKeeps, WriteBlocks, WriteHangs, ReactorHandOver, userVars
    <3>4. ASSUME NEW w \in Workers, WorkerStep(w) PROVE user_count' = user_count
      <4>1. ~StoreCount(w)
        BY <1>2 DEF StoreCount, NoUserLost
      <4>2. QED
        BY <3>4, <4>1 DEF WorkerStep, Take, Process, Rearm, Return, CloseConn, LoadCount,
                          ClearSocketfd, userVars
    <3>5. QED
      BY <1>7, <3>1, <3>2, <3>3, <3>4 DEF Next, MainStep, Aside, Deals
  <2>3. QED
    BY <1>3, <2>1, <2>2
<1>8. QED
  BY <1>4, <1>5, <1>6, <1>7

(* m_user_count is the number of open connections until the first          *)
(* close_conn() in a worker, through every accept, refusal, hang-up and    *)
(* timeout.                                                                *)
THEOREM UsersAreCounted == Spec => []CountMatchesUntilDropped
<1>1. Init => OwnerInv /\ NoUserLost /\ CountMatchesUntilDropped
  <2> SUFFICES ASSUME Init PROVE NoUserLost /\ CountMatchesUntilDropped
    BY OwnerInvInit
  <2>1. {fd \in Fds : Open(fd)} = {} /\ user_count = 0
    BY DEF Init, Open
  <2>2. NoUserLost
    BY DEF Init, NoUserLost
  <2>3. QED
    BY <2>1, <2>2, FS_EmptySet DEF CountMatchesUntilDropped
<1>2. OwnerInv => Shape
  BY DEF OwnerInv, TimersInv
<1>3. OwnerInv /\ NoUserLost /\ CountMatchesUntilDropped /\ [Next]_vars
        => OwnerInv' /\ NoUserLost' /\ CountMatchesUntilDropped'
  BY <1>2, OwnerInvStep, NoUserLostStep, CountedStep
<1>4. QED
  BY <1>1, <1>3, PTL DEF Spec, SafeSpec

-------------------------------------------------------------------------------
(* The timer list inside the server                                        *)

(* What TimerListProofs proves of the list holds of Server's variables,    *)
(* since the constants fit and each step of Server is a step of the list.  *)
TLP == INSTANCE TimerListProofs

(* TimerList's assumption about its constants. *)
LEMMA ListConstants == TLP!ListAssumption
  BY ServerAssumption DEF TLP!ListAssumption, TLP!IsFiniteSet, IsFiniteSet

(* The operators of both instances are the same: the walk, ...             *)
LEMMA SameInsertion ==
  ASSUME NEW l, NEW left, NEW t, NEW p, NEW live
  PROVE  /\ TL!WalkedOver(l, left, t) = TLP!WalkedOver(l, left, t)
         /\ TL!InsertAfter(l, left, t, p) = TLP!InsertAfter(l, left, t, p)
         /\ TL!Renewed(t) = TLP!Renewed(t)
  BY DEF TL!Renewed, TLP!Renewed, TL!InsertAfter, TLP!InsertAfter, TL!WalkEnd, TLP!WalkEnd,
         TL!WalkedOver, TLP!WalkedOver, TL!SetPrev, TLP!SetPrev, TL!Chain, TLP!Chain, TL!N, TLP!N,
         TL!Cardinality, TLP!Cardinality, TL!IsFiniteSet, TLP!IsFiniteSet

(* ... its effect, ...                                                     *)
LEMMA SameFollow ==
  ASSUME NEW l, NEW p, NEW live, TL!Follow(p, l, live)
  PROVE  TLP!Follow(p, l, live)
  BY DEF TL!Follow, TLP!Follow, TL!Forget, TLP!Forget, TL!Listed, TLP!Listed, TL!Chain, TLP!Chain,
         TL!N, TLP!N, TL!Cardinality, TLP!Cardinality, TL!IsFiniteSet, TLP!IsFiniteSet

(* ... and the operations.                                                 *)
LEMMA SameAdd ==
  ASSUME NEW t, TL!AddTimer(t)
  PROVE  TLP!AddTimer(t)
<1> DEFINE left == TL!Renewed(t)
           live == allocated \cup {t}
<1>1. fault = "none" /\ t \notin allocated /\ remaining' = TLP!Renewed(t)
  BY SameInsertion DEF TL!AddTimer
<1>2. CASE list.head = NULL
  <2>1. TL!Follow({}, [list EXCEPT !.head = t, !.tail = t], live)
    BY <1>2 DEF TL!AddTimer
  <2>2. TLP!Follow({}, [list EXCEPT !.head = t, !.tail = t], live)
    BY <2>1, SameFollow, Zenon
  <2>3. QED
    BY <1>1, <1>2, <2>2, Zenon DEF TLP!AddTimer
<1>3. CASE list.head # NULL
  <2>1. TL!Follow({list.head} \cup TL!WalkedOver(list, left, t),
                  TL!InsertAfter(list, left, t, list.head), live)
    BY <1>3 DEF TL!AddTimer
  <2>2. TL!Follow({list.head} \cup TLP!WalkedOver(list, TLP!Renewed(t), t),
                  TLP!InsertAfter(list, TLP!Renewed(t), t, list.head), live)
    BY <2>1, SameInsertion, Zenon
  <2>3. TLP!Follow({list.head} \cup TLP!WalkedOver(list, TLP!Renewed(t), t),
                   TLP!InsertAfter(list, TLP!Renewed(t), t, list.head), live)
    BY <2>2, SameFollow, Zenon
  <2>4. QED
    BY <1>1, <1>3, <2>3, Zenon DEF TLP!AddTimer
<1>4. QED
  BY <1>2, <1>3

LEMMA SameAdjust ==
  ASSUME NEW t, TL!AdjustTimer(t)
  PROVE  TLP!AdjustTimer(t)
<1> DEFINE left    == TLP!Renewed(t)
           earlier == list.prev[t]
           later   == list.next[t]
           behead  == [list EXCEPT !.head = later, !.prev[later] = NULL, !.next[later] = NULL]
           unlink  == [list EXCEPT !.next[earlier] = later, !.prev[later] = earlier]
           walked(o) == {earlier, later} \cup
                            IF {earlier, later} \subseteq allocated
                            THEN {list.head} \cup o ELSE {}
<1>1. TL!Renewed(t) = left
  BY SameInsertion, Zenon
<1>2. fault = "none" /\ t \in allocated /\ remaining' = left
  BY <1>1 DEF TL!AdjustTimer
<1>3. \/ /\ later # NULL => left[t] < left[later]
         /\ UNCHANGED <<list, allocated, fault, everLost>>
      \/ /\ later # NULL /\ left[t] >= left[later]
         /\ t = list.head
         /\ TL!Follow({later}, TL!InsertAfter(behead, left, t, later), allocated)
      \/ /\ later # NULL /\ left[t] >= left[later]
         /\ t # list.head
         /\ TL!Follow(walked(TL!WalkedOver(unlink, left, t)),
                      TL!InsertAfter(unlink, left, t, later), allocated)
  <2> HIDE DEF left
  <2>1. QED
    BY <1>1 DEF TL!AdjustTimer
<1>4. CASE /\ later # NULL => left[t] < left[later]
           /\ UNCHANGED <<list, allocated, fault, everLost>>
  BY <1>2, <1>4, Zenon DEF TLP!AdjustTimer
<1>5. CASE /\ later # NULL /\ left[t] >= left[later]
           /\ t = list.head
           /\ TL!Follow({later}, TL!InsertAfter(behead, left, t, later), allocated)
  <2> HIDE DEF left, behead
  <2>1. TL!Follow({later}, TLP!InsertAfter(behead, left, t, later), allocated)
    BY <1>5, SameInsertion, Zenon
  <2>2. TLP!Follow({later}, TLP!InsertAfter(behead, left, t, later), allocated)
    BY <2>1, SameFollow, Zenon
  <2>3. QED
    BY <1>2, <1>5, <2>2, Zenon DEF TLP!AdjustTimer, left, behead
<1>6. CASE /\ later # NULL /\ left[t] >= left[later]
           /\ t # list.head
           /\ TL!Follow(walked(TL!WalkedOver(unlink, left, t)),
                        TL!InsertAfter(unlink, left, t, later), allocated)
  <2>1. TL!Follow(walked(TLP!WalkedOver(unlink, left, t)),
                  TLP!InsertAfter(unlink, left, t, later), allocated)
    BY <1>6, SameInsertion, Zenon
  <2>2. TLP!Follow(walked(TLP!WalkedOver(unlink, left, t)),
                   TLP!InsertAfter(unlink, left, t, later), allocated)
    BY <2>1, SameFollow, Zenon
  <2>3. QED
    BY <1>2, <1>6, <2>2, Zenon DEF TLP!AdjustTimer
<1>7. QED
  BY <1>3, <1>4, <1>5, <1>6

LEMMA SameDel ==
  ASSUME NEW t, TL!DelTimer(t)
  PROVE  TLP!DelTimer(t)
  BY DEF TL!DelTimer, TLP!DelTimer, TL!Follow, TLP!Follow, TL!Forget, TLP!Forget,
         TL!Listed, TLP!Listed, TL!Chain, TLP!Chain,
         TL!N, TLP!N, TL!Cardinality, TLP!Cardinality, TL!IsFiniteSet, TLP!IsFiniteSet

LEMMA SameTick ==
  ASSUME TL!Tick
  PROVE  TLP!Tick
  BY DEF TL!Tick, TLP!Tick, TL!Expired, TLP!Expired, TL!Follow, TLP!Follow, TL!SetPrev, TLP!SetPrev,
         TL!Forget, TLP!Forget, TL!Listed, TLP!Listed, TL!Chain, TLP!Chain,
         TL!N, TLP!N, TL!Cardinality, TLP!Cardinality, TL!IsFiniteSet, TLP!IsFiniteSet

(* Time, and the first state. *)
LEMMA SameTime ==
  /\ TL!TimePasses => TLP!TimePasses
  /\ TL!Init => TLP!Init
<1>1. TL!TimePasses => TLP!TimePasses
  BY Zenon DEF TL!TimePasses, TLP!TimePasses
<1>2. TL!Init => TLP!Init
  BY Zenon DEF TL!Init, TLP!Init
<1>3. QED
  BY <1>1, <1>2

(* The server uses the list as TimerList expects: new timers are free      *)
(* addresses, and it adjusts and deletes timers that exist.                *)
LEMMA StepsOfTheList == Shape /\ [Next]_vars => [TLP!Next]_(TLP!vars)
<1> SUFFICES ASSUME Shape, [Next]_vars PROVE TLP!Next \/ UNCHANGED timerVars
  BY DEF timerVars, TLP!vars
<1>1. allocated \subseteq Timers
  BY DEF Shape, TimersOK
<1>2. CASE Accept
  <2>1. PICK t \in Timers : TL!AddTimer(t)
    BY <1>2, AcceptEffect
  <2>2. TLP!AddTimer(t)
    BY <2>1, SameAdd
  <2>3. QED
    BY <2>2 DEF TLP!Next
<1>3. CASE TimePasses
  BY <1>3, SameTime DEF TimePasses, TLP!Next
<1>4. CASE TimerHandler
  BY <1>4, SameTick DEF TimerHandler, TLP!Next
<1>5. ASSUME NEW fd \in Fds, Deals(fd) PROVE TLP!Next
  <2>1. TL!DelTimer(users_timer[fd])
    BY <1>5, DealsEffect
  <2>2. users_timer[fd] \in Timers
    BY <1>1, <2>1, DelEffect
  <2>3. QED
    BY <2>1, <2>2, SameDel DEF TLP!Next
<1>6. ASSUME NEW t, TL!AdjustTimer(t) PROVE TLP!Next
  <2>1. t \in Timers
    BY <1>1, <1>6, AdjustEffect
  <2>2. QED
    BY <1>6, <2>1, SameAdjust DEF TLP!Next
<1>7. CASE AfterAppend
  BY <1>6, <1>7 DEF AfterAppend
<1>8. ASSUME NEW fd \in Fds, Adjusts(fd) PROVE TLP!Next
  BY <1>6, <1>8, AdjustsEffect
<1>9. ASSUME Connect \/ ClientStep \/ Terminate \/ Refuse \/ EpollWait \/ AcceptFails \/ HandleSignal
             \/ EndOfEvents \/ Stop \/ UNCHANGED vars
      PROVE  UNCHANGED timerVars
  BY <1>9 DEF Connect, ClientStep, SendPart, SendRequest, HangUp, Terminate, Refuse, EpollWait,
              AcceptFails, HandleSignal, EndOfEvents, Stop, vars
<1>10. ASSUME NEW fd \in Fds, ReadRequest(fd) \/ WriteHangs(fd) PROVE UNCHANGED timerVars
  BY <1>10 DEF ReadRequest, WriteHangs
<1>11. ASSUME NEW w \in Workers, WorkerStep(w) PROVE UNCHANGED timerVars
  BY <1>11, WorkerEffect
<1>12. QED
  BY <1>2, <1>3, <1>4, <1>5, <1>7, <1>8, <1>9, <1>10, <1>11 DEF Next, MainStep, Deals, Adjusts

(* Inside the server the list keeps its invariants, and the server its     *)
(* shape.                                                                  *)
ListInv == Shape /\ TLP!Inv /\ TLP!Sound(list, allocated)

LEMMA ListInvInit == Init => ListInv
<1> SUFFICES ASSUME Init PROVE ListInv
  OBVIOUS
<1>1. TLP!Init
  BY SameTime DEF Init
<1>2. TLP!Inv
  BY <1>1, ListConstants, TLP!InitInv, Zenon
<1>3. TLP!Sound(list, allocated)
  BY <1>1, ListConstants, TLP!InitSound, Zenon
<1>4. QED
  BY <1>2, <1>3, ShapeInit DEF ListInv

LEMMA ListInvStep == ListInv /\ [Next]_vars => ListInv'
<1> SUFFICES ASSUME ListInv, [Next]_vars PROVE ListInv'
  OBVIOUS
<1>1. Shape' /\ [TLP!Next]_(TLP!vars)
  BY ShapeStep, StepsOfTheList DEF ListInv
<1>2. TLP!Inv /\ TLP!Sound(list, allocated)
  BY DEF ListInv
<1>3. TLP!Inv'
  BY <1>1, <1>2, ListConstants, TLP!NextInv, Zenon
<1>4. TLP!Sound(list, allocated)'
  BY <1>1, <1>2, ListConstants, TLP!NextSound, Zenon
<1>5. QED
  BY <1>1, <1>3, <1>4 DEF ListInv

(* Type correctness of the whole server, its timer list included.          *)
THEOREM TypesAreKept == Spec => []TypeOK
<1>1. ASSUME ListInv PROVE TypeOK
  <2>1. TL!TypeOK
    BY <1>1 DEF ListInv, TLP!Inv, TLP!Sound, TLP!Good, TLP!Links, TL!TypeOK, TL!Links
  <2>2. QED
    BY <1>1, <2>1, ShapeIsTyped DEF ListInv
<1>2. QED
  BY <1>1, ListInvInit, ListInvStep, PTL DEF Spec, SafeSpec

(* Until adjust_timer() loses a timer, nothing the event loop and the      *)
(* workers do makes the list follow a bad pointer, and every connection    *)
(* that is open, is about to be handled or was just given to the pool has  *)
(* its timer in the list, where tick() finds it.                           *)
ConnectionsAreListed ==
    ~everLost => /\ fault = "none"
                 /\ \A fd \in Fds : Used(fd) => users_timer[fd] \in TL!Listed(list)

THEOREM ConnectionsStayListed == Spec => []ConnectionsAreListed
<1>1. ASSUME ListInv, TimersInUseExist PROVE ConnectionsAreListed
  <2> SUFFICES ASSUME ~everLost PROVE fault = "none" /\ TLP!Listed(list) = allocated
    <3>1. TL!Listed(list) = TLP!Listed(list)
      BY DEF TL!Listed, TLP!Listed, TL!Chain, TLP!Chain, TL!N, TLP!N,
             TL!Cardinality, TLP!Cardinality, TL!IsFiniteSet, TLP!IsFiniteSet
    <3>2. QED
      BY <1>1, <3>1 DEF ConnectionsAreListed, TimersInUseExist, Used
  <2>1. TLP!WellFormedUntilLoss
    BY <1>1, ListConstants, TLP!RowIsWellFormed, Zenon DEF ListInv
  <2>2. QED
    BY <2>1 DEF TLP!WellFormedUntilLoss, TLP!WellFormedList
<1>2. QED
  BY <1>1, ListInvInit, ListInvStep, TimersInUseAreNotDeleted, PTL DEF Spec, SafeSpec

===============================================================================
