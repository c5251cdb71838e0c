-------------------------------- MODULE Server --------------------------------
(***************************************************************************)
(* The running server: the event loop of WXP_websever.cpp, the epoll       *)
(* registrations and sockets it shares with the worker threads, the        *)
(* http_conn object of every descriptor, and process() of http_conn.cpp as *)
(* the workers execute it.  It composes                                    *)
(*   TaskPool   the thread pool (ThreadPool implements it), and            *)
(*   TimerList  the timers of the connections.                             *)
(*                                                                         *)
(* One step is what one thread does between two points at which another    *)
(* thread can notice: an event handler of the main thread is one step, cut *)
(* where append() hands the connection to the workers; process() is cut    *)
(* before every access to the socket or to shared memory.                  *)
(*                                                                         *)
(* A descriptor number stands for its entry in users[] and users_timer[];  *)
(* it is used again after close().  A client sends one request at a time,  *)
(* in one or two pieces, and reads the answer before the next.             *)
(***************************************************************************)
EXTENDS Integers, Sequences, FiniteSets

CONSTANTS Fds,            \* descriptors a connection can have
          Timers,         \* bound: timers that exist at the same time
          Workers, MaxRequests,
          Lifetime,       \* 3 * TIMESLOT, in units of TIMESLOT
          MaxUsers,       \* MAX_FD
          MaxBacklog,     \* bound: clients waiting in the listen queue
          MaxConnects,    \* bound: clients that connect at all
          Kinds,          \* what the client of a descriptor asks for, see Requests
          ActorModels,    \* values of m_actormodel: 0 proactor, 1 reactor
          TRIGMode,       \* m_TRIGMode, see trig_mode() below
          Slow,           \* bound: descriptors whose clients send in two pieces
          Leaving,        \* bound: descriptors whose clients hang up
          Terminates,     \* bound: whether somebody sends SIGTERM
          NULL

(* From a client that keeps the connection, a file; from one that does not, *)
(* a file, a file that may not be read, whose answer is an error text in   *)
(* m_write_buf alone, and a file that does not exist (NO__RESOURCE).       *)
Requests == {"keep-alive", "close", "error", "missing"}

ASSUME ServerAssumption ==
    /\ IsFiniteSet(Fds) /\ Fds \subseteq Nat \ {0}     \* 0 is never a connection's
    /\ IsFiniteSet(Timers) /\ Timers \subseteq Nat
    /\ NULL \notin Fds \cup Timers
    /\ MaxUsers \in Nat /\ MaxBacklog \in Nat /\ MaxConnects \in Nat
    /\ MaxRequests \in Nat \ {0} /\ Lifetime \in Nat \ {0}
    /\ Kinds \in [Fds -> SUBSET Requests] /\ ActorModels \subseteq {0, 1}
    /\ TRIGMode \in 0 .. 3 /\ Slow \cup Leaving \subseteq Fds /\ Terminates \in BOOLEAN

(* trig_mode(): 0 level triggered, 1 edge triggered. *)
LISTENTrigmode == TRIGMode \div 2
CONNTrigmode   == TRIGMode % 2

VARIABLES
    (* the clients and the kernel *)
    client,       \* per descriptor: "none" (closed) or what its client does
    inbox,        \* per descriptor: what the client sent and nobody read
    interest,     \* per descriptor: what epoll reports, once ("off": nothing)
    connects,     \* clients that have connected
    backlog,      \* ... and wait for accept()
    edge,         \* edge triggered: a client connected since m_listenfd was reported
    alarm,        \* "set", "signalled": SIGALRM is in m_pipefd, or "read" from it
    term,         \* SIGTERM: "none", "signalled", or "read": stop_server
    (* the event loop *)
    actormodel,   \* m_actormodel
    loop,         \* where eventLoop() stands
    events,       \* what epoll_wait returned and is still to be handled
    sockfd,       \* the descriptor of the handler that called append()
    timeout,      \* the local variable of eventLoop()
    cutShort,     \* history: the last accept loop did not end with an empty queue
    user_count,   \* http_conn::m_user_count
    users,        \* users[]: m_socketfd # -1, the request read, the response
    users_timer,  \* users_timer[].timer
    user_data,    \* the descriptor whose client_data a timer points to
    (* timers and thread pool *)
    list, remaining, allocated, fault, everLost,
    pending, running,
    (* the workers *)
    step,         \* where process() stands
    count,        \* m_user_count as close_conn() loaded it
    (* histories *)
    dropped,      \* descriptors that a worker closed, in close_conn()
    outlived      \* descriptors that cb_func closed under a worker or in the queue

TL   == INSTANCE TimerList
Pool == INSTANCE TaskPool WITH Requests <- Fds, NoRequest <- NULL

signalVars == <<alarm, term>>
listenVars == <<connects, backlog, edge, cutShort>>
kernelVars == <<client, inbox, interest, listenVars, signalVars>>
loopVars   == <<actormodel, loop, events, sockfd, timeout>>
userVars   == <<user_count, users, users_timer, user_data>>
timerVars  == <<list, remaining, allocated, fault, everLost>>
poolVars   == <<pending, running>>
workerVars == <<step, count>>
closedVars == <<dropped, outlived>>
vars == <<kernelVars, loopVars, userVars, timerVars, poolVars, workerVars, closedVars>>

Listen == [fd |-> 0, what |-> "listen"]
Signal == [fd |-> 0, what |-> "signal"]
Event(fd, what) == [fd |-> fd, what |-> what]

Fresh == [connected |-> FALSE, request |-> "none", response |-> "none"]

Init ==
    /\ client = [fd \in Fds |-> "none"]
    /\ inbox = [fd \in Fds |-> "none"]
    /\ interest = [fd \in Fds |-> "none"]
    /\ connects = 0 /\ backlog = 0 /\ edge = FALSE /\ cutShort = FALSE
    /\ alarm = "set" /\ term = "none"
    /\ actormodel \in ActorModels
    /\ loop = "epoll_wait" /\ events = {} /\ sockfd = NULL /\ timeout = FALSE
    /\ user_count = 0
    /\ users = [fd \in Fds |-> Fresh]
    /\ users_timer = [fd \in Fds |-> NULL]
    /\ user_data = [t \in Timers |-> NULL]
    /\ TL!Init
    /\ Pool!Init
    /\ step = [w \in Workers |-> "idle"]
    /\ count = [w \in Workers |-> 0]
    /\ dropped = {} /\ outlived = {}

(* A thread that follows a bad pointer takes the whole process with it; so  *)
(* does the end of eventLoop(), main() and the destructor.                 *)
Alive == fault = "none" /\ loop # "stopped"

-------------------------------------------------------------------------------
(* Clients and time *)

Connect ==
    /\ Alive /\ connects < MaxConnects /\ backlog < MaxBacklog
    /\ backlog + Cardinality(allocated) < Cardinality(Timers)
    /\ connects' = connects + 1
    /\ backlog' = backlog + 1 /\ edge' = (LISTENTrigmode = 1)
    /\ UNCHANGED <<client, inbox, interest, cutShort, signalVars, loopVars, userVars,
                   timerVars, poolVars, workerVars, closedVars>>

SendPart(fd) ==
    /\ Alive /\ client[fd] = "idle" /\ fd \in Slow
    /\ client' = [client EXCEPT ![fd] = "sending"]
    /\ inbox' = [inbox EXCEPT ![fd] = "part"]
    /\ UNCHANGED <<interest, listenVars, signalVars, loopVars, userVars, timerVars,
                   poolVars, workerVars, closedVars>>

SendRequest(fd) ==
    /\ Alive /\ client[fd] \in {"idle", "sending"}
    /\ client' = [client EXCEPT ![fd] = "waiting"]
    /\ \E k \in Kinds[fd] : inbox' = [inbox EXCEPT ![fd] = k]
    /\ UNCHANGED <<interest, listenVars, signalVars, loopVars, userVars, timerVars,
                   poolVars, workerVars, closedVars>>

HangUp(fd) ==
    /\ Alive /\ client[fd] \in {"idle", "sending", "waiting"} /\ fd \in Leaving
    /\ client' = [client EXCEPT ![fd] = "gone"]
    /\ UNCHANGED <<inbox, interest, listenVars, signalVars, loopVars, userVars,
                   timerVars, poolVars, workerVars, closedVars>>

(* A TIMESLOT passes: the timers come closer and the alarm goes off, if    *)
(* timer_handler() has set it again.                                       *)
TimePasses ==
    /\ Alive
    /\ TL!TimePasses
    /\ alarm' = IF alarm = "set" THEN "signalled" ELSE alarm
    /\ UNCHANGED <<client, inbox, interest, listenVars, term, loopVars, userVars,
                   poolVars, workerVars, closedVars>>

(* kill: sig_handler() writes SIGTERM to m_pipefd. *)
Terminate ==
    /\ Alive /\ Terminates /\ term = "none"
    /\ term' = "signalled"
    /\ UNCHANGED <<client, inbox, interest, listenVars, alarm, loopVars, userVars,
                   timerVars, poolVars, workerVars, closedVars>>

-------------------------------------------------------------------------------
(* epoll and descriptors *)

Open(fd) == client[fd] # "none"

(* What epoll has to report for fd: the hang-up of the client, which the   *)
(* loop tests first, data to read, or room to write.                       *)
Ready == {Event(fd, "hup") : fd \in {f \in Fds : interest[f] \in {"in", "out"}
                                                   /\ client[f] = "gone"}}
    \cup {Event(fd, "in") : fd \in {f \in Fds : interest[f] = "in"
                                      /\ client[f] # "gone" /\ inbox[f] # "none"}}
    \cup {Event(fd, "out") : fd \in {f \in Fds : interest[f] = "out"
                                                   /\ client[f] # "gone"}}
    \cup (IF backlog > 0 /\ (LISTENTrigmode = 1 => edge) THEN {Listen} ELSE {})
    \cup (IF "signalled" \in {alarm, term} THEN {Signal} ELSE {})

(* Plausible bugs, each a variant of the definition it is named after that  *)
(* the specification does not use, stand just before it.                   *)

Disarmed_NotOneshot(reported) == interest      \* addfd(..., false, ...)

(* EPOLLONESHOT: a reported descriptor stays silent until modfd. *)
Disarmed(reported) ==
    [fd \in Fds |-> IF fd \in {e.fd : e \in reported} THEN "off" ELSE interest[fd]]

(* modfd(m_epollfd, m_socketfd, ev): fails, unnoticed, if m_socketfd is -1 *)
(* or not registered.                                                      *)
Modfd(fd, ev) ==
    IF users[fd].connected /\ interest[fd] # "none"
    THEN [interest EXCEPT ![fd] = ev] ELSE interest

(* epoll_ctl(EPOLL_CTL_DEL) and close() for the descriptors in closed. *)
Close(closed) ==
    /\ client'   = [fd \in Fds |-> IF fd \in closed THEN "none" ELSE client[fd]]
    /\ inbox'    = [fd \in Fds |-> IF fd \in closed THEN "none" ELSE inbox[fd]]
    /\ interest' = [fd \in Fds |-> IF fd \in closed THEN "none" ELSE interest[fd]]

(* The workers that process() the request of fd, until its modfd. *)
Holders(fd) == {w \in Workers : running[w] = fd /\ step[w] # "return"}

InPool(fd) == Holders(fd) # {} \/ \E i \in DOMAIN pending : pending[i] = fd

(* calls calls of cb_func, for the descriptors in closed. *)
CbFunc(closed, calls) ==
    /\ Close(closed)
    /\ user_count' = user_count - calls
    /\ outlived' = outlived \cup {fd \in closed : InPool(fd)}

-------------------------------------------------------------------------------
(* The event loop *)

EpollWait ==
    /\ Alive /\ loop = "epoll_wait" /\ term # "read"
    /\ Ready # {}
    /\ events' = Ready
    /\ interest' = Disarmed(Ready)
    /\ edge' = FALSE
    /\ loop' = "events"
    /\ UNCHANGED <<client, inbox, connects, backlog, cutShort, signalVars, actormodel,
                   sockfd, timeout, userVars, timerVars, poolVars, workerVars, closedVars>>

Handle(e) ==
    /\ Alive /\ loop = "events"
    /\ e \in events
    /\ events' = events \ {e}

(* users[fd].init(...): registers the descriptor, counts the user and      *)
(* resets the object.                                                      *)
InitConn(fd) ==
    /\ interest' = [interest EXCEPT ![fd] = "in"]
    /\ user_count' = user_count + 1
    /\ users' = [users EXCEPT ![fd] = [Fresh EXCEPT !.connected = TRUE]]

(* The rest of timer(): a new timer for users_timer[fd]. *)
StartTimer(fd) ==
    LET free == Timers \ allocated
        t    == CHOOSE x \in free : \A y \in free : x <= y
    IN  /\ users_timer' = [users_timer EXCEPT ![fd] = t]
        /\ user_data' = [user_data EXCEPT ![t] = fd]
        /\ TL!AddTimer(t)

(* dealclinetdata() calls accept(): for the event, and edge triggered again *)
(* and again, until there is nothing to accept or a client is refused.     *)
CallAccept ==
    \/ Handle(Listen)
    \/ Alive /\ loop = "accept" /\ UNCHANGED events

AfterAccept_Once == "events"    \* edge triggered without the loop

AfterAccept == IF LISTENTrigmode = 1 THEN "accept" ELSE "events"

(* ... and timer() for the client. *)
Accept ==
    LET free == {f \in Fds : ~Open(f)}
        fd   == CHOOSE f \in free : \A g \in free : f <= g
    IN  /\ CallAccept
        /\ backlog > 0 /\ user_count < MaxUsers /\ free # {}
        /\ backlog' = backlog - 1
        /\ client' = [client EXCEPT ![fd] = "idle"]
        /\ inbox' = [inbox EXCEPT ![fd] = "none"]
        /\ InitConn(fd)
        /\ StartTimer(fd)
        /\ loop' = AfterAccept
        /\ UNCHANGED <<connects, edge, cutShort, signalVars, actormodel, sockfd, timeout,
                       poolVars, workerVars, closedVars>>

(* "Internal server busy": show_error() closes the new connection, whose   *)
(* descriptor is above those of Fds.                                       *)
Refuse ==
    /\ CallAccept
    /\ backlog > 0 /\ user_count >= MaxUsers
    /\ backlog' = backlog - 1
    /\ loop' = "events"
    /\ cutShort' = (LISTENTrigmode = 1)
    /\ UNCHANGED <<client, inbox, interest, connects, edge, signalVars, actormodel,
                   sockfd, timeout, userVars, timerVars, poolVars, workerVars, closedVars>>

(* accept() finds nobody, or no free descriptor, and the clients stay in   *)
(* the queue.                                                              *)
AcceptFails ==
    /\ CallAccept
    /\ backlog = 0 \/ (user_count < MaxUsers /\ \A fd \in Fds : Open(fd))
    /\ loop' = "events"
    /\ cutShort' = (LISTENTrigmode = 1 /\ backlog > 0)
    /\ UNCHANGED <<client, inbox, interest, connects, backlog, edge, signalVars, actormodel,
                   sockfd, timeout, userVars, timerVars, poolVars, workerVars, closedVars>>

HandleSignal_Ticks ==           \* ticks in the middle of the batch
    /\ Handle(Signal)
    /\ alarm' = "set"
    /\ TL!Tick
    /\ LET fired == allocated \ allocated'
       IN  CbFunc({user_data[t] : t \in fired}, Cardinality(fired))
    /\ UNCHANGED <<listenVars, term, actormodel, loop, sockfd, timeout, users, users_timer,
                   user_data, poolVars, workerVars, dropped>>

Read(signal) == IF signal = "signalled" THEN "read" ELSE signal

HandleSignal_Ignores ==         \* does not set timeout
    /\ Handle(Signal)
    /\ alarm' = Read(alarm) /\ term' = Read(term)
    /\ UNCHANGED <<client, inbox, interest, listenVars, actormodel, loop, sockfd, timeout,
                   userVars, timerVars, poolVars, workerVars, closedVars>>

HandleSignal_First ==           \* looks at signals[0] only
    /\ Handle(Signal)
    /\ alarm' = Read(alarm)
    /\ term' = IF alarm = "signalled" /\ term = "signalled" THEN "none" ELSE Read(term)
    /\ timeout' = (timeout \/ alarm = "signalled")
    /\ UNCHANGED <<client, inbox, interest, listenVars, actormodel, loop, sockfd,
                   userVars, timerVars, poolVars, workerVars, closedVars>>

(* dealwithsignal(): takes all signals in m_pipefd; SIGALRM only notes the *)
(* timeout, SIGTERM that the loop shall end.                               *)
HandleSignal ==
    /\ Handle(Signal)
    /\ alarm' = Read(alarm) /\ term' = Read(term)
    /\ timeout' = (timeout \/ alarm = "signalled")
    /\ UNCHANGED <<client, inbox, interest, listenVars, actormodel, loop, sockfd,
                   userVars, timerVars, poolVars, workerVars, closedVars>>

DealTimer_NoDelTimer(fd) ==     \* only calls cb_func
    /\ CbFunc({fd}, 1)
    /\ UNCHANGED <<listenVars, signalVars, users, users_timer, user_data, timerVars,
                   dropped>>

DealTimer_NotCounted(fd) ==     \* cb_func without m_user_count--
    /\ Close({fd})
    /\ TL!DelTimer(users_timer[fd])
    /\ UNCHANGED <<user_count, outlived, listenVars, signalVars, users, users_timer, user_data,
                   dropped>>

(* deal_timer(): cb_func closes the descriptor and counts the user off,    *)
(* del_timer deletes the timer.                                            *)
DealTimer(fd) ==
    /\ CbFunc({fd}, 1)
    /\ TL!DelTimer(users_timer[fd])
    /\ UNCHANGED <<listenVars, signalVars, users, users_timer, user_data, dropped>>

HandleHangUp(fd) ==
    /\ Handle(Event(fd, "hup"))
    /\ DealTimer(fd)
    /\ UNCHANGED <<actormodel, loop, sockfd, timeout, poolVars, workerVars>>

Append_Unlimited(fd) ==         \* does not look at m_max_requests
    pending' = Append(pending, fd) /\ UNCHANGED running

(* append() and append_p(): a full queue refuses, and no caller looks.     *)
AppendRequest(fd) ==
    \/ Pool!Submit(fd)
    \/ Len(pending) >= MaxRequests /\ UNCHANGED poolVars

(* read() returns true: level triggered, if there are data; edge triggered, *)
(* where it goes on until there are none, unless it meets the end of the   *)
(* stream, and so also if there were none.                                 *)
ReadSucceeds(fd) ==
    /\ users[fd].connected /\ Open(fd)
    /\ IF CONNTrigmode = 1 THEN client[fd] # "gone" ELSE inbox[fd] # "none"

(* What m_read_buf then holds. *)
Received(fd) == IF inbox[fd] = "none" THEN users[fd].request ELSE inbox[fd]

(* dealwithread(), proactor *)
ReadRequest(fd) ==
    /\ actormodel = 0
    /\ Handle(Event(fd, "in"))
    /\ ReadSucceeds(fd)
    /\ users' = [users EXCEPT ![fd].request = Received(fd)]
    /\ inbox' = [inbox EXCEPT ![fd] = "none"]
    /\ AppendRequest(fd)
    /\ loop' = "adjust" /\ sockfd' = fd
    /\ UNCHANGED <<client, interest, listenVars, signalVars, actormodel, timeout,
                   user_count, users_timer, user_data, timerVars, workerVars,
                   closedVars>>

AfterAppend ==
    /\ loop = "adjust"
    /\ TL!AdjustTimer(users_timer[sockfd])
    /\ loop' = "events" /\ sockfd' = NULL
    /\ UNCHANGED <<kernelVars, actormodel, events, timeout, userVars, poolVars, workerVars,
                   closedVars>>

ReadFails(fd) ==
    /\ actormodel = 0
    /\ Handle(Event(fd, "in"))
    /\ ~ReadSucceeds(fd)
    /\ DealTimer(fd)
    /\ UNCHANGED <<actormodel, loop, sockfd, timeout, poolVars, workerVars>>

(* init() of http_conn forgets the request and the response. *)
Forgotten(fd) == [users EXCEPT ![fd].request = "none", ![fd].response = "none"]

Answered(fd) == IF client[fd] = "waiting" THEN [client EXCEPT ![fd] = "idle"] ELSE client

(* dealwithwrite(), proactor, where write() returns true: nothing to send, *)
(* everything sent for a client that keeps the connection, or EAGAIN.      *)
WriteKeeps(fd) ==
    /\ actormodel = 0
    /\ Handle(Event(fd, "out"))
    /\ \/ /\ users[fd].response = "none"
          /\ interest' = Modfd(fd, "in")
          /\ users' = Forgotten(fd)
          /\ UNCHANGED client
       \/ /\ users[fd].response = "keep-alive" /\ users[fd].connected /\ Open(fd)
          /\ interest' = Modfd(fd, "in")
          /\ users' = Forgotten(fd)
          /\ client' = Answered(fd)
    /\ TL!AdjustTimer(users_timer[fd])
    /\ UNCHANGED <<inbox, listenVars, signalVars, actormodel, loop, sockfd, timeout,
                   user_count, users_timer, user_data, poolVars, workerVars,
                   closedVars>>

WriteBlocks(fd) ==
    /\ actormodel = 0
    /\ Handle(Event(fd, "out"))
    /\ users[fd].response # "none" /\ users[fd].connected /\ Open(fd)
    /\ interest' = Modfd(fd, "out")
    /\ TL!AdjustTimer(users_timer[fd])
    /\ UNCHANGED <<client, inbox, listenVars, signalVars, actormodel, loop, sockfd, timeout,
                   userVars, poolVars, workerVars, closedVars>>

(* ... where it does not return: after two short writes of an answer that  *)
(* is m_write_buf alone, m_iv holds nothing more, and writev() goes on     *)
(* returning 0.                                                            *)
WriteHangs(fd) ==
    /\ actormodel = 0
    /\ Handle(Event(fd, "out"))
    /\ users[fd].response = "error" /\ users[fd].connected /\ Open(fd)
    /\ loop' = "write" /\ sockfd' = fd
    /\ UNCHANGED <<kernelVars, actormodel, timeout, userVars, timerVars, poolVars, workerVars,
                   closedVars>>

(* ... and where it returns false: everything sent for a client that does  *)
(* not keep the connection, or writev() fails.                             *)
WriteEnds(fd) ==
    /\ actormodel = 0
    /\ Handle(Event(fd, "out"))
    /\ users[fd].response # "none"
    /\ \/ users[fd].response \in {"close", "error"}
       \/ ~users[fd].connected \/ client[fd] \in {"none", "gone"}
    /\ DealTimer(fd)
    /\ UNCHANGED <<actormodel, loop, sockfd, timeout, poolVars, workerVars>>

(* dealwithread() and dealwithwrite(), reactor: adjust the timer, append,  *)
(* and spin until improv is 1.  The only value the program ever assigns to *)
(* improv is 0, so the loop does not end.                                  *)
ReactorHandOver(fd) ==
    /\ actormodel = 1
    /\ \E what \in {"in", "out"} : Handle(Event(fd, what))
    /\ TL!AdjustTimer(users_timer[fd])
    /\ AppendRequest(fd)
    /\ loop' = "spin" /\ sockfd' = fd
    /\ UNCHANGED <<kernelVars, actormodel, timeout, userVars, workerVars, closedVars>>

(* The batch is done; timer_handler() if SIGALRM was part of it. *)
EndOfEvents ==
    /\ Alive /\ loop = "events" /\ events = {} /\ ~timeout
    /\ loop' = "epoll_wait"
    /\ UNCHANGED <<kernelVars, actormodel, events, sockfd, timeout, userVars,
                   timerVars, poolVars, workerVars, closedVars>>

TimerHandler_NoClose ==         \* cb_func without close()
    /\ loop = "events" /\ events = {} /\ timeout
    /\ TL!Tick
    /\ user_count' = user_count - Cardinality(allocated \ allocated')
    /\ UNCHANGED outlived
    /\ timeout' = FALSE /\ alarm' = "set"
    /\ loop' = "epoll_wait"
    /\ UNCHANGED <<client, inbox, interest, listenVars, term, actormodel, events, sockfd,
                   users, users_timer, user_data, poolVars, workerVars, dropped>>

TimerHandler ==
    /\ loop = "events" /\ events = {} /\ timeout
    /\ TL!Tick
    /\ LET fired == allocated \ allocated'
       IN  CbFunc({user_data[t] : t \in fired}, Cardinality(fired))
    /\ timeout' = FALSE /\ alarm' = "set"
    /\ loop' = "epoll_wait"
    /\ UNCHANGED <<listenVars, term, actormodel, events, sockfd, users, users_timer,
                   user_data, poolVars, workerVars, dropped>>

(* The loop ends at stop_server.  What follows, the destructor and the end *)
(* of main(), closes every descriptor and waits for no worker; one that    *)
(* runs into users[] after its deletion ends the program no less.          *)
Stop ==
    /\ Alive /\ loop = "epoll_wait" /\ term = "read"
    /\ loop' = "stopped"
    /\ UNCHANGED <<kernelVars, actormodel, events, sockfd, timeout, userVars, timerVars,
                   poolVars, workerVars, closedVars>>

-------------------------------------------------------------------------------
(* The workers: process() *)

Take(w) ==
    /\ Alive /\ step[w] = "idle"
    /\ Pool!Take(w)
    /\ step' = [step EXCEPT ![w] = "process_read"]
    /\ UNCHANGED <<kernelVars, loopVars, userVars, timerVars, count, closedVars>>

(* process_read(), and process_write() unless the request is incomplete or *)
(* names no file.  A request is parsed once: m_checked_idx is behind it.   *)
Process(w) ==
    LET fd == running[w]
        k  == users[fd].request
    IN  /\ Alive /\ step[w] = "process_read"
        /\ step' = [step EXCEPT ![w] = IF k \in {"none", "part"} THEN "rearm in"
                                       ELSE IF k = "missing" THEN "close_conn"
                                       ELSE "rearm out"]
        /\ users' = IF k \in {"none", "part"} THEN users
                    ELSE IF k = "missing" THEN [users EXCEPT ![fd].request = "none"]
                    ELSE [users EXCEPT ![fd].request = "none", ![fd].response = k]
        /\ UNCHANGED <<kernelVars, loopVars, user_count, users_timer, user_data,
                       timerVars, poolVars, count, closedVars>>

(* The last modfd of process(), with EPOLLIN or EPOLLOUT: from here on the *)
(* event loop can have the connection again ...                            *)
Rearm(w) ==
    /\ Alive /\ step[w] \in {"rearm in", "rearm out"}
    /\ interest' = Modfd(running[w], IF step[w] = "rearm in" THEN "in" ELSE "out")
    /\ step' = [step EXCEPT ![w] = "return"]
    /\ UNCHANGED <<client, inbox, listenVars, signalVars, loopVars, userVars, timerVars,
                   poolVars, count, closedVars>>

(* ... and process() returns to run(). *)
Return(w) ==
    /\ Alive /\ step[w] = "return"
    /\ Pool!Finish(w)
    /\ step' = [step EXCEPT ![w] = "idle"]
    /\ UNCHANGED <<kernelVars, loopVars, userVars, timerVars, count, closedVars>>

(* close_conn(): removefd, m_user_count--, m_socketfd = -1; the timer of   *)
(* the connection stays in the list.                                       *)
CloseConn(w) ==
    LET fd == running[w]
    IN  /\ Alive /\ step[w] = "close_conn"
        /\ IF users[fd].connected
           THEN /\ Close({fd}) /\ dropped' = dropped \cup {fd}
                /\ step' = [step EXCEPT ![w] = "load count"]
           ELSE /\ UNCHANGED <<client, inbox, interest, dropped>>
                /\ step' = [step EXCEPT ![w] = "rearm out"]
        /\ UNCHANGED <<listenVars, signalVars, loopVars, userVars, timerVars, poolVars, count,
                       outlived>>

(* m_user_count is a plain int: a decrement is a load and a store.         *)
LoadCount(w) ==
    /\ Alive /\ step[w] = "load count"
    /\ count' = [count EXCEPT ![w] = user_count]
    /\ step' = [step EXCEPT ![w] = "store count"]
    /\ UNCHANGED <<kernelVars, loopVars, userVars, timerVars, poolVars, closedVars>>

StoreCount(w) ==
    /\ Alive /\ step[w] = "store count"
    /\ user_count' = count[w] - 1
    /\ count' = [count EXCEPT ![w] = 0]
    /\ step' = [step EXCEPT ![w] = "clear m_socketfd"]
    /\ UNCHANGED <<kernelVars, loopVars, users, users_timer, user_data, timerVars, poolVars,
                   closedVars>>

ClearSocketfd(w) ==
    /\ Alive /\ step[w] = "clear m_socketfd"
    /\ users' = [users EXCEPT ![running[w]].connected = FALSE]
    /\ step' = [step EXCEPT ![w] = "rearm out"]
    /\ UNCHANGED <<kernelVars, loopVars, user_count, users_timer, user_data,
                   timerVars, poolVars, count, closedVars>>

-------------------------------------------------------------------------------
ClientStep == \E fd \in Fds : SendPart(fd) \/ SendRequest(fd) \/ HangUp(fd)

MainStep ==
    \/ EpollWait \/ Accept \/ Refuse \/ AcceptFails \/ HandleSignal
    \/ AfterAppend \/ EndOfEvents \/ TimerHandler \/ Stop
    \/ \E fd \in Fds :
          \/ HandleHangUp(fd) \/ ReadRequest(fd) \/ ReadFails(fd)
          \/ WriteKeeps(fd) \/ WriteBlocks(fd) \/ WriteHangs(fd) \/ WriteEnds(fd)
          \/ ReactorHandOver(fd)

WorkerStep(w) ==
    \/ Take(w) \/ Process(w) \/ Rearm(w) \/ Return(w)
    \/ CloseConn(w) \/ LoadCount(w) \/ StoreCount(w) \/ ClearSocketfd(w)

Next ==
    \/ Connect \/ ClientStep \/ TimePasses \/ Terminate
    \/ MainStep
    \/ \E w \in Workers : WorkerStep(w)

SafeSpec == Init /\ [][Next]_vars

(* The event loop and the workers run, and time goes on.  EPOLLOUT means   *)
(* that there is room, so a write blocks only finitely often.              *)
Fairness ==
    /\ WF_vars(MainStep)
    /\ \A fd \in Fds : SF_vars(WriteKeeps(fd) \/ WriteEnds(fd))
    /\ \A w \in Workers : WF_vars(WorkerStep(w))
    /\ WF_vars(TimePasses)

Spec == SafeSpec /\ Fairness

-------------------------------------------------------------------------------
(* Type invariant. *)
TypeOK ==
    /\ client \in [Fds -> {"none", "idle", "sending", "waiting", "gone"}]
    /\ inbox \in [Fds -> {"none", "part"} \cup Requests]
    /\ interest \in [Fds -> {"none", "off", "in", "out"}]
    /\ connects \in 0 .. MaxConnects /\ backlog \in 0 .. MaxBacklog
    /\ edge \in BOOLEAN /\ cutShort \in BOOLEAN
    /\ alarm \in {"set", "signalled", "read"} /\ timeout \in BOOLEAN
    /\ term \in {"none", "signalled", "read"}
    /\ actormodel \in ActorModels
    /\ loop \in {"epoll_wait", "events", "accept", "adjust", "spin", "write", "stopped"}
    /\ events \subseteq {Listen, Signal}
                      \cup {Event(fd, what) : fd \in Fds, what \in {"in", "out", "hup"}}
    /\ sockfd \in Fds \cup {NULL}
    /\ user_count \in Int
    /\ users \in [Fds -> [connected : BOOLEAN,
                         request   : {"none", "part"} \cup Requests,
                         response  : {"none", "keep-alive", "close", "error"}]]
    /\ users_timer \in [Fds -> Timers \cup {NULL}]
    /\ user_data \in [Timers -> Fds \cup {NULL}]
    /\ pending \in Seq(Fds) /\ Len(pending) <= MaxRequests
    /\ running \in [Workers -> Fds \cup {NULL}]
    /\ \A w \in Workers : step[w] = "idle" <=> running[w] = NULL
    /\ count \in [Workers -> Int]
    /\ dropped \cup outlived \subseteq Fds
    /\ TL!TypeOK

HasEvent(fd) == \E e \in events : e.fd = fd

(* Two defects of the code break the hold of the event loop on a           *)
(* connection; the descriptors they met are the exceptions of what follows. *)
(* close_conn() in a worker leaves the timer of what it closes in the list  *)
(* (dropped), and the timer of a connection can close it while a worker has *)
(* it, or it waits for one (outlived).                                     *)
Intact(fd) == fd \notin dropped \cup outlived

(* EPOLLONESHOT and the order of modfd in process() give every connection  *)
(* one owner: from append() to the last modfd of process() it is open,     *)
(* nothing else is reported for it, no event of it is pending, and no      *)
(* second worker has it.                                                   *)
OneOwner ==
    \A fd \in Fds : InPool(fd) /\ Intact(fd) =>
        /\ Open(fd) /\ interest[fd] = "off" /\ ~HasEvent(fd)
        /\ Cardinality(Holders(fd)) + Cardinality({i \in DOMAIN pending : pending[i] = fd}) = 1

(* An event is handled for the connection it was reported for: nothing     *)
(* that happens earlier in the batch closes or reopens its descriptor, or  *)
(* makes epoll report it again.                                            *)
EventsAreFresh ==
    \A fd \in Fds : HasEvent(fd) =>
        /\ fd \notin dropped => Open(fd)
        /\ Intact(fd) => interest[fd] = "off"

(* Every connection has its own timer, and every timer its connection,     *)
(* until the program ends with a fault.                                    *)
TimersMatchConnections ==
    fault = "none" =>
        /\ \A fd \in Fds \ dropped : Open(fd) =>
              users_timer[fd] \in allocated /\ user_data[users_timer[fd]] = fd
        /\ \A t \in allocated : user_data[t] \notin dropped =>
              user_data[t] # NULL /\ Open(user_data[t]) /\ users_timer[user_data[t]] = t

(* m_user_count "统计用户数量": it is the number of open connections, outside *)
(* of close_conn().                                                        *)
Closing == \E w \in Workers : step[w] \in {"load count", "store count"}
CountMatches == Closing \/ user_count = Cardinality({fd \in Fds : Open(fd)})

(* ... and it is, through every accept, refusal, hang-up and timeout, and  *)
(* whatever a worker still holds, until the first close_conn().            *)
CountMatchesUntilDropped == dropped = {} => user_count = Cardinality({fd \in Fds : Open(fd)})

(* Whatever the workers close, the event loop never uses the timer of a    *)
(* connection after its deletion, and never loses an open connection: its  *)
(* timer still exists, until a fault ends the program.                     *)
TimersInUseExist ==
    fault = "none" => \A fd \in Fds :
        Open(fd) \/ HasEvent(fd) \/ (loop = "adjust" /\ sockfd = fd) =>
            users_timer[fd] \in allocated /\ user_data[users_timer[fd]] = fd

(* Edge triggered, the event loop sleeps on clients in the listen queue     *)
(* only if epoll will still report them, or if a refusal or the lack of a   *)
(* descriptor ended the last accept loop: then they wait until another     *)
(* client connects.                                                        *)
NobodyForgotten ==
    LISTENTrigmode = 1 /\ loop = "epoll_wait" /\ backlog > 0 => edge \/ cutShort

(* A client that sent its request is not left waiting: it is answered, or  *)
(* its connection is closed, at the latest with the program, unless the    *)
(* event loop is in a write() without end, or adjust_timer() lost the      *)
(* timer of the connection, which is what closes it if append_p() refused  *)
(* the request.                                                            *)
RequestsAreAnswered ==
    \A fd \in {f \in Fds : Kinds[f] # {}} : client[fd] = "waiting" ~>
        \/ client[fd] # "waiting" \/ loop = "stopped" \/ fault # "none"
        \/ loop = "write"
        \/ users_timer[fd] \notin TL!Listed(list)

(* SIGTERM ends the event loop, whatever else is in m_pipefd and whoever   *)
(* waits, unless a write() without end does not let it go on: stop_server  *)
(* is not lost.                                                            *)
SIGTERMStops == term = "signalled" ~> loop \in {"stopped", "write"} \/ fault # "none"
===============================================================================
