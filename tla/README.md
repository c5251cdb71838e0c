# A TLA+ model of WXP_Webserver

`src/` is an HTTP server in C++: one event loop on epoll, a pool of worker
threads, a list of timers that closes idle connections, a parser written as two
state machines, a log with an optional writer thread and a pool of database
connections. This directory models it in TLA+, checks the model with TLC on
small instances and proves properties of it with TLAPS. `PROJECT.json` maps each
definition to the lines it models and lists the runs, the hazards of the code
and the theorems.

## Inventory

| component | source | state | operations | what makes it correct |
|---|---|---|---|---|
| thread pool | `process_thread_pool/threadpool.h`, `locker/locker.h` | `m_workqueue`, `m_queuelocker`, `m_queuestat` | `append`, `append_p`, `run` | bounded FIFO, each accepted request handed to one worker, no lost wake-up |
| timer list | `timer/lst_timer.h` | `head`, `tail`, links, `expire` | `add_timer`, `adjust_timer`, `del_timer`, `tick` | ascending doubly linked list of all live timers |
| event loop | `WXP_websever.cpp`, `timer/lst_timer.cpp` | `events`, `timeout`, `users`, `users_timer`, epoll, alarm | `eventLoop` and the handlers `deal*`, `timer_handler`, `cb_func` | an event, a timer and a request concern the connection they were made for; every request comes to an end |
| HTTP connection | `http_conn/http_conn.cpp` | read and write buffer, parser state, `m_user_count` | `read`, `process`, `write`, `close_conn`, `init` | the result does not depend on how the peer's bytes are cut; the whole answer is sent |
| users | `http_conn.cpp` 24-46, 416-485 | map `users`, database | register, log in | a form is judged by its own name and password |
| log | `log/log.cpp`, `log/log.h`, `log/log_queue.h` | `m_log_queue`, `m_fp`, `m_buf`, `m_count`, `m_today` | `write_log`, `flush`, `push`, `pop`, `async_write_log` | no line lost or out of order but for a full queue, each in the file of its day |
| database pool | `conn_mysql/sql_connection_pool.cpp` | `connList`, `reserve`, counters | `GetConnection`, `ReleaseConnection`, `DestroyPool` | free + used = all, one user per connection |
| process pool | `process_thread_pool/processpool.h`, `processpool_CGI.cpp` | process table, pipes, `m_idx`, `m_stop` | the constructor, `run_parent`, `run_child` | children are reaped, and none outlives a stop |
| timer heap, timing wheel | `timer/time_heap.h`, `timer/TimingWheel.h` | array, slots | add, delete, tick | heap order, expiry at the right tick |
| exercises | `ET_LT/`, `send_file/`, `timer/11_*`, `http_thread.cpp` | | | not part of the server |

Threads: the main thread runs `eventLoop`; it alone accepts, reads, writes
(proactor), and uses the timer list. The workers run `process()`: parse, build
the answer, re-arm the descriptor (`modfd`) or close it (`close_conn`). They
share with the main thread the queue of the pool, the `http_conn` objects, the
epoll set, the descriptor table and `http_conn::m_user_count`. SIGALRM enters
the loop through a pipe, and may interrupt `sem_wait` in a worker.

The hard behaviours: a connection given away while the main thread goes on using
it; descriptor numbers that the kernel gives out again; a batch of events that
becomes stale while it is handled; a timer that runs out while its connection is
in the pool; a full queue whose refusal nobody sees; unlocked counters and maps.
`PROJECT.json` lists each under "hazards", at its line.

## Modules

| module | models |
|---|---|
| `TaskPool` | what the thread pool promises: a bounded FIFO hand-over |
| `ThreadPool` | the pool as it is: mutex, semaphore, one step per statement that another thread can notice |
| `ThreadPoolProofs` (with the other two pools of `MCThreadPool`), `ConnectionPoolProofs`, `ProcessPoolProofs`, `LogProofs`, `HttpConnProofs`, `TimerListProofs`, `ServerProofs` | theorems about the module of that name, with their proofs |
| `ContainerProofs` | the same for the heap and the wheel in `MCTimers` |
| `TimerSet` | what the timer list promises: a set of timers and a tick that removes exactly the expired |
| `TimerList` | `sort_timer_lst` with its pointers |
| `TimeHeap` | `time_heap`: the array, its growth, what `percolate_down` does to it |
| `TimingWheel` | `time_wheel`: the slots with their lists, rotations |
| `Server` | event loop, epoll, descriptors, connections and workers; instantiates `TimerList` (the real list) and `TaskPool` (the promise that `ThreadPool` implements) |
| `HttpConn` | one `http_conn` object: `read`, `process_read`, `do_request`, `process_write`, `write`, `init` |
| `LineLog` | what the log promises: a line is written once, queued lines in order, refused only when the queue is full |
| `Log` | `write_log`, `flush`, the ring buffer with its condition variable, the writer thread, change of day and of file |
| `ConnectionPool` | `connection_pool` as `connectionRAII` uses it |
| `ProcessPool` | `processpool` as `processpool_CGI.cpp` runs it: fork, signals, the table of children, deaths |
| `MC*` | instances for TLC; `MCThreadPool` holds the three pools and `MCTimers` the three containers of timers, one of them per behaviour |

`ThreadPool`. `pc[t]` is where a thread stands in `append()` or `run()`;
`AppendLock .. AppendPost` and `Wait .. RunProcess` are the statements in order.
`append` and `append_p` differ in `m_state`, which nobody reads, so they are one
operation. `WaitInterrupted` is `sem_wait` returning EINTR, whose result `run()`
ignores; `MaxInterrupts` bounds how often.

`TimerList`. Every operation is one step because only the main thread calls it.
`list` holds `head`, `tail` and the links; `Follow` applies an operation unless
it would follow NULL or a deleted timer, which ends the program (`fault`).
`expire` is kept as the time that remains, in units of TIMESLOT. That is exact
for this server: each `expire` is the time of the call plus 3 * TIMESLOT, so
comparisons only see differences, and a new `expire` is never before any other.
For that reason the branch of `add_timer` for a timer before the head (line 77)
cannot be taken and is not in the model; a system clock that is set back, which
could take it, is not modelled. After a loss the list can be empty while a lost
timer is adjusted: then `add_timer()` follows a NULL head. `tick()` calls `cb_func` and deletes; `Server`
gives `cb_func` its effect.

`Server`. One handler of the event loop is one step, except that `ReadRequest`
ends at `append_p` (the connection is in the pool) and `AfterAppend` is the
`adjust_timer` that follows. An edge-triggered `read()` that finds nothing meets
EAGAIN and returns true like any other, so its connection goes into the pool too
(`ReadSucceeds`); only the end of the stream makes it fail. `WriteKeeps`,
`WriteBlocks` and `WriteEnds` are what `write()` can return; `WriteHangs` is that
it does not: after two short writes of an answer that is `m_write_buf` alone,
its loop calls `writev()` with nothing to send for ever, and the main thread
stays there (`loop = "write"`). `process()` is cut before each access to something
shared: `Process` (parse and build the answer), `Rearm` (modfd, from where on
the event loop can have the connection again), `Return` (to `run()`), `CloseConn`,
`LoadCount`, `StoreCount`, `ClearSocketfd`. `m_user_count--` is a load and a
store, as compilers may make it; in the main thread it is one step, because the
race already shows with the worker's half. `interest` is the epoll registration
("off" after a one-shot report); `inbox` is what the peer sent and nobody read.
`users[fd]` keeps what matters of `http_conn`: whether `m_socketfd` is set, the
request in the read buffer, the answer in the write buffer. The kernel and the
clients are the actions `Connect`, `SendPart`, `SendRequest`, `HangUp`,
`TimePasses`: a client sends one request, in one or two pieces, and waits.
`alarm` goes from "set" to "signalled" to "read" and is set again only by
`TimerHandler`; `term` goes the same way for SIGTERM, where "read" is `stop_server`,
and `Stop` leaves the loop. Both signals can be in the pipe at once, and
`HandleSignal` takes all that are there. The listening socket is level triggered
(one `accept()` per event) or edge triggered: then `Accept` repeats, at
`loop = "accept"`, and `edge` is the edge that epoll has not reported yet. An
edge is spent when it is reported, so clients that are still in the queue when
the accept loop ends at a refusal wait for the next client to connect
(`cutShort` remembers such an end). `TRIGMode` is `m_TRIGMode`, split by
`trig_mode()` into the two modes; the options can also give it another value,
which leaves both modes uninitialised and is not modelled. Two histories name the
descriptors that the defects of the code have met: `dropped`, which a worker
closed in `close_conn()`, and `outlived`, which `cb_func` closed while they were
in the pool. A descriptor in neither is `Intact`. It stays in them when it is used
again, because what goes wrong goes wrong for its next client.

`HttpConn`. The same calls as in `Server`, seen from inside one connection,
where they follow one another. A byte of the read buffer is CR, LF, NUL or a
piece of text (a method, an address, a header's name or value, a byte of the
body). `Line` is `parse_line()`; one iteration of the loop of `process_read()`
is one step: `ParseRequestLine`, `ParseHeader`, `ParseEmptyLine`,
`ParseContent`, and `Incomplete`, which leaves the loop. `Read(k)` is `read()`
when the network delivers the next `k` bytes; `ReadFails` is its `false`, which
in edge-triggered mode also comes from a buffer that is filled to the last byte,
because `recv()` is then called with no room and returns 0. A request is a
record: its bytes, and what the client means by them. `AsMeant` says how the
second follows from the first, without a word about buffers, cuts or states:
the head ends at the first empty line, the last `Content-length` in it counts,
the body is the rest. `MeaningAssumption` asks this of every member of
`Requests`; it leaves out clients that send less or more than the length they
give. `Number`, the lengths a header can give, goes from 0 to 4, and a negative
one, which `atol()` would read as well, is not modelled. `WritevPart(n)` and
`WritevAll(n)` are an iteration of the loop of `write()` in which the socket
takes `n` bytes; `Unsent` is what `m_iv` points to, by position in the answer,
`sent` what was sent so far. `do_request()` chooses the page by address, method
(`cgi`) and, for a form, by the map `users` (`Page`); the file behind the page
is of one of the five kinds it distinguishes. `Users` is what
`initmysql_result()` read. It never changes: `RegisterNew` calls `mysql_query()`
with a member `mysql` that is NULL since `init()`, which ends the program. A
form is a name and a password between "user=" and "&password=", which is what
the loops of `do_request()` skip (its comment says "&passwd="), or it has no
body. `pares_content()` sets `m_string` for a body only, and `init()` leaves it:
without a body it points to where an earlier one began, or nowhere yet
(`HasString`). What is read there can be anything, so `FoundIn` then allows every
outcome of the search, and `StringIsLost` the end of the program. Left out: forms
with other parts, names and passwords that do not fit their arrays, the return
from `write()` on EAGAIN (it changes nothing; `Server` has it), a request sent
before the last answer has arrived, addresses with a host, the NUL that
`pares_content()` writes behind the body.

`Log`. A critical section is one step; between two of them are the points
`count` (the line is counted, the file perhaps changed), `full` (the queue
tested), `push`, `fputs`, `flush`. `ReadTime` comes before the first, as in the
code, and reads the date in one step: that `localtime()` returns one static
struct, which another thread may overwrite before it is copied, is not modelled. A line is its thread, its number and the date it bears; `Output` is what
the files hold with what is still in the buffer of `m_fp`, each line with its
file and with who wrote it. `m_front` and `m_back` are kept as the code has
them, `Queued` is what they mean. `SpuriousWakeup` is the wait of `pop()`
returning without cause. `LineLog` is the promise, `ImplementsLineLog` says that
`Log` keeps it; a `push()` that finds the queue full between `full()` and itself
is its `GiveUp`.

`ConnectionPool`. The unlocked test, `reserve.wait()`, the critical section and
`reserve.post()` are the steps of a caller. The server has one caller, before
it sets the alarm; the module has several, because the class is written for
them, and no interrupted waits.

`TimeHeap`, `TimingWheel`. One step per call; nothing else uses the containers.
The heap keeps the whole array, with what lies behind `cur_size`, because the
destructor reads it. `lost` and `spoiled` mark the two defects: `percolate_down`
has `array[hole]==array[child]` for an assignment, so a timer that must sink
overwrites another one; with a capacity of 0 `add_timer()` writes behind the
array and counts the timer all the same; `tick()` of the wheel sets `temp->next->prev` to
`temp->next` itself. `time_heap::tick()` does nothing, because its loop runs
`while(!array)`.

`ProcessPool`. `Root` forks the children one by one; a signal is pending in the
kernel, then a byte in the pipe of the process (`SigHandler`), then read with
all others that are there (`ReadSignals`), then handled in order. SIGCHLDs that
are pending at the same time are one. `table` is `m_pid` of every entry in every
process: a child has a copy from its fork with 0 for itself. Since `m_idx` stays
-1, `run()` executes `run_parent()` in the children as well: they never accept,
nobody reads the pipes of the pool, and the loop that kills children calls
`kill(0, SIGTERM)` in them, which signals the whole group. A process that gets
SIGTERM before its handlers are installed dies of it, and deaths from before
Root's handlers are never noticed (`missed`).

## Runs

| run | instance | question | result |
|---|---|---|---|
| `pool` | 2 producers, 2 workers, queue of 2, 1 interrupt; 3 callers for 2 database connections; 2 child processes, 1 crash, 1 signal to one process or to all, 1 client | mutual exclusion, lost wake-ups, refinement of `TaskPool` with liveness; does a connection have one user? does Root know its children, does one SIGTERM stop all, is every death noticed? | holds |
| `timers` | list: 4 timers, lifetime 2; heap: 4 timers, 3 dates, capacities 0, 1, 4; wheel: 3 timers, 2 slots, timeouts up to 4 | each container is well formed until its defect strikes; the list refines `TimerSet`; the wheel fires on time | holds |
| `timer_list_lost` | 3 timers | is the list always well formed? | no: `lst_timer.h:96` drops timers |
| `server` | proactor, level triggered, 3 descriptors for 3 clients, one of whom gets answers in one block and one of whom never asks, 1 worker, queue of 1, SIGTERM at any time; fairness | does every request end? does SIGTERM stop the loop? | holds, but for the exceptions below |
| `server_reuse` | 2 descriptors used again for 3 clients, 3 timers, at most 2 users, 2 clients in the listen queue, both sockets edge triggered, missing files, hang-ups, requests that outlive their timer, both actor models | one owner, fresh events, timers match, count right; does the loop touch a deleted timer? is a client forgotten in the listen queue? | holds, but for the exceptions below; never; only after a refusal |
| `server_count` | 1 descriptor, missing file | is `m_user_count` the number of connections? | no |
| `server_reactor` | reactor | is every request ended in reactor mode? | no: the loop spins for ever |
| `http` | buffer of 20, twelve requests, one registered user, five kinds of files, both trigger modes, any cut, any short writes | is the request parsed as meant, answered with the page it means, the answer sent whole, every request ended? | holds, but for the exceptions below |
| `http_body` | the same | is a request that was read completely recognised as complete? | no: `http_conn.cpp:397` |
| `http_register` | the same | does registering a new name leave the program alive? | no: `http_conn.cpp:464` |
| `log` | 2 callers with 2 lines each, queue of 2, a midnight, a new file every 2 lines, with and without the writer thread | order, days, what is on disk; refinement of `LineLog` with liveness | holds, but for the exceptions below |
| `log_day` | the same | is every line in the file of its day or a later one? | no: `log.cpp:96` goes back to yesterday's file |

Why the bounds are enough. Two producers and two workers give every pair of
conflicting statements; a queue of two is empty, partly filled and full. Three
callers for two connections have one that finds the list empty and one that
waits. Three timers are the fewest that `adjust_timer` breaks; four give a lost
timer in the middle and at the end. A heap of three has a last timer that must
sink; capacity 1 grows twice, capacity 0 never. Two slots and timeouts up to
four give rotations of 0, 1 and 2, and three timers a first, a middle and a last
one in a slot. Three connections are the fewest with which the event loop can
lose a timer, hence the three descriptors of `server`; with a queue of one a
request is refused, and a client who never asks keeps the list at three. Two
descriptors and three clients in `server_reuse` give a batch with several events,
a connection that is closed while the other is in the pool, a descriptor that
is closed and given to somebody else, and a third client who finds the server
full; three timers are a live one and two that closed connections left. One
worker is enough in `Server`, as two workers meet only in the pool, which is
`ThreadPool`'s subject, and at one connection, which `OneOwner` excludes. Four lines
through a queue of two fill it and go round it; one midnight suffices, because a caller compares its day with the last one only.
Two children can die together, so that their SIGCHLDs merge; the signal reaches
any process in any phase, from before the first handler on.

The requests of `http` take each branch of the two state machines and of the
choice of the page: keep-alive, a page with the address of a form, a form with
the right and with a wrong password, a name that exists and a new one, a form
without a body, a body with line ends in it, an unknown method, a line that ends in
LF alone, a header with a CR in it, and one that exceeds the buffer. They are cut
at every place, inside CR LF too, and a kept connection sends any of them after any
other. An answer of 4 + 3 positions can be cut twice inside the head, at its end and twice inside the file; an error
of 4 + 2 is one block.

Some properties have exceptions, which are behaviour of the code that they would
otherwise contradict. `RecognisedUnlessBodyCut` and `RequestsEnd` except a read
that ended inside the body (finding 4). `AnswerIsWhole` and `RequestsEnd` except
an answer with two short writes inside `m_write_buf`: `http_conn.cpp:593`
subtracts all that was sent so far, not what the last call took, so `m_iv[0]`
loses bytes; if the answer is one block, `writev()` then has nothing left to
send and the loop of `write()` does not end. For the same reason
`RequestsAreAnswered` and `SIGTERMStops` except an event loop that is in such a
`write()`. `RequestsAreAnswered` also excepts a connection whose timer is not in
the list any more (finding 1): if the queue refused its request, nothing ends it.
`PageIsMeant` admits that a form with a new name ends the program (finding 6), and
that a form without a body gets any page or ends it. `OneOwner`, `EventsAreFresh`
and `TimersMatchConnections` except the descriptors in `dropped` or `outlived`
(finding 2 and a timer that runs out under a worker), `CountMatchesUntilDropped`
says nothing after the first `close_conn()` in a worker, and what they say of timers
ends with `fault`. `WellFormedUntilLoss`, `HeapUntilLost` and
`ListsUntilSpoiled` end where the defects above strike. `OwnOrder` lets a line
overtake that its caller writes itself because the queue is full;
`NotInYesterdaysFile` excepts finding 5. `NobodyForgotten` excepts an accept
loop that ended at a refusal or for want of a descriptor. `DeathsAreNoticed`
excepts deaths from before Root's handlers.

Bounds by name: `MaxInterrupts`, `Timers`, `MaxBacklog` (clients in the listen
queue), `MaxConnects` (clients at all), `Kinds` (what the client of a descriptor
asks for), `Slow` (descriptors whose clients send in two pieces), `Leaving`
(descriptors whose clients hang up), `Terminates` (whether a SIGTERM is sent),
`MaxExpire`, `MaxTimeout`, `MaxLines`, `MaxDay`, `MaxStops`, `MaxCrashes`,
`MaxConnections`. A client connects only while a timer is free for it.
`CHECK_DEADLOCK FALSE` stands where the system may end or come to rest: after a
lost or deleted timer, a SIGTERM, the registration of a new name, the last line of
the callers. In `MCThreadPool` the processes may rest.

Fairness. The threads run (weak fairness for the event loop and each worker);
time goes on (weak fairness of `TimePasses`); a socket that is reported writable is
not always full, hence strong fairness for the writes of a connection that finish.
In `ThreadPool` weak fairness is not enough
for the mutex: a worker can find it taken again and again by producers, so
`RunLock` has strong fairness, the assumption that the mutex does not starve a
waiter. In `HttpConn` it is weak fairness of `Work`: the server goes on reading,
parsing and writing as long as it can; clients owe nothing. Producers need not
call `append`, but leave it once they entered. In `Log` the callers finish a
macro they began and the writer thread runs; spurious wake-ups are possible and
not counted on. In `ProcessPool` every process runs, signal handlers included, and
the kernel delivers every signal.

## Findings

1. `lst_timer.h:96`: adjusting the first timer of three or more drops all but
   the second one from the list. Their connections never time out.
2. `http_conn.cpp:101`: `close_conn()` in a worker races on `m_user_count` and
   leaves the timer, which later counts the user off again (and closes whatever
   has the descriptor by then).
3. `WXP_websever.cpp:280`: in reactor mode the loop waits for `improv`, which
   nothing sets.
4. `http_conn.cpp:397`: a body that arrives in two pieces is never recognised as
   complete, because `parse_line()` has moved `m_checked_idx` through its first
   piece. The connection waits until its timer runs out.
5. `log.cpp:96`: a caller that read the time before midnight, and gets the mutex
   after another one opened the file of the new day, opens yesterday's again;
   lines of the new day go there until somebody changes the file back.
6. `http_conn.cpp:464`: registering a name that nobody has calls `mysql_query()`
   with the member `mysql`, which is NULL since `init()`. The program ends; what
   `src/README.md:6` lists as a function of the server does not work.

The containers the server does not use break as well, which their runs state as the
limits of what they check. `time_heap.h:148` says of `percolate_down()` that it
ensures "堆数组中的第hole个节点作为根的子树拥有最小堆性质" (the tree below hole is a
heap): it does so only as long as no timer has to move (`HeapUntilLost`). `tick()` of
the wheel spoils a link (`ListsUntilSpoiled`).

What the models show without a statement of the repository to set against it: a
client can wait in the listen queue of an edge-triggered socket
(`NobodyForgotten`); two short writes of an answer in one block hang the event loop
(`WriteHangs`); a form without a body is judged by memory that has nothing to do
with it (`PageIsMeant`); the children of the process pool never serve a client.

## Proofs

`ThreadPoolProofs` proves, for every number of producers, workers and requests
and every capacity (assumption `PoolAssumption`): `TypeOK`, `QueueGuarded`,
`NoLostWakeup`, `EmptyOnlyAfterInterrupt`, and that every step of the pool is a
step of `TaskPool` or a stutter. The argument: mutual exclusion and the program
counters are inductive by themselves ("shape"). `NoLostWakeup` counts semaphore
units, awake workers and announcing producers, and is inductive together with
the shape: a pop uses up a worker that is awake, a push is done by a producer
that will post. For `EmptyOnlyAfterInterrupt` the opposite bound is needed,
`WakeupsAccountedFor`: there are never more wake-ups than queued requests and
interrupted waits. `Inv` is the conjunction; TLC checked it before the proof.

`ConnectionPoolProofs`, for any number of callers and connections
(`ConnectionAssumption`): no connection has two users, none is lost or in
`connList` while somebody has it, and whoever has a unit of `reserve` finds a
connection. The invariant adds that `connList` has no connection twice and that
only a caller between its two calls has one.

`ProcessPoolProofs`, for any number of children, crashes and signals
(`PoolAssumption`): `TypeOK`, `RootKnowsItsChildren`, `NoOrphans`. Inductive with
them: Root runs its loop only after every child was forked and stops only there
(`RootIsReady`), what can be waited for is dead (`ZombiesAreDead`), and as soon
as `m_stop` of Root is set every child has been told (`StopIsPassedOn`).

`ThreadPoolProofs` carries the results of these two modules over to the instances in
`MCThreadPool` that the run checks (`EachHasOneUser`, `ProcessesTypeOK`,
`RootKnowsItsChildren`, `NoOrphans`): every step of `MCSpec` is a step of the
instance or leaves it alone, and two instances of one module are the same formulas.

`LogProofs`, for any number of callers, lines and days and any size of the queue
(`LogAssumption`, `NoneAssumption`): `TypeOK`, `OwnOrder`,
`DirectLinesAreOnDisk`, `NotInYesterdaysFile`, and that every step of `Log` is a
step of `LineLog` or a stutter. The refinement needs the arithmetic of the ring
buffer: `Queued`, read from `m_front` and `m_size` modulo the size, gains its
last element in `push()` and loses its first in `pop()`. `OwnOrder` is inductive
with two facts: a line of a caller that is still to be written has a larger
number than all it has logged before (`AllCounted`), and the queue is in the same
order behind what the writer thread wrote (`InTurn`).

`HttpConnProofs`, for any requests, users and files, any size of the buffer and
any lengths (`HttpAssumption`, `MeaningAssumption`): `TypeOK`, whose core is that `m_start_line`,
`m_checked_idx` and `m_read_idx` stay in this order and inside the buffer
wherever `parse_line()` stops, and `AnswerIsWhole`. For the latter the invariant
`Sends` names the three forms `m_iv` can have (not cut, cut once in
`m_write_buf`, cut in the file) and says that `sent` is a first part of the
answer. A second cut inside `m_write_buf` leaves these forms: the exception in
the property is where the invariant ends.

The same module proves `ParsedAsMeant`, `RecognisedUnlessBodyCut` and
`PageIsMeant` for every set of requests that `MeaningAssumption` allows, forms
without a body among them. It first
has lemmas on the lines of a text alone: a line has one end (`LineIsUnique`),
none starts inside another (`NoStartInside`), what the headers say grows line by
line (`NextSays`), the head ends in one place (`HeadIsUnique`). `LineFinds` says
that `parse_line()`, at the start of a line, finds its end if and only if it was
read, although the buffer behind it holds the NULs of earlier lines. The
invariant `Understood` has three parts. `Parsing`: buffer and wire hold the text
between them, `m_start_line` stands at a line of it, and the members hold what
the first line and the headers in front of it say (`InHead`); or the head is
over and `m_checked_idx` is where the body begins or beyond (`InBody`). `Cuts`:
unless a read ended inside the body, it is on the wire whole or not at all, and
`process_read()` waits only while something is on the wire. `Answered`: the
result is what the client means. In the body the invariant needs both cases:
once `parse_line()` was called there, `m_checked_idx` has moved and the body
never counts as complete, which is finding 4 and also why a body with line ends
in it is never taken for a shorter one. That a kept connection starts afresh is
the step of `Send`: it finds a parser that knows nothing (`SendIsUnderstood`);
`m_string`, the one member that is left, decides nothing for a request with a body
or without a form.

`TimerListProofs`, for any number of timers and any lifetime (`ListAssumption`):
`WellFormedUntilLoss`, `TypeOK`, and that every step of the list is a step of
`TimerSet` or a stutter. The invariant `Inv` says that until a loss there is a
row `q` of the live timers, none twice, that `next` and `prev` lead along
(`Linked`) and in which the remaining times ascend. The loops of `add_timer()` and
`tick()` follow a recursive function; on a row that function is the row itself
(`ChainIs`), so each operation becomes one on rows: a timer is put at the end
(`With`), one is taken out (`Without`), the first ones go (`Dropped`). In
`adjust_timer()` the branch for the head is the only one that leaves timers
behind, and only if there are three or more. For what happens after a loss there
is a second invariant, `Sound`: pointers lead to live timers, `prev` undoes `next`
for every live timer, and a rank that falls along `prev` excludes circles. It
gives `TypeOK` without any condition and, by counting, `LoopsEnd`: from the head,
`next` comes to NULL within as many steps as there are timers, so `tick()` does
not hang even on a list that lost timers.

`ContainerProofs`, for any number of timers, any capacities and dates
(`MCAssumption`): `HeapTypeOK` and `HeapUntilLost`. The loops of
`percolate_down()`, `add_timer()` and of the constructor are recursive functions
over holes; each is first shown to have values everywhere (`EndsExist` and its
like: a hole looks only at holes behind it, or only at its parent). `add_timer()`
is followed round by round: with the free place at `h`, the timers of before
except that of `h` and the new one are all there (`Placed`), in order, and what
was moved to `h` is not later than what was there (`Sorted`). A
`percolate_down()` that changes nothing proves the order at its hole
(`NotMoved`), which is how `pop_timer()` and the constructor keep a heap as long
as nothing is lost. The inductive invariant `HeapInv` is the property with
"each once" stated for slots instead of numbers; `HasLength` makes `capacity` a
number.

The same module proves `WheelTypeOK`, `ListsUntilSpoiled` and `FiresOnTime`, for
any number of timers and slots and any timeouts. The inductive invariant
`WheelInv` adds two things to the property. A rank that falls along `prev`
(`Ranked`) excludes circles, so that every timer is reached from its slot
(`HeadIsFirst`, `NextRanksNext`). And `DueIs` says that a timer fires in as many
ticks as the ring takes to its slot (`Distance`), plus `Slots` for each rotation:
`Place()` establishes it, and a tick lowers both sides by one, with the rotation
of a timer in the current slot or with the distance of any other. `tick()` is
followed pass by pass (`Ticking`): the timers of the slot behind the loop have
been treated, those ahead of it are untouched and one less with every pass, so
the loop is at the end of the list after as many passes as there are timers, well
within the number the model gives it. The destructor is the same walk without
changes (`Walking`).

`ServerProofs`, for any number of descriptors, timers, workers and waiting
clients (`ServerAssumption` and those of the instantiated modules).
`NobodyForgotten`, `TimersInUseExist`, `EventsAreFresh`, `OneOwner`,
`TimersMatchConnections` and `CountMatchesUntilDropped` hold of the server as it is, whatever files are missing and however long
a request stays in the pool; the exceptions are in the properties.
`NobodyForgotten` follows `edge` and the accept loop. `TimersInUseExist`
(`TimersInv`) holds because only the event loop deletes timers, an event is removed
from the batch with the timer of its connection, and epoll's set is exactly the set
of open descriptors. On it rests `OwnerInv`, which follows a descriptor round its
cycle. While it is in the pool and `Intact`, it is there once (`HeldOnce`), its
epoll registration is off and no event of it is left in the batch; while it has an
event in the batch, its registration is off as well (`EventsAreFresh`); timers
belong to open connections that point back to them, unless a worker closed the
descriptor (`TimersOwned`). The histories are what makes it inductive without
conditions: a missing file puts the descriptor into `dropped` in the step in which a
worker closes it, and a timer that runs out puts it into `outlived` if it is in the
pool then; every other way to close a descriptor is the event loop's, with an event
that was reported for it. For `CountMatchesUntilDropped` an accept adds a
descriptor to the open ones and a call of `cb_func` takes one out, because its timer
is its own. `TimersInUseExist` and `TimersMatchConnections` say nothing once
`fault` is set: the timer list has ended the program by following a bad pointer.
When that can happen follows from `TimerListProofs`, whose lemmas `ServerProofs`
uses through an instance: every step of the server is a step of the list or
leaves it alone (`StepsOfTheList`), which gives the whole of `TypeOK` and
`ConnectionsStayListed`: until `adjust_timer()` loses a timer there is no fault,
and every connection in use has its timer in the list, where `tick()` finds it.
That is why the exception for lost timers in `RequestsAreAnswered` is finding 1 and
nothing else.

Every inductive invariant was first checked by TLC as an invariant of a run.

Only model-checked is everything with fairness (the liveness parts of
`ImplementsTaskPool`, `ImplementsLineLog` and `ImplementsTimerSet`,
`RequestsAreAnswered`, `SIGTERMStops`, `RequestsEnd`, `OneStopsAll`,
`DeathsAreNoticed`), because TLAPS does not prove ENABLED or fairness.

## Not modelled

- Start and options: sequential, before the event loop; the modes they select
  are constants.
- What the destructors do to threads that still run when the program ends. The
  destructor of `WXP_websever` deletes `users` while detached workers may be in
  `process()`; all that can follow is the end of the program, which is coming
  anyway. The same holds for `~Log()` and `DestroyPool()`, which unlocks a mutex
  twice if connections are left.
- Forms whose body has other parts than a name and a password, a `Content-length`
  that is negative or not the length of the body, and what the lines behind
  `mysql_query()` would do if it returned.
- `localtime()` as two steps (see `Log`).
- Clients that do not wait for their answer: `init()` after a kept answer clears
  the read buffer, so what they sent early may be dropped.
- Functions nobody calls: `clear`, `front`, `back` and the timed `pop` of the
  queue of the log, `GetFreeConn`, `run_child` and `cgi_conn` of the process
  pool (unreachable, see above).
- Failing system calls (`fopen`, `epoll_wait`, `mysql_*`), the wording of
  answers and log lines, memory that is mapped for files.
- The exercises in `ET_LT/`, `send_file/`, `timer/11_*` and `http_thread.cpp`:
  stand-alone programs that the makefile does not build.

## Plan

Every component that is modelled has its theorems, and every safety invariant of
the runs is one of them. What could be added: clients that send less or more than
their `Content-length`, or the next request before their answer, with
`MeaningAssumption` widened to them.
