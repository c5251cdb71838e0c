------------------------------ MODULE ProcessPool -----------------------------
(***************************************************************************)
(* processpool of process_thread_pool/processpool.h, as processpool_CGI.cpp *)
(* uses it: a process (Root) forks N children, and signals reach a process *)
(* through a socket pair of its own (unified event source).                *)
(*                                                                         *)
(* No statement sets m_idx after the constructor's -1, so run() chooses    *)
(* run_parent() in the children too: run_child() never runs, and nobody    *)
(* reads from the pipes of the pool or accepts.  A child's table is a copy *)
(* of Root's at the fork with its own entry 0, the value fork() returned,  *)
(* so kill(m_pid, SIGTERM) there signals the whole process group.          *)
(*                                                                         *)
(* An entry of the table for child i is "-1", "0", or "pid": the pid of i. *)
(* SIGINT is handled as SIGTERM is; "TERM" stands for both.                *)
(***************************************************************************)
EXTENDS Naturals, Sequences

CONSTANTS N,               \* process_number
          MaxStops,        \* bound: signals from outside
          MaxCrashes,      \* bound: children that die by themselves
          MaxConnections   \* bound: clients, at most what listen(listenfd, 5) holds

PoolAssumption == N \in Nat \ {0} /\ {MaxStops, MaxCrashes, MaxConnections} \subseteq Nat

Children == 0 .. N - 1
Root     == N
Procs    == 0 .. N

VARIABLES pc,          \* "unborn", "new": before setup_sig_pipe(),
                       \* "loop": in run_parent(), "dead"
          table,       \* m_pid of each entry of m_sub_process, per process
          stop,        \* m_stop
          loop,        \* what the event loop of a process works on, see Loop
          pending,     \* signals the kernel has for a process
          zombies,     \* children that are dead and not waited for
          connections, stops, crashes,
          missed       \* history: children that died before Root handled SIGCHLD

vars == <<pc, table, stop, loop, pending, zombies, connections, stops, crashes, missed>>

outside == <<connections, stops, crashes>>

Loop == [counter : Children,                         \* sub_process_conuter
         edge    : BOOLEAN,                          \* m_listenfd is due at m_epollfd
         sigpipe : Seq({"CHLD", "TERM"}),            \* bytes in sig_pipefd
         signals : Seq({"CHLD", "TERM"})]            \* those read and not yet handled

Idle == [counter |-> 0, edge |-> FALSE, sigpipe |-> <<>>, signals |-> <<>>]

Handles(p) == pc[p] = "loop"
Unborn     == {i \in Children : pc[i] = "unborn"}

(* At the test of the while loop, and with a signal to handle. *)
AtTest(p) == pc[p] = "loop" /\ loop[p].signals = <<>>
Signal(p) == IF pc[p] = "loop" /\ loop[p].signals # <<>> THEN Head(loop[p].signals) ELSE "none"

Init ==
    /\ pc = [p \in Procs |-> IF p = Root THEN "new" ELSE "unborn"]
    /\ table = [p \in Procs |-> [i \in Children |-> "-1"]]
    /\ stop = [p \in Procs |-> FALSE]
    /\ loop = [p \in Procs |-> Idle]
    /\ pending = [p \in Procs |-> {}]
    /\ zombies = {} /\ missed = {}
    /\ connections = 0 /\ stops = 0 /\ crashes = 0

(* The processes dying end while those of termed get SIGTERM, and the      *)
(* loops are at l.  A process without a handler dies of it.  Root gets     *)
(* SIGCHLD, which the kernel discards if Root has no handler; without Root *)
(* init waits for the children.                                            *)
Signalled(termed, dying, l) ==
    LET gone == dying \cup {p \in termed : pc[p] = "new"}
        lost == gone \cap Children
        new(p) == {s \in {"CHLD", "TERM"} :
                      \/ s = "TERM" /\ p \in termed
                      \/ s = "CHLD" /\ p = Root /\ lost # {}}
    IN  /\ pc' = [p \in Procs |-> IF p \in gone THEN "dead" ELSE pc[p]]
        /\ loop' = [p \in Procs |-> IF p \in gone THEN Idle ELSE l[p]]
        /\ pending' = [p \in Procs |-> IF p \in gone THEN {}
                                       ELSE IF Handles(p) THEN pending[p] \cup new(p)
                                       ELSE pending[p]]
        /\ zombies' = IF pc'[Root] = "dead" THEN {} ELSE zombies \cup lost
        /\ missed' = IF Handles(Root) THEN missed ELSE missed \cup lost

-------------------------------------------------------------------------------
(* The constructor forks the children one after the other. *)
Fork ==
    /\ pc[Root] = "new"
    /\ \E i \in Unborn :
          /\ \A j \in Unborn : i <= j
          /\ pc' = [pc EXCEPT ![i] = "new"]
          /\ table' = [table EXCEPT ![Root][i] = "pid", ![i] = [table[Root] EXCEPT ![i] = "0"]]
    /\ UNCHANGED <<stop, loop, pending, zombies, missed, outside>>

(* setup_sig_pipe() and the start of run_parent() *)
Setup(p) ==
    /\ pc[p] = "new"
    /\ p = Root => Unborn = {}
    /\ pc' = [pc EXCEPT ![p] = "loop"]
    /\ loop' = [loop EXCEPT ![p].edge = connections > 0]
    /\ UNCHANGED <<table, stop, pending, zombies, missed, outside>>

(* sig_handler(): the signal becomes a byte. *)
SigHandler(p, s) ==
    /\ Handles(p)
    /\ s \in pending[p]
    /\ pending' = [pending EXCEPT ![p] = @ \ {s}]
    /\ loop' = [loop EXCEPT ![p].sigpipe = Append(@, s)]
    /\ UNCHANGED <<pc, table, stop, zombies, missed, outside>>

(* The events of one epoll_wait() are handled like events that come alone: *)
(* once a batch has set m_stop, an event of m_listenfd behind it in the    *)
(* batch changes nothing that matters.                                     *)

Following_NoModulo(i) == i + 1

Following(i) == (i + 1) % N

(* A client: the next entry that is not -1 gets a message nobody reads.    *)
(* Without one m_stop is set (which HandleChild always does before).       *)
NewConnection(p) ==
    LET turn(k) == (loop[p].counter + k) % N
        found   == {k \in Children : table[p][turn(k)] # "-1"}
        first   == CHOOSE k \in found : \A l \in found : k <= l
    IN  /\ AtTest(p) /\ ~stop[p]
        /\ loop[p].edge
        /\ stop' = [stop EXCEPT ![p] = found = {}]
        /\ loop' = [loop EXCEPT ![p].edge = FALSE,
                                ![p].counter = IF found = {} THEN @ ELSE Following(turn(first))]
        /\ UNCHANGED <<pc, table, pending, zombies, missed, outside>>

(* recv(sig_pipefd[0], signals, 1024, 0) *)
ReadSignals(p) ==
    /\ AtTest(p) /\ ~stop[p]
    /\ loop[p].sigpipe # <<>>
    /\ loop' = [loop EXCEPT ![p].signals = loop[p].sigpipe, ![p].sigpipe = <<>>]
    /\ UNCHANGED <<pc, table, stop, pending, zombies, missed, outside>>

SignalDone(p) == [loop EXCEPT ![p].signals = Tail(@)]

Reaped_One == IF zombies = {} THEN {} ELSE {CHOOSE i \in zombies : TRUE}   \* if for while

(* while((pid=waitpid(-1,&stat,WNOHANG))>0) *)
Reaped == zombies

Cleared_Forgets(entry, reaped) == entry            \* m_pid keeps the pid

Cleared(entry, reaped) == [i \in Children |-> IF i \in reaped THEN "-1" ELSE entry[i]]

(* SIGCHLD, which only Root gets.  m_stop is computed anew. *)
HandleChild ==
    LET left == Cleared(table[Root], Reaped)
    IN  /\ Signal(Root) = "CHLD"
        /\ loop' = SignalDone(Root)
        /\ zombies' = zombies \ Reaped
        /\ table' = [table EXCEPT ![Root] = left]
        /\ stop' = [stop EXCEPT ![Root] = \A i \in Children : left[i] = "-1"]
        /\ UNCHANGED <<pc, pending, missed, outside>>

KillLoop_ButLast(p) == {i \in 0 .. N - 2 : table[p][i] = "pid"}

(* The processes the loop of kill(pid, SIGTERM) reaches. *)
KillLoop(p) == {i \in Children : table[p][i] = "pid"}
               \cup IF \E i \in Children : table[p][i] = "0" THEN Procs ELSE {}

(* SIGTERM or SIGINT *)
HandleStop(p) ==
    /\ Signal(p) = "TERM"
    /\ stop' = [stop EXCEPT ![p] = TRUE]
    /\ Signalled(KillLoop(p), {}, SignalDone(p))
    /\ UNCHANGED <<table, outside>>

(* The loop is left, and main() returns. *)
Exit(p) ==
    /\ AtTest(p) /\ stop[p]
    /\ Signalled({}, {p}, loop)
    /\ UNCHANGED <<table, stop, outside>>

-------------------------------------------------------------------------------
(* kill from a shell, or ^C for all processes at once *)
StopFromOutside ==
    /\ stops < MaxStops
    /\ stops' = stops + 1
    /\ \E target \in {{p} : p \in Procs} \cup {Procs} : Signalled(target, {}, loop)
    /\ UNCHANGED <<table, stop, connections, crashes>>

Crash(i) ==
    /\ crashes < MaxCrashes
    /\ crashes' = crashes + 1
    /\ pc[i] \notin {"unborn", "dead"}
    /\ Signalled({}, {i}, loop)
    /\ UNCHANGED <<table, stop, connections, stops>>

Connect ==
    /\ connections < MaxConnections
    /\ connections' = connections + 1
    /\ loop' = [p \in Procs |-> IF Handles(p) THEN [loop[p] EXCEPT !.edge = TRUE] ELSE loop[p]]
    /\ UNCHANGED <<pc, table, stop, pending, zombies, stops, crashes, missed>>

ProcessStep(p) ==
    \/ Setup(p) \/ NewConnection(p) \/ ReadSignals(p)
    \/ HandleStop(p) \/ Exit(p)
    \/ p = Root /\ (Fork \/ HandleChild)

ProcessRuns(p) == ProcessStep(p) \/ \E s \in {"CHLD", "TERM"} : SigHandler(p, s)

Next ==
    \/ \E p \in Procs : ProcessRuns(p)
    \/ \E i \in Children : Crash(i)
    \/ StopFromOutside
    \/ Connect

(* The kernel runs every process, its signal handlers included. *)
Fairness == \A p \in Procs : WF_vars(ProcessRuns(p))

Spec == Init /\ [][Next]_vars /\ Fairness

-------------------------------------------------------------------------------
(* Type invariant. *)
TypeOK ==
    /\ pc \in [Procs -> {"unborn", "new", "loop", "dead"}]
    /\ table \in [Procs -> [Children -> {"-1", "0", "pid"}]]
    /\ stop \in [Procs -> BOOLEAN]
    /\ loop \in [Procs -> Loop]
    /\ pending \in [Procs -> SUBSET {"CHLD", "TERM"}]
    /\ zombies \subseteq Children /\ missed \subseteq Children
    /\ {connections, stops, crashes} \subseteq Nat

(* Root's table names exactly the children it has not waited for, so Root  *)
(* never signals a process that got the pid of a child it has reaped.      *)
RootKnowsItsChildren ==
    pc[Root] # "dead" =>
        \A i \in Children :
            table[Root][i] = "pid" <=> pc[i] # "unborn" /\ (pc[i] = "dead" => i \in zombies)

(* A process that has been told to stop: it is dead or will see SIGTERM.   *)
Told(p) ==
    \/ pc[p] = "dead" \/ stop[p] \/ "TERM" \in pending[p]
    \/ \E k \in DOMAIN loop[p].sigpipe : loop[p].sigpipe[k] = "TERM"
    \/ \E k \in DOMAIN loop[p].signals : loop[p].signals[k] = "TERM"

(* When Root leaves its loop it leaves no child behind that was not told   *)
(* to stop (a Root that dies of a SIGTERM before its handlers may).        *)
NoOrphans == pc[Root] = "dead" /\ stop[Root] => \A i \in Children : Told(i)

(* One process that handles SIGTERM is enough: all end, although a SIGCHLD *)
(* handled after the SIGTERM sets m_stop of Root back to false.            *)
OneStopsAll == (\E p \in Procs : stop[p]) ~> (\A p \in Procs : pc[p] \in {"dead", "unborn"})

(* Root catches up with the deaths of its children since it has its         *)
(* handlers, although signals of several children may be merged into one.   *)
Unnoticed(i) == pc[i] = "dead" /\ i \notin missed /\ table[Root][i] # "-1" /\ pc[Root] # "dead"

DeathsAreNoticed == []<>(\A i \in Children : ~Unnoticed(i))
===============================================================================
