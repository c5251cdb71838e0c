----------------------------- MODULE MCThreadPool -----------------------------
(***************************************************************************)
(* TLC instances of the three pools: a behaviour is one of threadpool, of  *)
(* connection_pool or of processpool, and the others rest.                 *)
(***************************************************************************)
EXTENDS ThreadPool

CONSTANTS p1, p2, w1, w2, r1, r2, c1, c2, Callers, Connections, NoConnection,
          N, MaxStops, MaxCrashes, MaxConnections

VARIABLES subject,
          connList, FreeConn, CurConn, reserve, at, con,
          proc, table, stop, loop, pending, zombies, connections, stops, crashes, missed

Conn == INSTANCE ConnectionPool
Processes == INSTANCE ProcessPool WITH pc <- proc

ASSUME MCAssumption == Conn!ConnectionAssumption /\ Processes!PoolAssumption

connVars == <<connList, FreeConn, CurConn, reserve, at, con>>
procVars == <<proc, table, stop, loop, pending, zombies, connections, stops, crashes, missed>>
allVars  == <<vars, connVars, procVars, subject>>

MCProducers == {p1, p2}
MCWorkers   == {w1, w2}
MCRequests  == {r1, r2}

MCCallers     == {p1, p2, w1}
MCConnections == {c1, c2}

ProcessesRest ==
    /\ proc = [p \in Processes!Procs |-> "dead"]
    /\ table = [p \in Processes!Procs |-> [i \in Processes!Children |-> "-1"]]
    /\ stop = [p \in Processes!Procs |-> FALSE]
    /\ loop = [p \in Processes!Procs |-> Processes!Idle]
    /\ pending = [p \in Processes!Procs |-> {}]
    /\ zombies = {} /\ missed = {}
    /\ connections = 0 /\ stops = 0 /\ crashes = 0

MCInit ==
    /\ subject \in {"threads", "connections", "processes"}
    /\ Init /\ Conn!Init /\ (subject # "connections" => connList = <<c1, c2>>)
    /\ IF subject = "processes" THEN Processes!Init ELSE ProcessesRest

(* Of the three only the processes may come to an end: they die, or wait   *)
(* for signals and clients that do not come.                               *)
MCNext ==
    /\ UNCHANGED subject
    /\ \/ subject = "threads"     /\ Next           /\ UNCHANGED <<connVars, procVars>>
       \/ subject = "connections" /\ Conn!Next      /\ UNCHANGED <<vars, procVars>>
       \/ subject = "processes"   /\ Processes!Next /\ UNCHANGED <<vars, connVars>>
       \/ subject = "processes"   /\ UNCHANGED <<vars, connVars, procVars>>

(* Threads and processes that rest have nothing to do.                     *)
MCSpec == MCInit /\ [][MCNext]_allVars /\ Fairness /\ Processes!Fairness

-------------------------------------------------------------------------------
(* connection_pool gives every connection to one caller at a time. *)
EachHasOneUser == Conn!EachHasOneUser

(* The type invariant of processpool (TypeOK is that of threadpool). *)
ProcessesTypeOK == Processes!TypeOK

(* The table of Root names the children that it has not waited for. *)
RootKnowsItsChildren == Processes!RootKnowsItsChildren

(* Root leaves no child behind that was not told to stop. *)
NoOrphans == Processes!NoOrphans

(* One SIGTERM that is handled ends all processes. *)
OneStopsAll == Processes!OneStopsAll

(* Root notices the death of every child, merged signals or not. *)
DeathsAreNoticed == Processes!DeathsAreNoticed
===============================================================================
