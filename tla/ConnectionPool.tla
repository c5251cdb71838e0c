---------------------------- MODULE ConnectionPool ----------------------------
(***************************************************************************)
(* connection_pool of conn_mysql/sql_connection_pool.cpp as connectionRAII *)
(* uses it: the constructor takes a connection, the destructor gives it    *)
(* back.  GetConnection() looks at connList without the lock, waits for a  *)
(* unit of reserve and takes the connection under the lock, and            *)
(* ReleaseConnection() puts it back and posts reserve afterwards; each of  *)
(* these is a step.  What happens under the lock is one step, since only   *)
(* the unlocked look at connList could see the inside of it, and that sees *)
(* the list as it was before or after.                                     *)
(*                                                                         *)
(* The server uses the class once, before it sets the alarm: no signal     *)
(* interrupts reserve.wait().                                              *)
(***************************************************************************)
EXTENDS Naturals, Sequences, FiniteSets

CONSTANTS Callers,      \* threads that construct a connectionRAII
          Connections,  \* what mysql_real_connect() returned
          NoConnection  \* NULL

ConnectionAssumption ==
    /\ IsFiniteSet(Callers) /\ IsFiniteSet(Connections)
    /\ NoConnection \notin Connections

VARIABLES connList,
          FreeConn, CurConn,
          reserve,   \* value of the semaphore
          at,        \* per caller: before or inside which call it stands
          con        \* per caller: conRAII

vars == <<connList, FreeConn, CurConn, reserve, at, con>>

(* init(): a list of all connections, a semaphore that counts them. *)
Init ==
    /\ connList \in {s \in [1 .. Cardinality(Connections) -> Connections] :
                        \A i, j \in DOMAIN s : i # j => s[i] # s[j]}
    /\ FreeConn = Len(connList) /\ CurConn = 0
    /\ reserve = FreeConn
    /\ at = [c \in Callers |-> "out"]
    /\ con = [c \in Callers |-> NoConnection]

(* GetConnection(): if (0 == connList.size()) return NULL *)
TestEmpty(c) ==
    /\ at[c] = "out"
    /\ at' = [at EXCEPT ![c] = IF connList = <<>> THEN "in use" ELSE "wait"]
    /\ UNCHANGED <<connList, FreeConn, CurConn, reserve, con>>

(* reserve.wait() *)
Wait(c) ==
    /\ at[c] = "wait" /\ reserve > 0
    /\ reserve' = reserve - 1
    /\ at' = [at EXCEPT ![c] = "take"]
    /\ UNCHANGED <<connList, FreeConn, CurConn, con>>

(* The first connection of the list.  front() of an empty list is           *)
(* undefined (no connection, here); EachHasOneUser says it does not happen. *)
TakeFront(c) ==
    /\ at[c] = "take"
    /\ con' = [con EXCEPT ![c] = IF connList = <<>> THEN NoConnection ELSE Head(connList)]
    /\ connList' = IF connList = <<>> THEN <<>> ELSE Tail(connList)
    /\ FreeConn' = FreeConn - 1 /\ CurConn' = CurConn + 1
    /\ at' = [at EXCEPT ![c] = "in use"]
    /\ UNCHANGED reserve

Release_PostsToo(c) ==          \* a plausible bug: posts here and in Post
    /\ at[c] = "in use" /\ con[c] # NoConnection
    /\ connList' = Append(connList, con[c])
    /\ con' = [con EXCEPT ![c] = NoConnection]
    /\ FreeConn' = FreeConn + 1 /\ CurConn' = CurConn - 1
    /\ reserve' = reserve + 1
    /\ at' = [at EXCEPT ![c] = "post"]

(* ReleaseConnection() under the lock *)
Release(c) ==
    /\ at[c] = "in use" /\ con[c] # NoConnection
    /\ connList' = Append(connList, con[c])
    /\ con' = [con EXCEPT ![c] = NoConnection]
    /\ FreeConn' = FreeConn + 1 /\ CurConn' = CurConn - 1
    /\ at' = [at EXCEPT ![c] = "post"]
    /\ UNCHANGED reserve

(* ... which does nothing for NULL *)
ReleaseNull(c) ==
    /\ at[c] = "in use" /\ con[c] = NoConnection
    /\ at' = [at EXCEPT ![c] = "out"]
    /\ UNCHANGED <<connList, FreeConn, CurConn, reserve, con>>

(* reserve.post() *)
Post(c) ==
    /\ at[c] = "post"
    /\ reserve' = reserve + 1
    /\ at' = [at EXCEPT ![c] = "out"]
    /\ UNCHANGED <<connList, FreeConn, CurConn, con>>

Next == \E c \in Callers :
            TestEmpty(c) \/ Wait(c) \/ TakeFront(c) \/ Release(c) \/ ReleaseNull(c) \/ Post(c)

Spec == Init /\ [][Next]_vars

-------------------------------------------------------------------------------
InList == {connList[i] : i \in DOMAIN connList}
At(where) == {c \in Callers : at[c] = where}

(* Whatever the callers' order, every connection is in the list once or    *)
(* with one caller, none is lost, the two counters say how many are where, *)
(* and a caller that has its unit of reserve finds a connection: the units *)
(* in the semaphore, with callers that took theirs and callers about to    *)
(* post one, are as many as the list is long.                              *)
EachHasOneUser ==
    /\ Cardinality(InList) = Len(connList)
    /\ \A c \in Callers : con[c] \notin InList
    /\ \A c, d \in Callers : con[c] = con[d] /\ c # d => con[c] = NoConnection
    /\ InList \cup {con[c] : c \in Callers} \cup {NoConnection}
          = Connections \cup {NoConnection}
    /\ FreeConn = Len(connList)
    /\ CurConn = Cardinality({c \in Callers : con[c] # NoConnection})
    /\ reserve + Cardinality(At("take")) + Cardinality(At("post")) = Len(connList)
===============================================================================
