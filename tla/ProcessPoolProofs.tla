--------------------------- MODULE ProcessPoolProofs --------------------------
(***************************************************************************)
(* Theorems about ProcessPool, for every number of children and any number *)
(* of signals, crashes and clients.                                        *)
(***************************************************************************)
EXTENDS ProcessPool, SequenceTheorems, WellFoundedInduction, TLAPS

(* The next entry of the table is one of the table.                        *)
LEMMA TurnIsAnEntry ==
  ASSUME PoolAssumption, NEW k \in Nat
  PROVE  k % N \in Children
  BY DEF PoolAssumption, Children

(* Counting on from any entry, the table comes round to every entry.       *)
LEMMA EveryEntryHasItsTurn ==
  ASSUME PoolAssumption, NEW c \in Children, NEW i \in Children
  PROVE  \E k \in Children : (c + k) % N = i
<1>1. c \in 0 .. N - 1 /\ i \in 0 .. N - 1 /\ N \in Nat \ {0}
  BY DEF PoolAssumption, Children
<1>2. CASE c <= i
  <2>1. i - c \in 0 .. N - 1 /\ c + (i - c) = i
    BY <1>1, <1>2
  <2>2. i % N = i
    BY <1>1
  <2>3. QED
    BY <2>1, <2>2 DEF Children
<1>3. CASE i < c
  <2>1. i - c + N \in 0 .. N - 1 /\ c + (i - c + N) = i + N
    BY <1>1, <1>3
  <2>2. (i + N) % N = i
    BY <1>1
  <2>3. QED
    BY <2>1, <2>2 DEF Children
<1>4. QED
  BY <1>1, <1>2, <1>3

(* The loop that looks for the next entry stops at one it looked for.      *)
LEMMA SomeIsFirst ==
  ASSUME PoolAssumption, NEW found \in SUBSET Children, found # {}
  PROVE  (CHOOSE k \in found : \A l \in found : k <= l) \in found
<1> DEFINE less == OpToRel(<, Nat)
<1>1. found \subseteq Nat
  BY DEF PoolAssumption, Children
<1>2. IsWellFoundedOn(less, Nat)
  BY NatLessThanWellFounded
<1>3. \E k \in found : \A l \in found : <<l, k>> \notin less
  BY <1>1, <1>2, WFMin
<1>4. \A k, l \in Nat : <<l, k>> \notin less => k <= l
  <2>1. \A k, l \in Nat : l < k => <<l, k>> \in less
    BY DEF OpToRel
  <2>2. \A k, l \in Nat : l < k \/ k <= l
    OBVIOUS
  <2>3. QED
    BY <2>1, <2>2, Zenon
<1> HIDE DEF less
<1>5. \E k \in found : \A l \in found : k <= l
  BY <1>1, <1>3, <1>4
<1>6. QED
  BY <1>5

(* What a signal to the processes termed and the end of those dying do to  *)
(* one process and to what Root has to wait for.                           *)
LEMMA SignalledEffect ==
  ASSUME TypeOK, NEW termed, NEW dying, NEW l \in [Procs -> Loop],
         Signalled(termed, dying, l), NEW p \in Procs
  PROVE  /\ pc'[p] = "dead" <=> pc[p] = "dead" \/ p \in dying \/ (p \in termed /\ pc[p] = "new")
         /\ pc'[p] # "dead" =>
               /\ pc'[p] = pc[p] /\ loop'[p] = l[p]
               /\ pending[p] \subseteq pending'[p]
               /\ p \in termed /\ Handles(p) => "TERM" \in pending'[p]
  BY DEF Signalled, TypeOK, Handles

(* ... and that it keeps the types. *)
LEMMA SignalledTypes ==
  ASSUME PoolAssumption, TypeOK, NEW termed, NEW dying, NEW l \in [Procs -> Loop],
         Signalled(termed, dying, l)
  PROVE  /\ pc' \in [Procs -> {"unborn", "new", "loop", "dead"}]
         /\ loop' \in [Procs -> Loop]
         /\ pending' \in [Procs -> SUBSET {"CHLD", "TERM"}]
         /\ zombies' \subseteq Children /\ missed' \subseteq Children
<1>1. Idle \in Loop
  BY DEF PoolAssumption, Idle, Loop, Children
<1>2. pc' \in [Procs -> {"unborn", "new", "loop", "dead"}]
  BY DEF Signalled, TypeOK
<1>3. loop' \in [Procs -> Loop]
  BY <1>1 DEF Signalled, TypeOK
<1>4. pending' \in [Procs -> SUBSET {"CHLD", "TERM"}]
  BY DEF Signalled, TypeOK
<1>5. zombies' \subseteq Children /\ missed' \subseteq Children
  BY DEF Signalled, TypeOK
<1>6. QED
  BY <1>2, <1>3, <1>4, <1>5
-------------------------------------------------------------------------------
(* Types *)

(* Types in the first state, before the first fork(). *)
LEMMA TypesInit == PoolAssumption /\ Init => TypeOK
<1> SUFFICES ASSUME PoolAssumption, Init PROVE TypeOK
  OBVIOUS
<1>1. Idle \in Loop
  BY DEF PoolAssumption, Idle, Loop, Children
<1>2. QED
  BY <1>1 DEF Init, TypeOK

Signals == {"CHLD", "TERM"}

(* The members of the event loop of a process, one replaced by another.    *)
LEMMA LoopMembers ==
  ASSUME NEW r \in Loop
  PROVE  /\ r.counter \in Children /\ r.edge \in BOOLEAN
         /\ r.sigpipe \in Seq(Signals) /\ r.signals \in Seq(Signals)
         /\ \A c \in Children, e \in BOOLEAN : [r EXCEPT !.edge = e, !.counter = c] \in Loop
         /\ \A e \in BOOLEAN : [r EXCEPT !.edge = e] \in Loop
         /\ \A s \in Seq(Signals) : [r EXCEPT !.sigpipe = s] \in Loop
         /\ \A s \in Seq(Signals) : [r EXCEPT !.signals = s] \in Loop
  BY DEF Loop, Signals

(* A step that replaces the event loop of one process keeps the types. *)
LEMMA LoopReplaced ==
  ASSUME TypeOK, NEW p \in Procs, NEW r \in Loop, loop' = [loop EXCEPT ![p] = r]
  PROVE  loop' \in [Procs -> Loop]
  BY DEF TypeOK

(* The signal at hand is done. *)
LEMMA SignalDoneTypes ==
  ASSUME TypeOK, NEW p \in Procs, Signal(p) # "none"
  PROVE  /\ pc[p] = "loop" /\ loop[p].signals # <<>>
         /\ loop[p].signals \in Seq(Signals) /\ Tail(loop[p].signals) \in Seq(Signals)
         /\ SignalDone(p) = [loop EXCEPT ![p] = [loop[p] EXCEPT !.signals = Tail(loop[p].signals)]]
         /\ SignalDone(p) \in [Procs -> Loop]
<1>1. pc[p] = "loop" /\ loop[p].signals # <<>>
  BY DEF Signal
<1>2. loop[p] \in Loop
  BY DEF TypeOK
<1>3. loop[p].signals \in Seq(Signals) /\ Tail(loop[p].signals) \in Seq(Signals)
  BY <1>1, <1>2, LoopMembers, HeadTailProperties
<1>4. [loop[p] EXCEPT !.signals = Tail(loop[p].signals)] \in Loop
  BY <1>2, <1>3, LoopMembers
<1>5. SignalDone(p) = [loop EXCEPT ![p] = [loop[p] EXCEPT !.signals = Tail(loop[p].signals)]]
  BY DEF SignalDone
<1>6. QED
  BY <1>1, <1>3, <1>4, <1>5 DEF TypeOK

(* A step of one process. *)
LEMMA TypesProcess ==
  ASSUME PoolAssumption, TypeOK, NEW p \in Procs, ProcessStep(p)
  PROVE  TypeOK'
<1>1. Root \in Procs /\ loop[p] \in Loop /\ Children \subseteq Procs
  BY DEF PoolAssumption, TypeOK, Root, Procs, Children
<1>3. CASE Setup(p)
  <2>1. loop' = [loop EXCEPT ![p] = [loop[p] EXCEPT !.edge = connections > 0]]
    BY <1>3 DEF Setup
  <2>2. [loop[p] EXCEPT !.edge = connections > 0] \in Loop
    <3>1. (connections > 0) \in BOOLEAN
      OBVIOUS
    <3>2. QED
      BY <1>1, <3>1, LoopMembers
  <2>3. loop' \in [Procs -> Loop]
    BY <2>1, <2>2, LoopReplaced
  <2>4. QED
    BY <1>3, <2>3 DEF Setup, TypeOK, outside
<1>4. CASE NewConnection(p)
  <2> DEFINE turn(k) == (loop[p].counter + k) % N
             found == {k \in Children : table[p][turn(k)] # "-1"}
             first == CHOOSE k \in found : \A l \in found : k <= l
             next == IF found = {} THEN loop[p].counter ELSE Following(turn(first))
  <2>1. next \in Children
    <3>1. loop[p].counter \in Children
      BY <1>1, LoopMembers
    <3>2. CASE found = {}
      BY <3>1, <3>2
    <3>3. CASE found # {}
      <4>1. first \in found
        BY <3>3, SomeIsFirst
      <4>2. turn(first) \in Children
        <5> HIDE DEF first
        <5>1. first \in Nat /\ loop[p].counter \in Nat
          BY <3>1, <4>1 DEF PoolAssumption, Children
        <5>2. loop[p].counter + first \in Nat
          BY <5>1
        <5>3. QED
          BY <5>2, TurnIsAnEntry
      <4>3. Following(turn(first)) \in Children
        <5>1. turn(first) + 1 \in Nat
          BY <4>2, SMTT(60) DEF PoolAssumption, Children
        <5>2. QED
          BY <5>1, TurnIsAnEntry DEF Following
      <4>4. QED
        BY <3>3, <4>3
    <3>4. QED
      BY <3>2, <3>3
  <2>2. loop' = [loop EXCEPT ![p] = [loop[p] EXCEPT !.edge = FALSE, !.counter = next]]
    <3>1. loop' = [loop EXCEPT ![p].edge = FALSE,
                               ![p].counter = IF found = {} THEN @ ELSE Following(turn(first))]
      BY <1>4, Zenon DEF NewConnection
    <3> HIDE DEF found, first, turn
    <3>2. loop \in [Procs -> Loop]
      BY DEF TypeOK
    <3>3. QED
      BY <3>1, <3>2 DEF Loop
  <2>3. loop' \in [Procs -> Loop]
    BY <2>1, <2>2, <1>1, LoopMembers, LoopReplaced
  <2>4. stop' \in [Procs -> BOOLEAN]
    BY <1>4 DEF NewConnection, TypeOK
  <2>5. QED
    BY <1>4, <2>3, <2>4 DEF NewConnection, TypeOK, outside
<1>5. CASE ReadSignals(p)
  <2>1. loop' = [loop EXCEPT ![p] = [[loop[p] EXCEPT !.signals = loop[p].sigpipe] EXCEPT !.sigpipe = <<>>]]
    BY <1>5, <1>1 DEF ReadSignals, Loop
  <2>2. [loop[p] EXCEPT !.signals = loop[p].sigpipe] \in Loop /\ <<>> \in Seq(Signals)
    BY <1>1, LoopMembers, EmptySeq
  <2>3. loop' \in [Procs -> Loop]
    BY <2>1, <2>2, LoopMembers, LoopReplaced
  <2>4. QED
    BY <1>5, <2>3 DEF ReadSignals, TypeOK, outside
<1>6. CASE HandleStop(p)
  <2>1. SignalDone(p) \in [Procs -> Loop]
    BY <1>6, SignalDoneTypes DEF HandleStop
  <2>2. stop' \in [Procs -> BOOLEAN]
    BY <1>6 DEF HandleStop, TypeOK
  <2>3. QED
    BY <1>6, <2>1, <2>2, SignalledTypes DEF HandleStop, TypeOK, outside
<1>7. CASE Exit(p)
  BY <1>7, SignalledTypes DEF Exit, TypeOK, outside
<1>8. CASE Fork
  <2>1. PICK i \in Unborn :
          /\ pc' = [pc EXCEPT ![i] = "new"]
          /\ table' = [table EXCEPT ![Root][i] = "pid", ![i] = [table[Root] EXCEPT ![i] = "0"]]
    BY <1>8 DEF Fork
  <2>2. i \in Children /\ i \in Procs
    BY <1>1, <2>1 DEF Unborn
  <2>3. pc' \in [Procs -> {"unborn", "new", "loop", "dead"}]
    BY <2>1 DEF TypeOK
  <2>4. table' \in [Procs -> [Children -> {"-1", "0", "pid"}]]
    BY <1>1, <2>1, <2>2 DEF TypeOK
  <2>5. QED
    BY <1>8, <2>3, <2>4 DEF Fork, TypeOK, outside
<1>9. CASE HandleChild
  <2>1. loop' \in [Procs -> Loop]
    BY <1>1, <1>9, SignalDoneTypes DEF HandleChild
  <2>2. table' \in [Procs -> [Children -> {"-1", "0", "pid"}]]
    BY <1>1, <1>9 DEF HandleChild, Cleared, TypeOK
  <2>3. stop' \in [Procs -> BOOLEAN] /\ zombies' \subseteq Children
    BY <1>9 DEF HandleChild, TypeOK
  <2>4. QED
    BY <1>9, <2>1, <2>2, <2>3 DEF HandleChild, TypeOK, outside
<1>10. QED
  BY <1>3, <1>4, <1>5, <1>6, <1>7, <1>8, <1>9 DEF ProcessStep

(* Every step of a process, a delivery of a signal and a client keep the   *)
(* types.                                                                  *)
LEMMA TypesStep == PoolAssumption /\ TypeOK /\ [Next]_vars => TypeOK'
<1> SUFFICES ASSUME PoolAssumption, TypeOK, [Next]_vars PROVE TypeOK'
  OBVIOUS
<1>1. ASSUME NEW p \in Procs, ProcessStep(p) PROVE TypeOK'
  BY <1>1, TypesProcess
<1>2. ASSUME NEW p \in Procs, NEW s \in Signals, SigHandler(p, s) PROVE TypeOK'
  <2>1. loop[p] \in Loop
    BY DEF TypeOK
  <2>2. loop' = [loop EXCEPT ![p] = [loop[p] EXCEPT !.sigpipe = Append(loop[p].sigpipe, s)]]
    BY <1>2 DEF SigHandler
  <2>3. Append(loop[p].sigpipe, s) \in Seq(Signals)
    BY <2>1, LoopMembers, AppendProperties
  <2>4. loop' \in [Procs -> Loop]
    BY <2>1, <2>2, <2>3, LoopMembers, LoopReplaced
  <2>5. pending' \in [Procs -> SUBSET Signals]
    BY <1>2 DEF SigHandler, TypeOK, Signals
  <2>6. QED
    BY <1>2, <2>4, <2>5 DEF SigHandler, TypeOK, outside, Signals
<1>3. ASSUME NEW i \in Children, Crash(i) PROVE TypeOK'
  BY <1>3, SignalledTypes DEF Crash, TypeOK
<1>4. CASE StopFromOutside
  BY <1>4, SignalledTypes DEF StopFromOutside, TypeOK
<1>5. CASE Connect
  <2>1. \A p \in Procs : [loop[p] EXCEPT !.edge = TRUE] \in Loop
    BY LoopMembers DEF TypeOK
  <2>2. loop' \in [Procs -> Loop]
    BY <1>5, <2>1 DEF Connect, TypeOK
  <2>3. QED
    BY <1>5, <2>2 DEF Connect, TypeOK
<1>6. CASE UNCHANGED vars
  BY <1>6 DEF vars, TypeOK
<1>7. QED
  BY <1>1, <1>2, <1>3, <1>4, <1>5, <1>6 DEF Next, ProcessRuns, Signals

(* Every state is of the declared types. *)
THEOREM TypesAreKept == ASSUME PoolAssumption PROVE Spec => []TypeOK
<1>1. Init => TypeOK
  BY TypesInit
<1>2. TypeOK /\ [Next]_vars => TypeOK'
  BY TypesStep
<1>3. QED
  BY <1>1, <1>2, PTL DEF Spec

-------------------------------------------------------------------------------
(* What Root knows and passes on *)

(* Root runs its loop only after the constructor has forked every child,   *)
(* and nothing sets its m_stop before.                                     *)
RootIsReady ==
    /\ pc[Root] # "unborn"
    /\ pc[Root] = "new" => ~stop[Root]
    /\ pc[Root] = "loop" => Unborn = {}

ZombiesAreDead == \A i \in zombies : pc[i] = "dead"

(* When Root is to leave its loop every child has been told.               *)
StopIsPassedOn == stop[Root] => \A i \in Children : Told(i)

Inv == TypeOK /\ RootKnowsItsChildren /\ RootIsReady /\ ZombiesAreDead /\ StopIsPassedOn

(* Root is a process, and none of the children. *)
LEMMA RootIsNoChild ==
  ASSUME PoolAssumption
  PROVE  Root \in Procs /\ Root \notin Children /\ Children \subseteq Procs
  BY DEF PoolAssumption, Root, Procs, Children

(* A process that has been told stays so as long as what says it does.     *)
LEMMA ToldKept ==
  ASSUME NEW i \in Procs, Told(i), pc[i] = "dead" => pc'[i] = "dead",
         pc'[i] # "dead" =>
            /\ stop[i] => stop'[i]
            /\ pending[i] \subseteq pending'[i]
            /\ loop'[i].sigpipe = loop[i].sigpipe /\ loop'[i].signals = loop[i].signals
  PROVE  Told(i)'
  BY DEF Told

(* Signals and deaths take nothing away from a process told to stop, unless *)
(* the step itself, which replaces the event loops by l, does.              *)
LEMMA ToldSignalled ==
  ASSUME TypeOK, NEW termed, NEW dying, NEW l \in [Procs -> Loop],
         Signalled(termed, dying, l), NEW i \in Procs, Told(i),
         stop[i] => stop'[i], l[i] = loop[i]
  PROVE  Told(i)'
<1>1. pc[i] = "dead" => pc'[i] = "dead"
  BY SignalledEffect
<1>2. pc'[i] # "dead" => loop'[i] = loop[i] /\ pending[i] \subseteq pending'[i]
  BY SignalledEffect
<1>3. QED
  BY <1>1, <1>2, ToldKept

(* No step makes a child forget that it has been told to stop.             *)
LEMMA ToldStays ==
  ASSUME PoolAssumption, TypeOK, [Next]_vars, NEW i \in Children, Told(i)
  PROVE  Told(i)'
<1>1. i \in Procs /\ i # Root /\ loop \in [Procs -> Loop] /\ loop[i] \in Loop
  BY RootIsNoChild DEF TypeOK
<1>2. ASSUME NEW p \in Procs, Setup(p) PROVE Told(i)'
  <2>1. loop'[i].sigpipe = loop[i].sigpipe /\ loop'[i].signals = loop[i].signals
    BY <1>1, <1>2 DEF Setup, Loop
  <2>2. pc[i] = "dead" => pc'[i] = "dead"
    BY <1>1, <1>2 DEF Setup, TypeOK
  <2>3. stop' = stop /\ pending' = pending
    BY <1>2 DEF Setup
  <2>4. QED
    BY <1>1, <2>1, <2>2, <2>3, ToldKept
<1>3. ASSUME NEW p \in Procs, NewConnection(p) PROVE Told(i)'
  <2>1. loop'[i].sigpipe = loop[i].sigpipe /\ loop'[i].signals = loop[i].signals
    BY <1>1, <1>3 DEF NewConnection, Loop
  <2>2. stop[i] => stop'[i]
    BY <1>1, <1>3 DEF NewConnection, TypeOK
  <2>3. pc' = pc /\ pending' = pending
    BY <1>3 DEF NewConnection
  <2>4. QED
    BY <1>1, <2>1, <2>2, <2>3, ToldKept
<1>4. ASSUME NEW p \in Procs, ReadSignals(p) PROVE Told(i)'
  <2>1. pc' = pc /\ pending' = pending /\ stop' = stop
    BY <1>4 DEF ReadSignals
  <2>2. CASE p = i
    <3>1. loop'[i].signals = loop[i].sigpipe
      BY <1>1, <1>4, <2>2 DEF ReadSignals, Loop
    <3>2. loop[i].signals = <<>>
      BY <1>4, <2>2 DEF ReadSignals, AtTest
    <3>3. QED
      BY <1>1, <2>1, <3>1, <3>2 DEF Told
  <2>3. CASE p # i
    <3>1. loop'[i] = loop[i]
      BY <1>1, <1>4, <2>3 DEF ReadSignals
    <3>2. QED
      BY <1>1, <2>1, <3>1, ToldKept
  <2>4. QED
    BY <2>2, <2>3
<1>5. ASSUME NEW p \in Procs, HandleStop(p) PROVE Told(i)'
  <2>1. SignalDone(p) \in [Procs -> Loop]
    BY <1>5, SignalDoneTypes DEF HandleStop
  <2>2. stop' = [stop EXCEPT ![p] = TRUE] /\ stop \in [Procs -> BOOLEAN]
    BY <1>5 DEF HandleStop, TypeOK
  <2>3. CASE p = i
    BY <1>1, <2>2, <2>3 DEF Told
  <2>4. CASE p # i
    <3>1. SignalDone(p)[i] = loop[i]
      BY <1>1, <2>4 DEF SignalDone
    <3>2. Signalled(KillLoop(p), {}, SignalDone(p))
      BY <1>5 DEF HandleStop
    <3>3. stop[i] => stop'[i]
      BY <1>1, <2>2
    <3>4. QED
      BY <1>1, <2>1, <3>1, <3>2, <3>3, ToldSignalled
  <2>5. QED
    BY <2>3, <2>4
<1>6. ASSUME NEW p \in Procs, Exit(p) PROVE Told(i)'
  <2>1. Signalled({}, {p}, loop) /\ stop' = stop
    BY <1>6 DEF Exit
  <2>2. QED
    BY <1>1, <2>1, ToldSignalled
<1>7. CASE Fork
  <2>1. pc[i] = "dead" => pc'[i] = "dead"
    BY <1>1, <1>7 DEF Fork, Unborn, TypeOK
  <2>2. stop' = stop /\ loop' = loop /\ pending' = pending
    BY <1>7 DEF Fork
  <2>3. QED
    BY <1>1, <2>1, <2>2, ToldKept
<1>8. CASE HandleChild
  <2>1. loop'[i] = loop[i]
    BY <1>1, <1>8 DEF HandleChild, SignalDone
  <2>2. stop'[i] = stop[i]
    BY <1>1, <1>8 DEF HandleChild, TypeOK
  <2>3. pc' = pc /\ pending' = pending
    BY <1>8 DEF HandleChild
  <2>4. QED
    BY <1>1, <2>1, <2>2, <2>3, ToldKept
<1>9. ASSUME NEW p \in Procs, NEW s \in Signals, SigHandler(p, s) PROVE Told(i)'
  <2>1. pc' = pc /\ stop' = stop
    BY <1>9 DEF SigHandler
  <2>2. CASE p = i
    <3>1. loop[i].sigpipe \in Seq(Signals) /\ loop'[i].sigpipe = Append(loop[i].sigpipe, s)
          /\ loop'[i].signals = loop[i].signals
      <4>1. loop' = [loop EXCEPT ![i] = [loop[i] EXCEPT !.sigpipe = Append(loop[i].sigpipe, s)]]
        BY <1>9, <2>2 DEF SigHandler
      <4>2. loop'[i] = [loop[i] EXCEPT !.sigpipe = Append(loop[i].sigpipe, s)]
        BY <1>1, <4>1
      <4>3. QED
        BY <1>1, <4>2, LoopMembers, ZenonT(60) DEF Loop
    <3>2. pending[i] \subseteq pending'[i] \cup {s}
      BY <1>1, <1>9, <2>2 DEF SigHandler, TypeOK
    <3>3. CASE "TERM" \in pending[i] /\ s = "TERM"
      <4>1. Len(loop[i].sigpipe) + 1 \in DOMAIN Append(loop[i].sigpipe, s)
            /\ Append(loop[i].sigpipe, s)[Len(loop[i].sigpipe) + 1] = s
        BY <3>1, AppendProperties, LenProperties
      <4>2. QED
        BY <3>1, <3>3, <4>1 DEF Told
    <3>4. CASE "TERM" \in pending[i] /\ s # "TERM"
      BY <3>2, <3>4 DEF Told
    <3>5. CASE \E k \in DOMAIN loop[i].sigpipe : loop[i].sigpipe[k] = "TERM"
      <4>1. PICK k \in DOMAIN loop[i].sigpipe : loop[i].sigpipe[k] = "TERM"
        BY <3>5
      <4>2. k \in DOMAIN Append(loop[i].sigpipe, s) /\ Append(loop[i].sigpipe, s)[k] = "TERM"
        BY <3>1, <4>1, AppendProperties, LenProperties
      <4>3. QED
        BY <3>1, <4>2 DEF Told
    <3>6. CASE pc[i] = "dead" \/ stop[i] \/ \E k \in DOMAIN loop[i].signals : loop[i].signals[k] = "TERM"
      BY <2>1, <3>1, <3>6 DEF Told
    <3>7. QED
      BY <3>3, <3>4, <3>5, <3>6 DEF Told
  <2>3. CASE p # i
    <3>1. loop'[i] = loop[i] /\ pending'[i] = pending[i]
      BY <1>1, <1>9, <2>3 DEF SigHandler, TypeOK
    <3>2. QED
      BY <1>1, <2>1, <3>1, ToldKept
  <2>4. QED
    BY <2>2, <2>3
<1>10. ASSUME NEW j \in Children, Crash(j) PROVE Told(i)'
  <2>1. Signalled({}, {j}, loop) /\ stop' = stop
    BY <1>10 DEF Crash
  <2>2. QED
    BY <1>1, <2>1, ToldSignalled
<1>11. CASE StopFromOutside
  <2>1. PICK target : Signalled(target, {}, loop)
    BY <1>11 DEF StopFromOutside
  <2>2. stop' = stop
    BY <1>11 DEF StopFromOutside
  <2>3. QED
    BY <1>1, <2>1, <2>2, ToldSignalled
<1>12. CASE Connect
  <2>1. loop'[i].sigpipe = loop[i].sigpipe /\ loop'[i].signals = loop[i].signals
    BY <1>1, <1>12 DEF Connect, Loop
  <2>2. pc' = pc /\ stop' = stop /\ pending' = pending
    BY <1>12 DEF Connect
  <2>3. QED
    BY <1>1, <2>1, <2>2, ToldKept
<1>13. CASE UNCHANGED vars
  BY <1>1, <1>13, ToldKept DEF vars
<1>14. QED
  BY <1>2, <1>3, <1>4, <1>5, <1>6, <1>7, <1>8, <1>9, <1>10, <1>11, <1>12, <1>13
     DEF Next, ProcessRuns, ProcessStep, Signals

(* Signals and deaths, which only the living die, leave Root knowing its   *)
(* children.                                                               *)
LEMMA SignalledKnows ==
  ASSUME PoolAssumption, TypeOK, RootKnowsItsChildren, RootIsReady, ZombiesAreDead,
         NEW termed, NEW dying, NEW l \in [Procs -> Loop], Signalled(termed, dying, l),
         \A p \in dying : pc[p] \in {"new", "loop"}, table' = table
  PROVE  RootKnowsItsChildren' /\ ZombiesAreDead' /\ (stop' = stop => RootIsReady')
<1> DEFINE Gone(p) == p \in dying \/ (p \in termed /\ pc[p] = "new")
<1>1. /\ \A p \in Procs : pc'[p] = IF Gone(p) THEN "dead" ELSE pc[p]
      /\ zombies' = IF pc'[Root] = "dead" THEN {} ELSE zombies \cup {p \in Children : Gone(p)}
  <2>1. \A p \in Procs : pc'[p] = IF Gone(p) THEN "dead" ELSE pc[p]
    BY DEF Signalled
  <2>2. (dying \cup {p \in termed : pc[p] = "new"}) \cap Children = {p \in Children : Gone(p)}
    OBVIOUS
  <2>3. zombies' = IF pc'[Root] = "dead" THEN {} ELSE zombies \cup {p \in Children : Gone(p)}
    BY <2>2 DEF Signalled
  <2>4. QED
    BY <2>1, <2>3
<1>2. \A p \in Procs : Gone(p) => pc[p] \in {"new", "loop"}
  OBVIOUS
<1> HIDE DEF Gone
<1>3. RootKnowsItsChildren'
  <2> SUFFICES ASSUME pc'[Root] # "dead", NEW i \in Children
               PROVE  table[Root][i] = "pid" <=> pc'[i] # "unborn" /\ (pc'[i] = "dead" => i \in zombies')
    BY DEF RootKnowsItsChildren
  <2>1. i \in Procs /\ pc[Root] # "dead" /\ zombies' = zombies \cup {p \in Children : Gone(p)}
    BY <1>1, RootIsNoChild
  <2>2. table[Root][i] = "pid" <=> pc[i] # "unborn" /\ (pc[i] = "dead" => i \in zombies)
    BY <2>1 DEF RootKnowsItsChildren
  <2>3. CASE Gone(i)
    BY <1>1, <1>2, <2>1, <2>2, <2>3
  <2>4. CASE ~Gone(i)
    BY <1>1, <2>1, <2>2, <2>4
  <2>5. QED
    BY <2>3, <2>4
<1>4. ZombiesAreDead'
  <2> SUFFICES ASSUME NEW i \in zombies' PROVE pc'[i] = "dead"
    BY DEF ZombiesAreDead
  <2>1. i \in Procs /\ (i \in zombies \/ Gone(i))
    BY <1>1, RootIsNoChild DEF TypeOK
  <2>2. QED
    BY <1>1, <2>1 DEF ZombiesAreDead
<1>5. stop' = stop => RootIsReady'
  <2>1. Unborn' \subseteq Unborn
    BY <1>1, RootIsNoChild DEF Unborn
  <2>2. QED
    BY <1>1, <2>1, RootIsNoChild DEF RootIsReady
<1>6. QED
  BY <1>3, <1>4, <1>5

(* What the stop Root gives itself when no entry of its table is left, or  *)
(* handling SIGTERM, finds: a child without its pid in the table is dead.  *)
LEMMA WithoutPid ==
  ASSUME RootKnowsItsChildren, RootIsReady, ZombiesAreDead, pc[Root] = "loop",
         NEW i \in Children, table[Root][i] # "pid"
  PROVE  pc[i] = "dead"
<1>1. pc[i] # "unborn"
  BY DEF RootIsReady, Unborn
<1>2. QED
  BY <1>1 DEF RootKnowsItsChildren

(* Inv holds at the start: no child is born and Root's table is empty. *)
LEMMA InvInit == PoolAssumption /\ Init => Inv
<1> SUFFICES ASSUME PoolAssumption, Init PROVE Inv
  OBVIOUS
<1>1. TypeOK
  BY TypesInit
<1>2. RootKnowsItsChildren
  BY RootIsNoChild DEF Init, RootKnowsItsChildren
<1>3. RootIsReady /\ ZombiesAreDead /\ StopIsPassedOn
  BY RootIsNoChild DEF Init, RootIsReady, ZombiesAreDead, StopIsPassedOn
<1>4. QED
  BY <1>1, <1>2, <1>3 DEF Inv

(* A step that leaves m_stop of Root as it is passes the stop on.          *)
LEMMA SameStop ==
  ASSUME PoolAssumption, TypeOK, StopIsPassedOn, [Next]_vars, stop'[Root] => stop[Root]
  PROVE  StopIsPassedOn'
<1> SUFFICES ASSUME stop'[Root], NEW i \in Children PROVE Told(i)'
  BY DEF StopIsPassedOn
<1>1. Told(i)
  BY DEF StopIsPassedOn
<1>2. QED
  BY <1>1, ToldStays

(* A process that starts its loop. *)
LEMMA SetupStep ==
  ASSUME PoolAssumption, Inv, [Next]_vars, NEW p \in Procs, Setup(p)
  PROVE  RootKnowsItsChildren' /\ RootIsReady' /\ ZombiesAreDead' /\ StopIsPassedOn'
<1>1. /\ pc[p] = "new" /\ pc' = [pc EXCEPT ![p] = "loop"] /\ (p = Root => Unborn = {})
      /\ table' = table /\ stop' = stop /\ zombies' = zombies
  BY DEF Setup
<1>2. pc \in [Procs -> {"unborn", "new", "loop", "dead"}] /\ zombies \subseteq Children
  BY DEF Inv, TypeOK
<1>3. /\ \A q \in Procs : pc'[q] = IF q = p THEN "loop" ELSE pc[q]
      /\ pc[p] = "new"
  BY <1>1, <1>2
<1>4. RootKnowsItsChildren'
  BY <1>1, <1>3, RootIsNoChild DEF Inv, RootKnowsItsChildren
<1>5. RootIsReady'
  <2>1. Unborn' = Unborn
    BY <1>3, RootIsNoChild DEF Unborn
  <2>2. CASE p = Root
    BY <1>1, <1>3, <2>1, <2>2 DEF RootIsReady
  <2>3. CASE p # Root
    <3>1. pc'[Root] = pc[Root] /\ stop'[Root] = stop[Root]
      BY <1>1, <1>3, <2>3, RootIsNoChild
    <3>2. QED
      BY <2>1, <3>1 DEF Inv, RootIsReady
  <2>4. QED
    BY <2>2, <2>3
<1>6. ZombiesAreDead'
  BY <1>1, <1>2, <1>3, RootIsNoChild DEF Inv, ZombiesAreDead
<1>7. QED
  BY <1>1, <1>4, <1>5, <1>6, SameStop DEF Inv

(* Steps that change neither the table nor who lives. *)
LEMMA SamePeople ==
  ASSUME Inv, UNCHANGED <<pc, table, zombies>>, stop'[Root] => stop[Root] \/ pc[Root] = "loop"
  PROVE  RootKnowsItsChildren' /\ RootIsReady' /\ ZombiesAreDead'
<1>1. RootKnowsItsChildren'
  BY DEF Inv, RootKnowsItsChildren
<1>2. RootIsReady'
  BY DEF Inv, RootIsReady, Unborn
<1>3. ZombiesAreDead'
  BY DEF Inv, ZombiesAreDead
<1>4. QED
  BY <1>1, <1>2, <1>3

(* A client: Root stops itself only when all its children are gone. *)
LEMMA NewConnectionStep ==
  ASSUME PoolAssumption, Inv, [Next]_vars, NEW p \in Procs, NewConnection(p)
  PROVE  RootKnowsItsChildren' /\ RootIsReady' /\ ZombiesAreDead' /\ StopIsPassedOn'
<1> DEFINE turn(k) == (loop[p].counter + k) % N
           found == {k \in Children : table[p][turn(k)] # "-1"}
<1>1. /\ pc[p] = "loop" /\ stop' = [stop EXCEPT ![p] = found = {}]
      /\ UNCHANGED <<pc, table, zombies>>
  BY DEF NewConnection, AtTest
<1>2. stop \in [Procs -> BOOLEAN] /\ loop[p].counter \in Children
  BY LoopMembers DEF Inv, TypeOK
<1>3. CASE stop'[Root] => stop[Root]
  BY <1>1, <1>3, SamePeople, SameStop DEF Inv
<1>4. CASE stop'[Root] /\ ~stop[Root]
  <2>1. p = Root /\ found = {}
    BY <1>1, <1>2, <1>4, RootIsNoChild
  <2>2. ASSUME NEW i \in Children PROVE Told(i)'
    <3>1. PICK k \in Children : turn(k) = i
      BY <1>2, EveryEntryHasItsTurn
    <3>2. table[Root][i] = "-1"
      BY <2>1, <3>1
    <3>3. pc[i] = "dead"
      BY <1>1, <2>1, <3>2, WithoutPid DEF Inv
    <3>4. QED
      BY <1>1, <3>3 DEF Told
  <2>3. StopIsPassedOn'
    BY <2>2 DEF StopIsPassedOn
  <2>4. QED
    BY <1>1, <2>1, <2>3, SamePeople
<1>5. QED
  BY <1>3, <1>4

(* SIGTERM: Root stops and kills every child its table has. *)
LEMMA HandleStopStep ==
  ASSUME PoolAssumption, Inv, [Next]_vars, NEW p \in Procs, HandleStop(p)
  PROVE  RootKnowsItsChildren' /\ RootIsReady' /\ ZombiesAreDead' /\ StopIsPassedOn'
<1>1. /\ pc[p] = "loop" /\ SignalDone(p) \in [Procs -> Loop]
      /\ stop' = [stop EXCEPT ![p] = TRUE] /\ stop \in [Procs -> BOOLEAN]
      /\ Signalled(KillLoop(p), {}, SignalDone(p)) /\ table' = table
  BY SignalDoneTypes DEF HandleStop, Inv, TypeOK
<1>2. RootKnowsItsChildren' /\ ZombiesAreDead' /\ (stop' = stop => RootIsReady')
  BY <1>1, SignalledKnows DEF Inv
<1>3. RootIsReady'
  <2>1. \A q \in Procs : pc'[q] = pc[q] \/ pc'[q] = "dead"
    BY <1>1, SignalledEffect DEF Inv
  <2>2. Unborn' \subseteq Unborn
    BY <2>1, RootIsNoChild DEF Unborn
  <2>3. pc'[Root] = "new" => pc[Root] = "new" /\ p # Root
    BY <1>1, <2>1, RootIsNoChild
  <2>4. QED
    BY <1>1, <2>1, <2>2, <2>3, RootIsNoChild DEF Inv, RootIsReady
<1>4. CASE p # Root
  BY <1>1, <1>2, <1>3, <1>4, SameStop DEF Inv
<1>5. CASE p = Root
  <2>1. ASSUME NEW i \in Children PROVE Told(i)'
    <3>1. i \in Procs
      BY RootIsNoChild
    <3>2. CASE table[Root][i] = "pid"
      <4>1. i \in KillLoop(p)
        BY <1>5, <3>2 DEF KillLoop
      <4>2. pc[i] # "unborn" /\ pc[i] \in {"unborn", "new", "loop", "dead"}
        BY <1>1, <1>5, <3>1 DEF Inv, RootIsReady, Unborn, TypeOK
      <4>3. pc'[i] = "dead" \/ "TERM" \in pending'[i]
        BY <1>1, <3>1, <4>1, <4>2, SignalledEffect DEF Inv, Handles
      <4>4. QED
        BY <4>3 DEF Told
    <3>3. CASE table[Root][i] # "pid"
      <4>1. pc[i] = "dead"
        BY <1>1, <1>5, <3>3, WithoutPid DEF Inv
      <4>2. pc'[i] = "dead"
        BY <1>1, <3>1, <4>1, SignalledEffect DEF Inv
      <4>3. QED
        BY <4>2 DEF Told
    <3>4. QED
      BY <3>2, <3>3
  <2>2. QED
    BY <1>2, <1>3, <2>1 DEF StopIsPassedOn
<1>6. QED
  BY <1>4, <1>5

(* The constructor forks one child more. *)
LEMMA ForkStep ==
  ASSUME PoolAssumption, Inv, [Next]_vars, Fork
  PROVE  RootKnowsItsChildren' /\ RootIsReady' /\ ZombiesAreDead' /\ StopIsPassedOn'
<1>1. PICK i \in Unborn :
        /\ pc' = [pc EXCEPT ![i] = "new"]
        /\ table' = [table EXCEPT ![Root][i] = "pid", ![i] = [table[Root] EXCEPT ![i] = "0"]]
  BY DEF Fork
<1>2. /\ i \in Children /\ i \in Procs /\ i # Root /\ pc[i] = "unborn" /\ pc[Root] = "new"
      /\ stop' = stop /\ zombies' = zombies
  BY RootIsNoChild DEF Fork, Unborn
<1>3. /\ pc \in [Procs -> {"unborn", "new", "loop", "dead"}] /\ zombies \subseteq Children
      /\ table \in [Procs -> [Children -> {"-1", "0", "pid"}]]
  BY DEF Inv, TypeOK
<1>4. table'[Root] = [table[Root] EXCEPT ![i] = "pid"]
  BY <1>1, <1>2, <1>3, RootIsNoChild
<1>5. pc'[i] = "new" /\ \A j \in Procs : j # i => pc'[j] = pc[j]
  BY <1>1, <1>2, <1>3
<1>6. RootKnowsItsChildren'
  <2> SUFFICES ASSUME NEW j \in Children
               PROVE  table'[Root][j] = "pid" <=> pc'[j] # "unborn" /\ (pc'[j] = "dead" => j \in zombies')
    BY DEF RootKnowsItsChildren
  <2>1. table[Root] \in [Children -> {"-1", "0", "pid"}]
    BY <1>3, RootIsNoChild
  <2>2. CASE j = i
    BY <1>4, <1>5, <2>1, <2>2
  <2>3. CASE j # i
    <3>1. table'[Root][j] = table[Root][j] /\ pc'[j] = pc[j]
      BY <1>4, <1>5, <2>1, <2>3, RootIsNoChild
    <3>2. QED
      BY <1>2, <3>1 DEF Inv, RootKnowsItsChildren
  <2>4. QED
    BY <2>2, <2>3
<1>7. RootIsReady'
  BY <1>2, <1>5, RootIsNoChild DEF Inv, RootIsReady
<1>8. ZombiesAreDead'
  <2>1. i \notin zombies
    BY <1>2 DEF Inv, ZombiesAreDead
  <2>2. QED
    BY <1>2, <1>3, <1>5, <2>1, RootIsNoChild DEF Inv, ZombiesAreDead
<1>9. QED
  BY <1>2, <1>6, <1>7, <1>8, SameStop DEF Inv

(* SIGCHLD: Root waits for all the dead, and stops when none is left. *)
LEMMA HandleChildStep ==
  ASSUME PoolAssumption, Inv, [Next]_vars, HandleChild
  PROVE  RootKnowsItsChildren' /\ RootIsReady' /\ ZombiesAreDead' /\ StopIsPassedOn'
<1> DEFINE left == Cleared(table[Root], Reaped)
<1>1. /\ zombies' = {} /\ table' = [table EXCEPT ![Root] = left] /\ pc' = pc
      /\ stop' = [stop EXCEPT ![Root] = \A i \in Children : left[i] = "-1"]
  BY DEF HandleChild, Reaped
<1>2. /\ \A i \in Children : left[i] = IF i \in zombies THEN "-1" ELSE table[Root][i]
      /\ pc[Root] = "loop"
  BY DEF Cleared, Reaped, HandleChild, Signal
<1> HIDE DEF left
<1>3. table'[Root] = left /\ stop'[Root] = \A i \in Children : left[i] = "-1"
  BY <1>1, RootIsNoChild DEF Inv, TypeOK
<1>4. RootKnowsItsChildren'
  <2> SUFFICES ASSUME NEW i \in Children
               PROVE  left[i] = "pid" <=> pc[i] # "unborn" /\ pc[i] # "dead"
    BY <1>1, <1>3 DEF RootKnowsItsChildren
  <2>1. table[Root][i] = "pid" <=> pc[i] # "unborn" /\ (pc[i] = "dead" => i \in zombies)
    BY <1>2 DEF Inv, RootKnowsItsChildren
  <2>2. i \in zombies => pc[i] = "dead"
    BY DEF Inv, ZombiesAreDead
  <2>3. QED
    BY <1>2, <2>1, <2>2
<1>5. RootIsReady'
  <2>1. Unborn' = Unborn
    BY <1>1 DEF Unborn
  <2>2. QED
    BY <1>1, <1>2, <2>1 DEF Inv, RootIsReady
<1>6. ZombiesAreDead'
  BY <1>1 DEF ZombiesAreDead
<1>7. StopIsPassedOn'
  <2> SUFFICES ASSUME stop'[Root], NEW i \in Children PROVE Told(i)'
    BY DEF StopIsPassedOn
  <2>1. i \in zombies \/ table[Root][i] # "pid"
    BY <1>2, <1>3
  <2>2. pc[i] = "dead"
    BY <1>2, <2>1, WithoutPid DEF Inv, ZombiesAreDead
  <2>3. QED
    BY <1>1, <2>2 DEF Told
<1>8. QED
  BY <1>4, <1>5, <1>6, <1>7

(* A signal or a death that is no process's own step of the loop. *)
LEMMA SignalledStep ==
  ASSUME PoolAssumption, Inv, [Next]_vars, NEW termed, NEW dying, Signalled(termed, dying, loop),
         \A p \in dying : pc[p] \in {"new", "loop"}, UNCHANGED <<table, stop>>
  PROVE  RootKnowsItsChildren' /\ RootIsReady' /\ ZombiesAreDead' /\ StopIsPassedOn'
<1>1. loop \in [Procs -> Loop]
  BY DEF Inv, TypeOK
<1>2. RootKnowsItsChildren' /\ RootIsReady' /\ ZombiesAreDead'
  BY <1>1, SignalledKnows DEF Inv
<1>3. QED
  BY <1>2, SameStop DEF Inv

(* Every step keeps Inv. *)
LEMMA InvStep == PoolAssumption /\ Inv /\ [Next]_vars => Inv'
<1> SUFFICES ASSUME PoolAssumption, Inv, [Next]_vars
             PROVE  RootKnowsItsChildren' /\ RootIsReady' /\ ZombiesAreDead' /\ StopIsPassedOn'
  BY TypesStep DEF Inv
<1> DEFINE Rest == RootKnowsItsChildren' /\ RootIsReady' /\ ZombiesAreDead' /\ StopIsPassedOn'
<1>1. ASSUME NEW p \in Procs, Setup(p) PROVE Rest
  BY <1>1, SetupStep
<1>2. ASSUME NEW p \in Procs, NewConnection(p) PROVE Rest
  BY <1>2, NewConnectionStep
<1>3. ASSUME NEW p \in Procs, ReadSignals(p) PROVE Rest
  BY <1>3, SamePeople, SameStop DEF ReadSignals, Inv
<1>4. ASSUME NEW p \in Procs, HandleStop(p) PROVE Rest
  BY <1>4, HandleStopStep
<1>5. ASSUME NEW p \in Procs, Exit(p) PROVE Rest
  <2>1. pc[p] = "loop" /\ Signalled({}, {p}, loop) /\ UNCHANGED <<table, stop>>
    BY <1>5 DEF Exit, AtTest
  <2>2. QED
    BY <2>1, SignalledStep
<1>6. CASE Fork
  BY <1>6, ForkStep
<1>7. CASE HandleChild
  BY <1>7, HandleChildStep
<1>8. ASSUME NEW p \in Procs, NEW s \in Signals, SigHandler(p, s) PROVE Rest
  BY <1>8, SamePeople, SameStop DEF SigHandler, Inv
<1>9. ASSUME NEW i \in Children, Crash(i) PROVE Rest
  <2>1. pc[i] \in {"unborn", "new", "loop", "dead"} /\ pc[i] \notin {"unborn", "dead"}
    BY <1>9, RootIsNoChild DEF Crash, Inv, TypeOK
  <2>2. Signalled({}, {i}, loop) /\ UNCHANGED <<table, stop>>
    BY <1>9 DEF Crash
  <2>3. QED
    BY <2>1, <2>2, SignalledStep
<1>10. CASE StopFromOutside
  <2>1. PICK target : Signalled(target, {}, loop)
    BY <1>10 DEF StopFromOutside
  <2>2. UNCHANGED <<table, stop>>
    BY <1>10 DEF StopFromOutside
  <2>3. QED
    BY <2>1, <2>2, SignalledStep
<1>11. CASE Connect
  BY <1>11, SamePeople, SameStop DEF Connect, Inv
<1>12. CASE UNCHANGED vars
  BY <1>12, SamePeople, SameStop DEF vars, Inv
<1>13. QED
  BY <1>1, <1>2, <1>3, <1>4, <1>5, <1>6, <1>7, <1>8, <1>9, <1>10, <1>11, <1>12
     DEF Next, ProcessRuns, ProcessStep, Signals

(* Root's table names exactly the children it has not waited for: a child  *)
(* that died is there until waitpid() returned it, so kill() never reaches *)
(* a stranger that got its pid.                                            *)
THEOREM TableIsTrue == ASSUME PoolAssumption PROVE Spec => []RootKnowsItsChildren
<1>1. Inv => RootKnowsItsChildren
  BY DEF Inv
<1>2. QED
  BY <1>1, InvInit, InvStep, PTL DEF Spec

(* Root leaves its loop only when every child is dead, stops or has SIGTERM *)
(* on its way, whatever was killed or died in between.                     *)
THEOREM NobodyIsLeftBehind == ASSUME PoolAssumption PROVE Spec => []NoOrphans
<1>1. Inv => NoOrphans
  BY DEF Inv, StopIsPassedOn, NoOrphans
<1>2. QED
  BY <1>1, InvInit, InvStep, PTL DEF Spec

===============================================================================
