---------------------------- MODULE ContainerProofs ---------------------------
(***************************************************************************)
(* Theorems about time_heap, for any number of timers, any capacities and  *)
(* any values of expire, and about time_wheel, for any number of timers,   *)
(* of slots and of turns.                                                  *)
(***************************************************************************)
EXTENDS MCTimers, FiniteSetTheorems, NaturalsInduction, WellFoundedInduction, TLAPS

-------------------------------------------------------------------------------
(* The heap: numbers and the tree *)

(* The smallest member of a set of numbers. *)
LEMMA Smallest ==
  ASSUME NEW S \in SUBSET Nat, S # {}
  PROVE  \E x \in S : \A y \in S : x <= y
<1> DEFINE less == OpToRel(<, Nat)
<1>1. IsWellFoundedOn(less, Nat)
  BY NatLessThanWellFounded
<1>2. \E x \in S : \A y \in S : <<y, x>> \notin less
  BY <1>1, WFMin
<1>3. \A x, y \in Nat : <<y, x>> \notin less => x <= y
  <2>1. \A x, y \in Nat : y < x => <<y, x>> \in less
    BY DEF OpToRel
  <2>2. \A x, y \in Nat : y < x \/ x <= y
    OBVIOUS
  <2>3. QED
    BY <2>1, <2>2, Zenon
<1> HIDE DEF less
<1>4. QED
  BY <1>2, <1>3

(* ... and the largest member of a set of numbers up to n. *)
LEMMA Largest ==
  ASSUME NEW n \in Nat, NEW S \in SUBSET (0 .. n), S # {}
  PROVE  \E x \in S : \A y \in S : y <= x
<1> DEFINE T == {n - x : x \in S}
<1>1. T \in SUBSET Nat /\ T # {}
  <2>1. \A x \in S : n - x \in Nat
    OBVIOUS
  <2>2. PICK x \in S : TRUE
    OBVIOUS
  <2>3. n - x \in T
    BY <2>2
  <2>4. QED
    BY <2>1, <2>3
<1>2. PICK z \in T : \A y \in T : z <= y
  BY <1>1, Smallest
<1>3. PICK x \in S : z = n - x
  BY <1>2
<1>4. \A y \in S : n - y \in T /\ y \in 0 .. n /\ x \in 0 .. n
  OBVIOUS
<1>5. \A y \in S : n - x <= n - y
  BY <1>2, <1>3, <1>4
<1>6. \A y \in S : y <= x
  BY <1>4, <1>5
<1>7. QED
  BY <1>6

(* The tree: a child comes after its parent. *)
LEMMA ParentIs ==
  ASSUME NEW i \in Nat, i > 0
  PROVE  /\ Heap!Parent(i) \in Nat /\ Heap!Parent(i) < i
         /\ i = 2 * Heap!Parent(i) + 1 \/ i = 2 * Heap!Parent(i) + 2
  BY DEF Heap!Parent

(* The child that percolate_down() compares with is one of the hole's two  *)
(* children and in the heap.                                               *)
LEMMA ChildIs ==
  ASSUME NEW a, NEW n, NEW h \in Nat, NEW t, Heap!Sinks(a, n, h, t), n \in Nat
  PROVE  /\ Heap!Child(a, n, h) \in {2*h + 1, 2*h + 2} /\ Heap!Child(a, n, h) > h /\ Heap!Child(a, n, h) < n
         /\ Heap!Child(a, n, h) \in 0 .. n - 1
  BY DEF Heap!Sinks, Heap!Child

-------------------------------------------------------------------------------
(* The loops of percolate_down() and add_timer() *)

(* The loop of percolate_down() ends: rest has a value everywhere.          *)
IsEnd(f, a, n, hole) ==
    f = [h \in 0 .. n |-> IF Heap!Sinks(a, n, h, a[hole]) THEN f[Heap!Child(a, n, h)] ELSE h]

(* Every hole has a value, as a hole only looks at holes behind it. *)
LEMMA EndsExist ==
  ASSUME NEW a, NEW n \in Nat, NEW hole
  PROVE  \E f : IsEnd(f, a, n, hole)
<1> DEFINE S(h) == Heap!Sinks(a, n, h, a[hole])
           c(h) == Heap!Child(a, n, h)
<1>c. \A h \in 0 .. n : S(h) => c(h) \in 0 .. n - 1 /\ c(h) > h
  BY ChildIs
<1> HIDE DEF S, c
<1> DEFINE E(m) == \E f \in [m .. n -> Nat] : \A h \in m .. n : f[h] = IF S(h) THEN f[c(h)] ELSE h
           D == {k \in 0 .. n : ~E(n - k)}
<1>1. E(n)
  <2> DEFINE f == [h \in n .. n |-> h]
  <2>1. \A h \in n .. n : ~S(h)
    BY <1>c
  <2>2. f \in [n .. n -> Nat] /\ \A h \in n .. n : f[h] = IF S(h) THEN f[c(h)] ELSE h
    BY <2>1
  <2>3. QED
    BY <2>2
<1>2. ASSUME NEW m \in 1 .. n, E(m) PROVE E(m - 1)
  <2>1. PICK f \in [m .. n -> Nat] : \A h \in m .. n : f[h] = IF S(h) THEN f[c(h)] ELSE h
    BY <1>2
  <2> DEFINE g == [h \in m - 1 .. n |-> IF h = m - 1 THEN IF S(h) THEN f[c(h)] ELSE h ELSE f[h]]
  <2>2. \A h \in m - 1 .. n : h = m - 1 \/ h \in m .. n
    OBVIOUS
  <2>3. \A h \in m - 1 .. n : h \in 0 .. n /\ (S(h) => c(h) \in m .. n /\ c(h) \in m - 1 .. n /\ c(h) # m - 1)
    BY <1>c
  <2>4. g \in [m - 1 .. n -> Nat]
    BY <2>1, <2>2, <2>3
  <2>5. \A h \in m - 1 .. n : g[h] = IF S(h) THEN g[c(h)] ELSE h
    BY <2>1, <2>2, <2>3
  <2>6. QED
    BY <2>4, <2>5
<1> HIDE DEF E
<1>3. D = {}
  <2> SUFFICES ASSUME D # {} PROVE FALSE
    OBVIOUS
  <2>1. D \in SUBSET Nat
    OBVIOUS
  <2>2. PICK k \in D : \A j \in D : k <= j
    BY <2>1, Smallest
  <2>3. k # 0
    BY <1>1, <2>2
  <2>4. k - 1 \in 0 .. n /\ k - 1 \notin D
    BY <2>2, <2>3
  <2>5. E(n - (k - 1)) /\ n - (k - 1) \in 1 .. n /\ (n - (k - 1)) - 1 = n - k
    BY <2>2, <2>3, <2>4
  <2>6. E(n - k)
    BY <1>2, <2>5
  <2>7. QED
    BY <2>2, <2>6
<1>4. E(0)
  <2>1. n \in 0 .. n /\ n - n = 0
    OBVIOUS
  <2>2. QED
    BY <1>3, <2>1
<1>5. PICK f \in [0 .. n -> Nat] : \A h \in 0 .. n : f[h] = IF S(h) THEN f[c(h)] ELSE h
  BY <1>4 DEF E
<1>6. f = [h \in 0 .. n |-> IF S(h) THEN f[c(h)] ELSE h]
  BY <1>5
<1>7. QED
  BY <1>6 DEF S, c, IsEnd

(* percolate_down() puts the timer of the hole where it comes to rest: at  *)
(* the hole or, if it sinks, somewhere behind it.                          *)
LEMMA PercolateIs ==
  ASSUME NEW a, NEW n \in Nat, NEW hole \in 0 .. n
  PROVE  \E e \in hole .. n :
            /\ Heap!Percolate(a, n, hole) = [a EXCEPT ![e] = a[hole]]
            /\ Heap!Sinks(a, n, hole, a[hole]) => e > hole /\ e < n
            /\ ~Heap!Sinks(a, n, hole, a[hole]) => e = hole
<1> DEFINE S(h) == Heap!Sinks(a, n, h, a[hole])
           c(h) == Heap!Child(a, n, h)
           rest == CHOOSE f : IsEnd(f, a, n, hole)
<1>c. \A h \in 0 .. n : S(h) => c(h) \in 0 .. n - 1 /\ c(h) > h
  BY ChildIs
<1>1. Heap!Percolate(a, n, hole) = [a EXCEPT ![rest[hole]] = a[hole]]
  BY DEF Heap!Percolate, IsEnd
<1>2. \E f : IsEnd(f, a, n, hole)
  BY EndsExist
<1>3. IsEnd(rest, a, n, hole)
  BY <1>2
<1> HIDE DEF rest
<1>4. \A h \in 0 .. n : rest[h] = IF S(h) THEN rest[c(h)] ELSE h
  BY <1>3 DEF IsEnd
<1> HIDE DEF S, c
<1> DEFINE D == {h \in 0 .. n : ~(rest[h] \in h .. n /\ (h < n => rest[h] < n))}
<1>5. D = {}
  <2> SUFFICES ASSUME D # {} PROVE FALSE
    OBVIOUS
  <2>1. PICK h \in D : \A y \in D : y <= h
    BY Largest
  <2>2. CASE S(h)
    <3>1. rest[h] = rest[c(h)] /\ c(h) \in 0 .. n - 1 /\ c(h) > h
      BY <1>c, <1>4, <2>2
    <3>2. c(h) \notin D
      BY <2>1, <3>1
    <3>3. rest[c(h)] \in c(h) .. n /\ rest[c(h)] < n
      BY <3>1, <3>2
    <3>4. QED
      BY <2>1, <3>1, <3>3
  <2>3. CASE ~S(h)
    BY <1>4, <2>1, <2>3
  <2>4. QED
    BY <2>2, <2>3
<1>6. rest[hole] \in hole .. n /\ IF S(hole) THEN rest[hole] > hole /\ rest[hole] < n ELSE rest[hole] = hole
  <2>1. CASE S(hole)
    <3>1. rest[hole] = rest[c(hole)] /\ c(hole) \in 0 .. n - 1 /\ c(hole) > hole
      BY <1>c, <1>4, <2>1
    <3>2. rest[c(hole)] \in c(hole) .. n /\ rest[c(hole)] < n
      BY <1>5, <3>1
    <3>3. QED
      BY <2>1, <3>1, <3>2
  <2>2. CASE ~S(hole)
    BY <1>4, <2>2
  <2>3. QED
    BY <2>1, <2>2
<1>7. QED
  BY <1>1, <1>6 DEF S

(* The same for the loops of add_timer(), which go from a child to its     *)
(* parent.                                                                 *)
IsUp(f, a, n, t, when) ==
    f = [h \in 0 .. n |-> IF h > 0 /\ expire[a[Heap!Parent(h)]] > when
                          THEN [f[Heap!Parent(h)] EXCEPT ![h] = a[Heap!Parent(h)]]
                          ELSE [a EXCEPT ![h] = t]]

(* Every hole has a value, as a hole only looks at the one of its parent. *)
LEMMA UpsExist ==
  ASSUME NEW a, NEW n \in Nat, NEW t, NEW when
  PROVE  \E f : IsUp(f, a, n, t, when)
<1> DEFINE D == {m \in 0 .. n : ~ \E f : IsUp(f, a, m, t, when)}
<1> SUFFICES ASSUME D # {} PROVE FALSE
  <2>1. n \in 0 .. n
    OBVIOUS
  <2>2. QED
    BY <2>1
<1>1. PICK m \in D : \A k \in D : m <= k
  <2>1. D \in SUBSET Nat
    OBVIOUS
  <2>2. QED
    BY <2>1, Smallest
<1>2. CASE m = 0
  <2> DEFINE g == [h \in 0 .. 0 |-> [a EXCEPT ![h] = t]]
  <2>1. \A h \in 0 .. 0 : ~(h > 0)
    OBVIOUS
  <2>2. IsUp(g, a, 0, t, when)
    BY <2>1 DEF IsUp
  <2>3. QED
    BY <1>1, <1>2, <2>2
<1>3. CASE m > 0
  <2>1. m - 1 \in 0 .. n /\ m - 1 \notin D
    BY <1>1, <1>3
  <2>2. PICK f : IsUp(f, a, m - 1, t, when)
    BY <2>1
  <2> DEFINE last == IF expire[a[Heap!Parent(m)]] > when
                     THEN [f[Heap!Parent(m)] EXCEPT ![m] = a[Heap!Parent(m)]]
                     ELSE [a EXCEPT ![m] = t]
             g == [h \in 0 .. m |-> IF h = m THEN last ELSE f[h]]
  <2>3. \A h \in 0 .. m : /\ h = m \/ h \in 0 .. m - 1
                          /\ h > 0 => Heap!Parent(h) \in 0 .. m - 1 /\ Heap!Parent(h) \in 0 .. m /\ Heap!Parent(h) # m
    BY ParentIs
  <2>4. \A h \in 0 .. m - 1 : f[h] = IF h > 0 /\ expire[a[Heap!Parent(h)]] > when
                                     THEN [f[Heap!Parent(h)] EXCEPT ![h] = a[Heap!Parent(h)]]
                                     ELSE [a EXCEPT ![h] = t]
    BY <2>2 DEF IsUp
  <2> HIDE DEF last
  <2>5. /\ g[m] = last
        /\ \A h \in 0 .. m : h # m => g[h] = f[h]
    BY <1>1
  <2>6. \A h \in 0 .. m : g[h] = IF h > 0 /\ expire[a[Heap!Parent(h)]] > when
                                 THEN [g[Heap!Parent(h)] EXCEPT ![h] = a[Heap!Parent(h)]]
                                 ELSE [a EXCEPT ![h] = t]
    <3> SUFFICES ASSUME NEW h \in 0 .. m
                 PROVE  g[h] = IF h > 0 /\ expire[a[Heap!Parent(h)]] > when
                               THEN [g[Heap!Parent(h)] EXCEPT ![h] = a[Heap!Parent(h)]]
                               ELSE [a EXCEPT ![h] = t]
      OBVIOUS
    <3>1. h > 0 => g[Heap!Parent(h)] = f[Heap!Parent(h)]
      BY <2>3, <2>5
    <3> HIDE DEF g
    <3>2. CASE h = m
      BY <1>3, <2>5, <3>1, <3>2 DEF last
    <3>3. CASE h # m
      BY <2>3, <2>4, <2>5, <3>1, <3>3
    <3>4. QED
      BY <3>2, <3>3
  <2>7. IsUp(g, a, m, t, when)
    BY <2>6 DEF IsUp
  <2>8. QED
    BY <1>1, <2>7
<1>4. QED
  BY <1>1, <1>2, <1>3

(* The timers the loop of add_timer() reads. *)
IsAncestors(f, a, n, when) ==
    f = [h \in 0 .. n |->
            IF h = 0 THEN {}
            ELSE {a[Heap!Parent(h)]} \cup IF expire[a[Heap!Parent(h)]] > when THEN f[Heap!Parent(h)] ELSE {}]

(* Every hole has a value. *)
LEMMA AncestorsExist ==
  ASSUME NEW a, NEW n \in Nat, NEW when
  PROVE  \E f : IsAncestors(f, a, n, when)
<1> DEFINE D == {m \in 0 .. n : ~ \E f : IsAncestors(f, a, m, when)}
<1> SUFFICES ASSUME D # {} PROVE FALSE
  <2>1. n \in 0 .. n
    OBVIOUS
  <2>2. QED
    BY <2>1
<1>1. PICK m \in D : \A k \in D : m <= k
  <2>1. D \in SUBSET Nat
    OBVIOUS
  <2>2. QED
    BY <2>1, Smallest
<1>2. CASE m = 0
  <2> DEFINE g == [h \in 0 .. 0 |-> {}]
  <2>1. \A h \in 0 .. 0 : h = 0
    OBVIOUS
  <2>2. IsAncestors(g, a, 0, when)
    BY <2>1 DEF IsAncestors
  <2>3. QED
    BY <1>1, <1>2, <2>2
<1>3. CASE m > 0
  <2>1. m - 1 \in 0 .. n /\ m - 1 \notin D
    BY <1>1, <1>3
  <2>2. PICK f : IsAncestors(f, a, m - 1, when)
    BY <2>1
  <2> DEFINE last == {a[Heap!Parent(m)]} \cup IF expire[a[Heap!Parent(m)]] > when THEN f[Heap!Parent(m)] ELSE {}
             g == [h \in 0 .. m |-> IF h = m THEN last ELSE f[h]]
  <2>3. \A h \in 0 .. m : /\ h = m \/ h \in 0 .. m - 1
                          /\ h > 0 => Heap!Parent(h) \in 0 .. m - 1 /\ Heap!Parent(h) \in 0 .. m /\ Heap!Parent(h) # m
    BY ParentIs
  <2>4. \A h \in 0 .. m - 1 : f[h] = IF h = 0 THEN {}
          ELSE {a[Heap!Parent(h)]} \cup IF expire[a[Heap!Parent(h)]] > when THEN f[Heap!Parent(h)] ELSE {}
    BY <2>2 DEF IsAncestors
  <2> HIDE DEF last
  <2>5. /\ g[m] = last
        /\ \A h \in 0 .. m : h # m => g[h] = f[h]
    BY <1>1
  <2>6. \A h \in 0 .. m : g[h] = IF h = 0 THEN {}
          ELSE {a[Heap!Parent(h)]} \cup IF expire[a[Heap!Parent(h)]] > when THEN g[Heap!Parent(h)] ELSE {}
    <3> SUFFICES ASSUME NEW h \in 0 .. m
                 PROVE  g[h] = IF h = 0 THEN {}
          ELSE {a[Heap!Parent(h)]} \cup IF expire[a[Heap!Parent(h)]] > when THEN g[Heap!Parent(h)] ELSE {}
      OBVIOUS
    <3>1. h > 0 => g[Heap!Parent(h)] = f[Heap!Parent(h)]
      BY <2>3, <2>5
    <3> HIDE DEF g
    <3>2. CASE h = m
      BY <1>3, <2>5, <3>1, <3>2 DEF last
    <3>3. CASE h # m
      <4>1. h \in 0 .. m - 1 /\ g[h] = f[h]
        BY <2>3, <2>5, <3>3
      <4>2. g[h] = IF h = 0 THEN {}
          ELSE {a[Heap!Parent(h)]} \cup IF expire[a[Heap!Parent(h)]] > when THEN f[Heap!Parent(h)] ELSE {}
        BY <2>4, <4>1
      <4>3. h = 0 \/ g[Heap!Parent(h)] = f[Heap!Parent(h)]
        BY <3>1
      <4>4. QED
        BY <4>2, <4>3, Zenon
    <3>4. QED
      BY <3>2, <3>3
  <2>7. IsAncestors(g, a, m, when)
    BY <2>6 DEF IsAncestors
  <2>8. QED
    BY <1>1, <2>7
<1>4. QED
  BY <1>1, <1>2, <1>3

(* The timers percolate_down(0) reads. *)
IsRead(f, a, n, m) ==
    f = [h \in m .. n |->
            IF 2*h + 1 >= n THEN {}
            ELSE {a[0]} \cup {a[i] : i \in {2*h + 1, 2*h + 2} \cap 0 .. n - 1}
                 \cup IF Heap!Sinks(a, n, h, a[0]) THEN f[Heap!Child(a, n, h)] ELSE {}]

(* Every hole has a value. *)
LEMMA ReadsExist ==
  ASSUME NEW a, NEW n \in Nat
  PROVE  \E f : IsRead(f, a, n, 0)
<1> DEFINE own(h) == {a[0]} \cup {a[i] : i \in {2*h + 1, 2*h + 2} \cap 0 .. n - 1}
           val(f, h) == IF 2*h + 1 >= n THEN {}
                        ELSE own(h) \cup IF Heap!Sinks(a, n, h, a[0]) THEN f[Heap!Child(a, n, h)] ELSE {}
           D == {m \in 0 .. n : ~ \E f : IsRead(f, a, n, m)}
<1> SUFFICES ASSUME D # {} PROVE FALSE
  <2>1. 0 \in 0 .. n
    OBVIOUS
  <2>2. QED
    BY <2>1
<1>1. PICK m \in D : \A k \in D : k <= m
  BY Largest
<1>2. m \in 0 .. n /\ ~ \E f : IsRead(f, a, n, m)
  BY <1>1
<1>3. CASE m = n
  <2> DEFINE g == [h \in n .. n |-> {}]
  <2>1. \A h \in n .. n : 2*h + 1 >= n
    OBVIOUS
  <2>2. IsRead(g, a, n, n)
    BY <2>1 DEF IsRead
  <2>3. QED
    BY <1>2, <1>3, <2>2
<1>4. CASE m < n
  <2>1. m + 1 \in 0 .. n /\ m + 1 \notin D
    BY <1>1, <1>2, <1>4
  <2>2. PICK f : IsRead(f, a, n, m + 1)
    BY <2>1
  <2> DEFINE g == [h \in m .. n |-> IF h = m THEN val(f, m) ELSE f[h]]
  <2>3. \A h \in m .. n : /\ h = m \/ h \in m + 1 .. n
                          /\ h \in Nat
                          /\ Heap!Sinks(a, n, h, a[0]) => Heap!Child(a, n, h) \in m + 1 .. n /\ Heap!Child(a, n, h) \in m .. n
                                                     /\ Heap!Child(a, n, h) # m
    BY ChildIs
  <2>4. \A h \in m + 1 .. n : f[h] = val(f, h)
    BY <2>2 DEF IsRead
  <2> HIDE DEF own
  <2>5. /\ g[m] = val(f, m)
        /\ \A h \in m .. n : h # m => g[h] = f[h]
    BY <1>2
  <2>6. ASSUME NEW h \in m .. n PROVE g[h] = val(g, h)
    <3>1. Heap!Sinks(a, n, h, a[0]) => g[Heap!Child(a, n, h)] = f[Heap!Child(a, n, h)]
      BY <2>3, <2>5
    <3> HIDE DEF g
    <3>2. val(g, h) = val(f, h)
      BY <3>1
    <3> HIDE DEF val
    <3>3. g[h] = val(f, h)
      BY <2>3, <2>4, <2>5
    <3>4. QED
      BY <3>2, <3>3
  <2>7. g = [h \in m .. n |-> val(g, h)]
    <3> HIDE DEF val
    <3>1. g = [h \in m .. n |-> g[h]]
      OBVIOUS
    <3> HIDE DEF g
    <3>2. QED
      BY <2>6, <3>1, Zenon
  <2>8. IsRead(g, a, n, m)
    <3> HIDE DEF g
    <3>1. QED
      BY <2>7 DEF IsRead, own
  <2>9. QED
    BY <1>2, <2>8
<1>5. QED
  BY <1>2, <1>3, <1>4

-------------------------------------------------------------------------------
(* What the loops read *)

(* ReadOf(a, n) when the timer at the top does not sink: it and its        *)
(* children.                                                               *)
LEMMA ReadIs ==
  ASSUME NEW a, NEW n \in Nat, ~Heap!Sinks(a, n, 0, a[0])
  PROVE  Heap!ReadOf(a, n) \subseteq {a[i] : i \in 0 .. n - 1}
<1> DEFINE read == CHOOSE f : IsRead(f, a, n, 0)
<1>1. Heap!ReadOf(a, n) = read[0]
  BY DEF Heap!ReadOf, IsRead
<1>2. IsRead(read, a, n, 0)
  BY ReadsExist
<1> HIDE DEF read
<1>3. 0 \in 0 .. n /\ 2*0 + 1 = 1 /\ 2*0 + 2 = 2
  OBVIOUS
<1>4. read[0] = IF 1 >= n THEN {} ELSE {a[0]} \cup {a[i] : i \in {1, 2} \cap 0 .. n - 1} \cup {}
  BY <1>2, <1>3 DEF IsRead
<1>5. QED
  BY <1>1, <1>4

(* The timers add_timer() reads lie before the new one. *)
LEMMA AncestorsAre ==
  ASSUME NEW a, NEW n \in Nat, NEW when, NEW f, IsAncestors(f, a, n, when)
  PROVE  \A h \in 0 .. n : f[h] \subseteq {a[i] : i \in 0 .. n - 1}
<1> DEFINE all == {a[i] : i \in 0 .. n - 1}
           D == {h \in 0 .. n : ~(f[h] \subseteq all)}
<1> SUFFICES ASSUME D # {} PROVE FALSE
  OBVIOUS
<1>1. PICK h \in D : \A k \in D : h <= k
  <2>1. D \in SUBSET Nat
    OBVIOUS
  <2>2. QED
    BY <2>1, Smallest
<1>2. f[h] = IF h = 0 THEN {}
             ELSE {a[Heap!Parent(h)]} \cup IF expire[a[Heap!Parent(h)]] > when THEN f[Heap!Parent(h)] ELSE {}
  BY <1>1 DEF IsAncestors
<1>3. CASE h = 0
  BY <1>1, <1>2, <1>3
<1>4. CASE h # 0
  <2>1. Heap!Parent(h) \in 0 .. n - 1 /\ Heap!Parent(h) \in 0 .. n /\ Heap!Parent(h) < h
    BY <1>1, <1>4, ParentIs
  <2>2. f[Heap!Parent(h)] \subseteq all
    BY <1>1, <2>1
  <2>3. a[Heap!Parent(h)] \in all
    BY <2>1
  <2> HIDE DEF all
  <2>4. f[h] \subseteq all
    BY <1>2, <1>4, <2>2, <2>3
  <2>5. QED
    BY <1>1, <2>4
<1>5. QED
  BY <1>3, <1>4

-------------------------------------------------------------------------------
(* percolate_down() when it changes nothing *)

(* The first n slots of a hold different timers, ...                       *)
Distinct(a, n) == \A i, j \in 0 .. n - 1 : a[i] = a[j] => i = j

(* ... in the order of a heap. *)
Ordered(a, n, ex) == \A i \in 1 .. n - 1 : ex[a[Heap!Parent(i)]] <= ex[a[i]]

(* As long as percolate_down() changes nothing, the timer at the hole is   *)
(* not later than its children.                                            *)
LEMMA NotMoved ==
  ASSUME NEW n \in Nat, NEW c \in Nat, n <= c, NEW X, NEW a \in [0 .. c - 1 -> X],
         NEW hole \in 0 .. n, Distinct(a, n), ~Heap!Moves(a, n, hole)
  PROVE  ~Heap!Sinks(a, n, hole, a[hole])
<1> SUFFICES ASSUME Heap!Sinks(a, n, hole, a[hole]) PROVE FALSE
  OBVIOUS
<1>1. PICK e \in hole .. n : /\ Heap!Percolate(a, n, hole) = [a EXCEPT ![e] = a[hole]]
                             /\ e > hole /\ e < n
  BY PercolateIs
<1>2. a = [a EXCEPT ![e] = a[hole]]
  BY <1>1 DEF Heap!Moves
<1>3. e \in 0 .. c - 1 /\ e \in 0 .. n - 1 /\ hole \in 0 .. n - 1 /\ e # hole
  BY <1>1
<1>4. a[e] = a[hole]
  BY <1>2, <1>3
<1>5. QED
  BY <1>3, <1>4 DEF Distinct

(* A timer that does not sink is not later than its children. *)
LEMMA AboveItsChildren ==
  ASSUME NEW n \in Nat, NEW a, \A i \in 0 .. n - 1 : expire[a[i]] \in Nat,
         NEW i \in 1 .. n - 1, ~Heap!Sinks(a, n, Heap!Parent(i), a[Heap!Parent(i)])
  PROVE  expire[a[Heap!Parent(i)]] <= expire[a[i]]
<1> DEFINE h == Heap!Parent(i)
<1>1. h \in 0 .. n - 1 /\ h < i /\ (i = 2*h + 1 \/ i = 2*h + 2) /\ 2*h + 1 < n /\ 2*h + 1 \in 0 .. n - 1
  BY ParentIs
<1> HIDE DEF h
<1>2. ~(expire[a[Heap!Child(a, n, h)]] < expire[a[h]])
  BY <1>1 DEF Heap!Sinks, h
<1>3. CASE 2*h + 2 < n /\ expire[a[2*h + 2]] < expire[a[2*h + 1]]
  <2>1. Heap!Child(a, n, h) = 2*h + 2 /\ 2*h + 2 \in 0 .. n - 1
    BY <1>1, <1>3 DEF Heap!Child
  <2>2. expire[a[h]] <= expire[a[2*h + 2]] /\ expire[a[2*h + 2]] <= expire[a[2*h + 1]]
        /\ expire[a[h]] <= expire[a[2*h + 1]]
    BY <1>1, <1>2, <1>3, <2>1
  <2>3. QED
    BY <1>1, <2>2 DEF h
<1>4. CASE ~(2*h + 2 < n /\ expire[a[2*h + 2]] < expire[a[2*h + 1]])
  <2>1. Heap!Child(a, n, h) = 2*h + 1
    BY <1>4 DEF Heap!Child
  <2>2. expire[a[h]] <= expire[a[2*h + 1]]
    BY <1>1, <1>2, <2>1
  <2>3. i = 2*h + 2 => expire[a[2*h + 1]] <= expire[a[2*h + 2]] /\ expire[a[h]] <= expire[a[2*h + 2]]
    <3> SUFFICES ASSUME i = 2*h + 2
                 PROVE  expire[a[2*h + 1]] <= expire[a[2*h + 2]] /\ expire[a[h]] <= expire[a[2*h + 2]]
      OBVIOUS
    <3>1. 2*h + 2 \in 0 .. n - 1 /\ 2*h + 2 < n
      BY <1>1
    <3>2. ~(expire[a[2*h + 2]] < expire[a[2*h + 1]])
      BY <1>4, <3>1
    <3>3. QED
      BY <1>1, <2>2, <3>1, <3>2
  <2>4. QED
    BY <1>1, <2>2, <2>3 DEF h
<1>5. QED
  BY <1>3, <1>4

-------------------------------------------------------------------------------
(* What add_timer() makes of the array *)

(* What add_timer() has made of a when the place that frees is h: t and    *)
(* the timers of the first n slots but that of h are in these slots and in *)
(* h, each once, ...                                                       *)
Span(n, h) == 0 .. n - 1 \cup {h}

Placed(u, a, n, t, h) ==
    /\ \A i \in Span(n, h) : u[i] = t \/ \E j \in 0 .. n - 1 : j # h /\ u[i] = a[j]
    /\ \A j \in 0 .. n - 1 : j # h => \E i \in Span(n, h) : u[i] = a[j]
    /\ \E i \in Span(n, h) : u[i] = t
    /\ \A i, j \in Span(n, h) : u[i] = u[j] => i = j

(* ... and in order, the timer at h not later than the one that was there. *)
Sorted(u, a, n, ex, h) ==
    /\ \A i \in 1 .. n : i < n \/ i = h => ex[u[Heap!Parent(i)]] <= ex[u[i]]
    /\ h < n => ex[u[h]] <= ex[a[h]]

(* Each round of its loop only touches slots up to h.                     *)
KeepsAbove(u, a, c, X, h) ==
    u \in [0 .. c - 1 -> X] /\ \A i \in 0 .. c - 1 : i > h => u[i] = a[i]

(* A round keeps the types and leaves what is behind h alone. *)
LEMMA UpTypes ==
  ASSUME NEW c \in Nat, NEW X, NEW a \in [0 .. c - 1 -> X], NEW n \in 0 .. c - 1, NEW t \in X, NEW when,
         NEW f, IsUp(f, a, n, t, when)
  PROVE  \A h \in 0 .. n : KeepsAbove(f[h], a, c, X, h)
<1> DEFINE OK(h) == f[h] \in [0 .. c - 1 -> X] /\ \A i \in 0 .. c - 1 : i > h => f[h][i] = a[i]
           D == {h \in 0 .. n : ~OK(h)}
<1> SUFFICES ASSUME D # {} PROVE FALSE
  BY DEF KeepsAbove
<1>1. PICK h \in D : \A k \in D : h <= k
  <2>1. D \in SUBSET Nat
    OBVIOUS
  <2>2. QED
    BY <2>1, Smallest
<1>2. h \in 0 .. n /\ h \in 0 .. c - 1
  BY <1>1
<1>3. f[h] = IF h > 0 /\ expire[a[Heap!Parent(h)]] > when
             THEN [f[Heap!Parent(h)] EXCEPT ![h] = a[Heap!Parent(h)]]
             ELSE [a EXCEPT ![h] = t]
  BY <1>2 DEF IsUp
<1>4. CASE h > 0 /\ expire[a[Heap!Parent(h)]] > when
  <2>1. Heap!Parent(h) \in 0 .. n /\ Heap!Parent(h) \in 0 .. c - 1 /\ Heap!Parent(h) < h
    BY <1>2, <1>4, ParentIs
  <2>2. OK(Heap!Parent(h))
    BY <1>1, <2>1
  <2>3. OK(h)
    BY <1>2, <1>3, <1>4, <2>1, <2>2
  <2>4. QED
    BY <1>1, <2>3
<1>5. CASE ~(h > 0 /\ expire[a[Heap!Parent(h)]] > when)
  <2>1. OK(h)
    BY <1>2, <1>3, <1>5
  <2>2. QED
    BY <1>1, <2>1
<1>6. QED
  BY <1>4, <1>5

(* The last round puts t at h: *)
LEMMA PutsT ==
  ASSUME NEW c \in Nat, NEW X, NEW a \in [0 .. c - 1 -> X], NEW n \in 0 .. c - 1, NEW t \in X,
         NEW h \in 0 .. n, Distinct(a, n), \A i \in 0 .. n - 1 : a[i] # t
  PROVE  Placed([a EXCEPT ![h] = t], a, n, t, h)
<1> DEFINE u == [a EXCEPT ![h] = t]
<1>1. \A i \in Span(n, h) : i \in 0 .. c - 1 /\ (i # h => i \in 0 .. n - 1)
  BY DEF Span
<1>2. \A i \in Span(n, h) : u[i] = IF i = h THEN t ELSE a[i]
  BY <1>1
<1>3. h \in Span(n, h) /\ \A j \in 0 .. n - 1 : j \in Span(n, h)
  BY DEF Span
<1> HIDE DEF u
<1>4. \A i \in Span(n, h) : u[i] = t \/ \E j \in 0 .. n - 1 : j # h /\ u[i] = a[j]
  BY <1>1, <1>2
<1>5. \A j \in 0 .. n - 1 : j # h => \E i \in Span(n, h) : u[i] = a[j]
  BY <1>2, <1>3
<1>6. \E i \in Span(n, h) : u[i] = t
  BY <1>2, <1>3
<1>7. \A i, j \in Span(n, h) : u[i] = u[j] => i = j
  BY <1>1, <1>2 DEF Distinct
<1>8. QED
  BY <1>4, <1>5, <1>6, <1>7 DEF Placed, u

(* An earlier one moves the parent down to h. *)
LEMMA MovesDown ==
  ASSUME NEW c \in Nat, NEW X, NEW a \in [0 .. c - 1 -> X], NEW n \in 0 .. c - 1, NEW t \in X,
         NEW h \in 1 .. n, Distinct(a, n), \A i \in 0 .. n - 1 : a[i] # t,
         NEW v \in [0 .. c - 1 -> X], \A i \in 0 .. c - 1 : i > Heap!Parent(h) => v[i] = a[i],
         Placed(v, a, n, t, Heap!Parent(h))
  PROVE  Placed([v EXCEPT ![h] = a[Heap!Parent(h)]], a, n, t, h)
<1> DEFINE p == Heap!Parent(h)
           u == [v EXCEPT ![h] = a[p]]
<1>1. p \in 0 .. n - 1 /\ p < h /\ h \in 0 .. c - 1 /\ p # h
  BY ParentIs
<1>2. \A i \in 0 .. c - 1 : i > p => v[i] = a[i]
  OBVIOUS
<1>3. Placed(v, a, n, t, p)
  OBVIOUS
<1> HIDE DEF p
<1>4. Span(n, p) = 0 .. n - 1
  BY <1>1 DEF Span
<1>5. /\ \A i \in Span(n, h) : i \in 0 .. c - 1 /\ (i # h => i \in 0 .. n - 1)
      /\ h \in Span(n, h) /\ \A j \in 0 .. n - 1 : j \in Span(n, h)
  BY DEF Span
<1>6. \A i \in Span(n, h) : u[i] = IF i = h THEN a[p] ELSE v[i]
  BY <1>5
<1> HIDE DEF u
<1>7. h \in 0 .. n - 1 => v[h] = a[h] /\ a[h] # t
  BY <1>1, <1>2
<1>8. /\ \A i \in 0 .. n - 1 : v[i] = t \/ \E j \in 0 .. n - 1 : j # p /\ v[i] = a[j]
      /\ \A j \in 0 .. n - 1 : j # p => \E i \in 0 .. n - 1 : v[i] = a[j]
      /\ \E i \in 0 .. n - 1 : v[i] = t
      /\ \A i, j \in 0 .. n - 1 : v[i] = v[j] => i = j
  BY <1>3, <1>4 DEF Placed
<1>9. \A i, j \in 0 .. n - 1 : a[i] = a[j] => i = j
  BY DEF Distinct
<1>10. \A i \in 0 .. n - 1 : i # h => v[i] = t \/ \E j \in 0 .. n - 1 : j # p /\ j # h /\ v[i] = a[j]
  <2> SUFFICES ASSUME NEW i \in 0 .. n - 1, i # h, v[i] # t
               PROVE  \E j \in 0 .. n - 1 : j # p /\ j # h /\ v[i] = a[j]
    OBVIOUS
  <2>1. PICK j \in 0 .. n - 1 : j # p /\ v[i] = a[j]
    BY <1>8
  <2>2. j # h
    <3> SUFFICES ASSUME j = h PROVE FALSE
      OBVIOUS
    <3>1. h \in 0 .. n - 1 /\ v[i] = v[h]
      BY <1>7, <2>1
    <3>2. QED
      BY <1>8, <3>1
  <2>3. QED
    BY <2>1, <2>2
<1>11. \A i \in Span(n, h) : u[i] = t \/ \E j \in 0 .. n - 1 : j # h /\ u[i] = a[j]
  BY <1>1, <1>5, <1>6, <1>10
<1>12. \A j \in 0 .. n - 1 : j # h => \E i \in Span(n, h) : u[i] = a[j]
  <2> SUFFICES ASSUME NEW j \in 0 .. n - 1, j # h PROVE \E i \in Span(n, h) : u[i] = a[j]
    OBVIOUS
  <2>1. CASE j = p
    BY <1>5, <1>6, <2>1
  <2>2. CASE j # p
    <3>1. PICK i \in 0 .. n - 1 : v[i] = a[j]
      BY <1>8, <2>2
    <3>2. i # h
      <4> SUFFICES ASSUME i = h PROVE FALSE
        OBVIOUS
      <4>1. a[h] = a[j] /\ h \in 0 .. n - 1
        BY <1>7, <3>1
      <4>2. QED
        BY <1>9, <4>1
    <3>3. QED
      BY <1>5, <1>6, <3>1, <3>2
  <2>3. QED
    BY <2>1, <2>2
<1>13. \E i \in Span(n, h) : u[i] = t
  <2>1. PICK i \in 0 .. n - 1 : v[i] = t
    BY <1>8
  <2>2. i # h
    BY <1>7, <2>1
  <2>3. QED
    BY <1>5, <1>6, <2>1, <2>2
<1>14. \A i \in Span(n, h) : i # h => u[i] # a[p]
  <2> SUFFICES ASSUME NEW i \in Span(n, h), i # h, v[i] = a[p] PROVE FALSE
    BY <1>6
  <2>1. i \in 0 .. n - 1 /\ v[i] # t
    BY <1>1, <1>5
  <2>2. PICK j \in 0 .. n - 1 : j # p /\ v[i] = a[j]
    BY <1>8, <2>1
  <2>3. QED
    BY <1>1, <1>9, <2>2
<1>15. \A i, j \in Span(n, h) : u[i] = u[j] => i = j
  BY <1>5, <1>6, <1>8, <1>14
<1>16. QED
  BY <1>11, <1>12, <1>13, <1>15 DEF Placed, u, p

(* t may come to rest at h if neither its parent nor what was there        *)
(* objects.                                                                *)
LEMMA PutInOrder ==
  ASSUME NEW c \in Nat, NEW X, NEW a \in [0 .. c - 1 -> X], NEW n \in 0 .. c - 1, NEW t,
         NEW h \in 0 .. n, NEW ex, Ordered(a, n, ex), \A i \in 0 .. n - 1 : ex[a[i]] \in Nat,
         ex[t] \in Nat, h < n => ex[t] <= ex[a[h]], h > 0 => ex[a[Heap!Parent(h)]] <= ex[t]
  PROVE  Sorted([a EXCEPT ![h] = t], a, n, ex, h)
<1> DEFINE u == [a EXCEPT ![h] = t]
<1>1. h \in 0 .. c - 1 /\ h \in Nat
  OBVIOUS
<1>2. \A i \in 0 .. c - 1 : u[i] = IF i = h THEN t ELSE a[i]
  BY <1>1
<1> HIDE DEF u
<1>3. ASSUME NEW i \in 1 .. n, i < n \/ i = h
      PROVE  ex[u[Heap!Parent(i)]] <= ex[u[i]]
  <2>1. /\ Heap!Parent(i) \in 0 .. n - 1 /\ Heap!Parent(i) \in 0 .. c - 1 /\ Heap!Parent(i) < i /\ i \in 0 .. c - 1
    BY ParentIs
  <2>2. CASE i = h
    BY <1>2, <2>1, <2>2
  <2>3. CASE i # h
    <3>1. i \in 1 .. n - 1 /\ i \in 0 .. n - 1 /\ u[i] = a[i]
      BY <1>2, <1>3, <2>1, <2>3
    <3>2. ex[a[Heap!Parent(i)]] <= ex[a[i]]
      BY <3>1 DEF Ordered
    <3>3. CASE Heap!Parent(i) = h
      <4>1. u[Heap!Parent(i)] = t /\ h < n
        BY <1>2, <2>1, <3>3
      <4>2. ex[t] <= ex[a[Heap!Parent(i)]]
        BY <3>3, <4>1
      <4>3. ex[a[Heap!Parent(i)]] \in Nat /\ ex[a[i]] \in Nat
        BY <2>1, <3>1
      <4>4. QED
        BY <3>1, <3>2, <4>1, <4>2, <4>3
    <3>4. CASE Heap!Parent(i) # h
      BY <1>2, <2>1, <3>1, <3>2, <3>4
    <3>5. QED
      BY <3>3, <3>4
  <2>4. QED
    BY <2>2, <2>3
<1>4. h < n => ex[u[h]] <= ex[a[h]]
  BY <1>1, <1>2
<1>5. QED
  BY <1>3, <1>4 DEF Sorted, u

(* The parent may move down to h: it is not later than what was there. *)
LEMMA MoveInOrder ==
  ASSUME NEW c \in Nat, NEW X, NEW a \in [0 .. c - 1 -> X], NEW n \in 0 .. c - 1,
         NEW h \in 1 .. n, NEW ex, Ordered(a, n, ex), \A i \in 0 .. n - 1 : ex[a[i]] \in Nat,
         NEW v \in [0 .. c - 1 -> X], \A i \in 0 .. c - 1 : i > Heap!Parent(h) => v[i] = a[i],
         Sorted(v, a, n, ex, Heap!Parent(h))
  PROVE  Sorted([v EXCEPT ![h] = a[Heap!Parent(h)]], a, n, ex, h)
<1> DEFINE p == Heap!Parent(h)
           u == [v EXCEPT ![h] = a[p]]
<1>1. p \in 0 .. n - 1 /\ p < h /\ h \in 0 .. c - 1 /\ p \in 0 .. c - 1 /\ p # h
  BY ParentIs
<1>2. \A i \in 0 .. c - 1 : i > p => v[i] = a[i]
  OBVIOUS
<1>3. \A i \in 1 .. n - 1 : ex[v[Heap!Parent(i)]] <= ex[v[i]]
  BY DEF Sorted
<1>4. ex[v[p]] <= ex[a[p]]
  BY <1>1 DEF Sorted
<1>5. h < n => ex[a[p]] <= ex[a[h]]
  BY DEF Ordered
<1>6. h = Heap!Parent(h) \/ Heap!Parent(h) = p
  OBVIOUS
<1> HIDE DEF p
<1>7. \A i \in 0 .. c - 1 : u[i] = IF i = h THEN a[p] ELSE v[i]
  BY <1>1
<1> HIDE DEF u
<1>8. ASSUME NEW i \in 1 .. n, i < n \/ i = h
      PROVE  ex[u[Heap!Parent(i)]] <= ex[u[i]]
  <2>1. /\ Heap!Parent(i) \in 0 .. n - 1 /\ Heap!Parent(i) \in 0 .. c - 1 /\ Heap!Parent(i) < i /\ i \in 0 .. c - 1
    BY ParentIs
  <2>2. CASE i = h
    <3>1. u[Heap!Parent(i)] = v[p] /\ u[i] = a[p]
      BY <1>1, <1>7, <2>1, <2>2 DEF p
    <3>2. QED
      BY <1>4, <3>1
  <2>3. CASE i # h
    <3>1. i \in 1 .. n - 1 /\ i \in 0 .. n - 1 /\ u[i] = v[i]
      BY <1>7, <1>8, <2>1, <2>3
    <3>2. ex[v[Heap!Parent(i)]] <= ex[v[i]]
      BY <1>3, <3>1
    <3>3. CASE Heap!Parent(i) = h
      <4>1. u[Heap!Parent(i)] = a[p] /\ h < n /\ i > p /\ h \in 0 .. n - 1
        BY <1>1, <1>7, <2>1, <3>3
      <4>2. v[i] = a[i] /\ v[h] = a[h]
        BY <1>1, <1>2, <2>1, <4>1
      <4>3. ex[a[p]] \in Nat /\ ex[a[i]] \in Nat /\ ex[a[h]] \in Nat
        BY <1>1, <3>1, <4>1
      <4>4. ex[a[p]] <= ex[a[h]] /\ ex[a[h]] <= ex[a[i]]
        BY <1>5, <3>2, <3>3, <4>1, <4>2
      <4>5. QED
        BY <3>1, <4>1, <4>2, <4>3, <4>4
    <3>4. CASE Heap!Parent(i) # h
      BY <1>7, <2>1, <3>1, <3>2, <3>4
    <3>5. QED
      BY <3>3, <3>4
  <2>4. QED
    BY <2>2, <2>3
<1>9. h < n => ex[u[h]] <= ex[a[h]]
  BY <1>1, <1>5, <1>7
<1>10. QED
  BY <1>8, <1>9 DEF Sorted, u, p

(* add_timer() puts t among the n timers of a heap and leaves a heap. *)
LEMMA RoundsAreRight ==
  ASSUME NEW c \in Nat, NEW X, NEW a \in [0 .. c - 1 -> X], NEW n \in 0 .. c - 1, NEW t \in X,
         NEW when, NEW f, IsUp(f, a, n, t, when), NEW ex,
         Distinct(a, n), \A i \in 0 .. n - 1 : a[i] # t,
         Ordered(a, n, ex), \A i \in 0 .. n - 1 : ex[a[i]] \in Nat /\ ex[a[i]] = expire[a[i]],
         ex[t] \in Nat, ex[t] = when
  PROVE  \A h \in 0 .. n : (h < n => when <= ex[a[h]]) =>
            Placed(f[h], a, n, t, h) /\ Sorted(f[h], a, n, ex, h)
<1> DEFINE OK(h) == (h < n => when <= ex[a[h]]) =>
                       Placed(f[h], a, n, t, h) /\ Sorted(f[h], a, n, ex, h)
           D == {h \in 0 .. n : ~OK(h)}
<1> SUFFICES ASSUME D # {} PROVE FALSE
  OBVIOUS
<1>1. PICK h \in D : \A k \in D : h <= k
  <2>1. D \in SUBSET Nat
    OBVIOUS
  <2>2. QED
    BY <2>1, Smallest
<1>2. h \in 0 .. n /\ (h < n => when <= ex[a[h]]) /\ ~(Placed(f[h], a, n, t, h) /\ Sorted(f[h], a, n, ex, h))
  BY <1>1
<1>3. f[h] = IF h > 0 /\ expire[a[Heap!Parent(h)]] > when
             THEN [f[Heap!Parent(h)] EXCEPT ![h] = a[Heap!Parent(h)]]
             ELSE [a EXCEPT ![h] = t]
  BY <1>2 DEF IsUp
<1>4. h > 0 => /\ Heap!Parent(h) \in 0 .. n - 1 /\ Heap!Parent(h) \in 0 .. n /\ Heap!Parent(h) < h
               /\ ex[a[Heap!Parent(h)]] \in Nat /\ ex[a[Heap!Parent(h)]] = expire[a[Heap!Parent(h)]]
  BY <1>2, ParentIs
<1>5. CASE h > 0 /\ expire[a[Heap!Parent(h)]] > when
  <2>1. Heap!Parent(h) \notin D
    BY <1>1, <1>2, <1>4, <1>5
  <2>2. when <= ex[a[Heap!Parent(h)]]
    BY <1>4, <1>5
  <2>3. Placed(f[Heap!Parent(h)], a, n, t, Heap!Parent(h)) /\ Sorted(f[Heap!Parent(h)], a, n, ex, Heap!Parent(h))
    BY <1>4, <1>5, <2>1, <2>2
  <2>4. /\ f[Heap!Parent(h)] \in [0 .. c - 1 -> X]
        /\ \A i \in 0 .. c - 1 : i > Heap!Parent(h) => f[Heap!Parent(h)][i] = a[i]
    <3>1. \A g \in 0 .. n : KeepsAbove(f[g], a, c, X, g)
      BY UpTypes
    <3>2. QED
      BY <1>4, <1>5, <3>1 DEF KeepsAbove
  <2>5. h \in 1 .. n
    BY <1>2, <1>5
  <2>6. Placed([f[Heap!Parent(h)] EXCEPT ![h] = a[Heap!Parent(h)]], a, n, t, h)
    BY <2>3, <2>4, <2>5, MovesDown
  <2>7. Sorted([f[Heap!Parent(h)] EXCEPT ![h] = a[Heap!Parent(h)]], a, n, ex, h)
    BY <2>3, <2>4, <2>5, MoveInOrder
  <2>8. QED
    BY <1>2, <1>3, <1>5, <2>6, <2>7
<1>6. CASE ~(h > 0 /\ expire[a[Heap!Parent(h)]] > when)
  <2>1. h > 0 => ex[a[Heap!Parent(h)]] <= ex[t]
    BY <1>4, <1>6
  <2>2. Placed([a EXCEPT ![h] = t], a, n, t, h)
    BY <1>2, PutsT
  <2>3. Sorted([a EXCEPT ![h] = t], a, n, ex, h)
    BY <1>2, <2>1, PutInOrder
  <2>4. QED
    BY <1>2, <1>3, <1>6, <2>2, <2>3
<1>7. QED
  BY <1>5, <1>6

(* What Raise returns, for a heap a of cur_size timers with room for t. *)
LEMMA RaiseIs ==
  ASSUME NEW c \in Nat, NEW X, NEW a \in [0 .. c - 1 -> X], cur_size \in 0 .. c - 1, NEW t \in X,
         NEW when
  PROVE  /\ Heap!Raise(a, t, when) \in [0 .. c - 1 -> X]
         /\ \A i \in 0 .. c - 1 : i > cur_size => Heap!Raise(a, t, when)[i] = a[i]
<1> DEFINE up == CHOOSE f : IsUp(f, a, cur_size, t, when)
<1>1. Heap!Raise(a, t, when) = up[cur_size]
  BY DEF Heap!Raise, IsUp
<1>2. IsUp(up, a, cur_size, t, when)
  <2>1. cur_size \in Nat
    OBVIOUS
  <2>2. \E f : IsUp(f, a, cur_size, t, when)
    BY <2>1, UpsExist
  <2>3. QED
    BY <2>2
<1> HIDE DEF up
<1>3. \A h \in 0 .. cur_size : KeepsAbove(up[h], a, c, X, h)
  BY <1>2, UpTypes
<1>4. cur_size \in 0 .. cur_size
  OBVIOUS
<1>5. QED
  BY <1>1, <1>3, <1>4 DEF KeepsAbove

(* r holds t and the n timers of a. *)
Adds(r, a, n, t, ex) ==
    /\ {r[i] : i \in 0 .. n} = {a[i] : i \in 0 .. n - 1} \cup {t}
    /\ Distinct(r, n + 1)
    /\ Ordered(r, n + 1, ex)

(* The heap add_timer() leaves: t and the timers of before, in order. *)
LEMMA RaiseKeepsHeap ==
  ASSUME NEW c \in Nat, NEW X, NEW a \in [0 .. c - 1 -> X], cur_size \in 0 .. c - 1, NEW t \in X,
         NEW when, NEW ex,
         Distinct(a, cur_size), \A i \in 0 .. cur_size - 1 : a[i] # t,
         Ordered(a, cur_size, ex),
         \A i \in 0 .. cur_size - 1 : ex[a[i]] \in Nat /\ ex[a[i]] = expire[a[i]],
         ex[t] \in Nat, ex[t] = when
  PROVE  Adds(Heap!Raise(a, t, when), a, cur_size, t, ex)
<1> DEFINE up == CHOOSE f : IsUp(f, a, cur_size, t, when)
           n == cur_size
           r == Heap!Raise(a, t, when)
<1>1. r = up[n]
  BY DEF Heap!Raise, IsUp
<1>2. IsUp(up, a, n, t, when)
  <2>1. n \in Nat
    OBVIOUS
  <2>2. \E f : IsUp(f, a, n, t, when)
    BY <2>1, UpsExist
  <2>3. QED
    BY <2>2
<1> HIDE DEF up, r
<1>3. n \in 0 .. c - 1 /\ n \in 0 .. n /\ ~(n < n)
  OBVIOUS
<1>4. \A h \in 0 .. n : (h < n => when <= ex[a[h]]) => Placed(up[h], a, n, t, h) /\ Sorted(up[h], a, n, ex, h)
  BY <1>2, <1>3, RoundsAreRight
<1>5. Placed(r, a, n, t, n) /\ Sorted(r, a, n, ex, n)
  BY <1>1, <1>3, <1>4
<1>6. Span(n, n) = 0 .. n /\ (n + 1) - 1 = n
  BY <1>3 DEF Span
<1>7. \A j \in 0 .. n - 1 : j # n
  BY <1>3
<1>8. {r[i] : i \in 0 .. n} = {a[i] : i \in 0 .. n - 1} \cup {t}
  <2> HIDE DEF n
  <2>1. /\ \A i \in 0 .. n : r[i] = t \/ \E j \in 0 .. n - 1 : r[i] = a[j]
        /\ \A j \in 0 .. n - 1 : \E i \in 0 .. n : r[i] = a[j]
        /\ \E i \in 0 .. n : r[i] = t
    BY <1>5, <1>6, <1>7 DEF Placed
  <2>2. QED
    BY <2>1
<1>9. Distinct(r, n + 1)
  BY <1>5, <1>6 DEF Placed, Distinct
<1>10. Ordered(r, n + 1, ex)
  <2> HIDE DEF n
  <2>1. \A i \in 1 .. n : i < n \/ i = n
    BY <1>3
  <2>2. QED
    BY <1>5, <1>6, <2>1 DEF Sorted, Ordered
<1>11. QED
  BY <1>8, <1>9, <1>10 DEF Adds, r

-------------------------------------------------------------------------------
(* What the constructors make of the array *)

(* Init builds an array of the given timers from the back: built has a     *)
(* value everywhere.                                                       *)
IsBuilt(f, base, n) ==
    f = [i \in 0 .. n |-> IF 2*i > n - 1 THEN base ELSE Heap!Percolate(f[i + 1], n, i)]

(* Every hole has a value, as a hole only looks at the next one. *)
LEMMA BuiltsExist ==
  ASSUME NEW base, NEW n \in Nat
  PROVE  \E f : IsBuilt(f, base, n)
<1> DEFINE Part(m) == \E f : f = [i \in m .. n |-> IF 2*i > n - 1 THEN base ELSE Heap!Percolate(f[i + 1], n, i)]
           D == {m \in 0 .. n : ~Part(m)}
<1> SUFFICES ASSUME D # {} PROVE FALSE
  <2>1. 0 \in 0 .. n
    OBVIOUS
  <2>2. QED
    BY <2>1 DEF IsBuilt
<1>1. PICK m \in D : \A k \in D : k <= m
  BY Largest
<1>2. m \in 0 .. n /\ ~Part(m)
  BY <1>1
<1>3. CASE m = n
  <2> DEFINE last == IF 2*n > n - 1 THEN base ELSE base
             g == [i \in n .. n |-> base]
  <2>1. \A i \in n .. n : 2*i > n - 1
    OBVIOUS
  <2>2. g = [i \in n .. n |-> IF 2*i > n - 1 THEN base ELSE Heap!Percolate(g[i + 1], n, i)]
    BY <2>1
  <2>3. QED
    BY <1>2, <1>3, <2>2
<1>4. CASE m < n
  <2>1. m + 1 \in 0 .. n /\ m + 1 \notin D
    BY <1>1, <1>2, <1>4
  <2> DEFINE val(f, i) == IF 2*i > n - 1 THEN base ELSE Heap!Percolate(f[i + 1], n, i)
  <2>2. PICK f : f = [i \in m + 1 .. n |-> val(f, i)]
    BY <2>1
  <2> DEFINE g == [i \in m .. n |-> IF i = m THEN val(f, m) ELSE f[i]]
  <2>3. \A i \in m .. n : /\ i = m \/ i \in m + 1 .. n
                          /\ i \in Nat
                          /\ ~(2*i > n - 1) => i + 1 \in m .. n /\ i + 1 # m
    OBVIOUS
  <2>4. \A i \in m + 1 .. n : f[i] = val(f, i)
    BY <2>2
  <2>5. /\ g[m] = val(f, m)
        /\ \A i \in m .. n : i # m => g[i] = f[i]
    BY <1>2
  <2>6. ASSUME NEW i \in m .. n PROVE g[i] = val(g, i)
    <3>1. ~(2*i > n - 1) => g[i + 1] = f[i + 1]
      BY <2>3, <2>5
    <3> HIDE DEF g
    <3>2. val(g, i) = val(f, i)
      BY <3>1
    <3> HIDE DEF val
    <3>3. g[i] = val(f, i)
      BY <2>3, <2>4, <2>5
    <3>4. QED
      BY <3>2, <3>3
  <2>7. g = [i \in m .. n |-> val(g, i)]
    <3> HIDE DEF val
    <3>1. g = [i \in m .. n |-> g[i]]
      OBVIOUS
    <3> HIDE DEF g
    <3>2. QED
      BY <2>6, <3>1, Zenon
  <2>8. Part(m)
    <3> HIDE DEF g
    <3>1. QED
      BY <2>7
  <2>9. QED
    BY <1>2, <2>8
<1>5. QED
  BY <1>2, <1>3, <1>4

(* percolate_down() keeps the array a typed array. *)
LEMMA PercolateTypes ==
  ASSUME NEW n \in Nat, NEW c \in Nat, NEW X, NEW a \in [0 .. c - 1 -> X],
         NEW hole \in 0 .. n, hole \in 0 .. c - 1
  PROVE  Heap!Percolate(a, n, hole) \in [0 .. c - 1 -> X]
<1>1. PICK e \in hole .. n : /\ Heap!Percolate(a, n, hole) = [a EXCEPT ![e] = a[hole]]
                             /\ e < n \/ e = hole
  BY PercolateIs, ZenonT(60)
<1>2. QED
  BY <1>1

(* The array keeps its type, ... *)
LEMMA BuiltTypes ==
  ASSUME NEW n \in Nat, NEW c \in Nat, n <= c, NEW X, NEW base \in [0 .. c - 1 -> X],
         NEW f, IsBuilt(f, base, n)
  PROVE  f[0] \in [0 .. c - 1 -> X]
<1> DEFINE A == [0 .. c - 1 -> X]
           D == {i \in 0 .. n : f[i] \notin A}
<1> SUFFICES ASSUME D # {} PROVE FALSE
  <2>1. 0 \in 0 .. n
    OBVIOUS
  <2>2. QED
    BY <2>1
<1>1. PICK i \in D : \A k \in D : k <= i
  BY Largest
<1>2. i \in 0 .. n /\ f[i] \notin A
  BY <1>1
<1>3. f[i] = IF 2*i > n - 1 THEN base ELSE Heap!Percolate(f[i + 1], n, i)
  BY <1>2 DEF IsBuilt
<1>4. ~(2*i > n - 1)
  BY <1>2, <1>3
<1>5. i + 1 \in 0 .. n /\ i + 1 \notin D /\ i \in 0 .. c - 1
  BY <1>1, <1>2, <1>4
<1>6. f[i + 1] \in A
  BY <1>5
<1>7. \A b \in A : Heap!Percolate(b, n, i) \in A
  BY <1>5, PercolateTypes
<1>8. QED
  BY <1>2, <1>3, <1>4, <1>6, <1>7

(* ... and if percolate_down() changes nothing it is a heap as given. *)
LEMMA BuiltUnmoved ==
  ASSUME NEW n \in Nat, NEW base, NEW f, IsBuilt(f, base, n),
         \A i \in 0 .. n - 1 : 2*i <= n - 1 => ~Heap!Moves(f[i + 1], n, i)
  PROVE  \A i \in 0 .. n : f[i] = base
<1> DEFINE D == {i \in 0 .. n : f[i] # base}
<1> SUFFICES ASSUME D # {} PROVE FALSE
  OBVIOUS
<1>1. PICK i \in D : \A k \in D : k <= i
  BY Largest
<1>2. i \in 0 .. n /\ f[i] # base
  BY <1>1
<1>3. f[i] = IF 2*i > n - 1 THEN base ELSE Heap!Percolate(f[i + 1], n, i)
  BY <1>2 DEF IsBuilt
<1>4. ~(2*i > n - 1)
  BY <1>2, <1>3
<1>5. i + 1 \in 0 .. n /\ i + 1 \notin D /\ i \in 0 .. n - 1 /\ 2*i <= n - 1
  BY <1>1, <1>2, <1>4
<1>6. f[i + 1] = base /\ Heap!Percolate(f[i + 1], n, i) = f[i + 1]
  BY <1>5 DEF Heap!Moves
<1>7. QED
  BY <1>2, <1>3, <1>4, <1>6

-------------------------------------------------------------------------------
(* The invariant *)

(* The heap counts with the Cardinality of its own instance. *)
LEMMA SameCardinality ==
  /\ \A S : Heap!Cardinality(S) = Cardinality(S)
  /\ \A S : Heap!IsFiniteSet(S) = IsFiniteSet(S)
  BY DEF Heap!Cardinality, Cardinality, Heap!IsFiniteSet, IsFiniteSet

(* The capacity is the length of the array. *)
LEMMA CapacityIs ==
  ASSUME NEW c \in Nat, NEW a, DOMAIN a = 0 .. c - 1
  PROVE  Heap!Cardinality(DOMAIN a) = c
<1>1. 0 \in Int /\ c - 1 \in Int
  OBVIOUS
<1>2. Cardinality(0 .. c - 1) = IF 0 > c - 1 THEN 0 ELSE (c - 1) - 0 + 1
  BY <1>1, FS_Interval
<1>3. QED
  BY <1>2, SameCardinality

(* n slots that hold different timers hold n of them. *)
LEMMA AsManyAsSlots ==
  ASSUME NEW n \in Nat, NEW a, Distinct(a, n)
  PROVE  Heap!Cardinality({a[i] : i \in 0 .. n - 1}) = n
<1> DEFINE S == 0 .. n - 1
           T == {a[i] : i \in S}
           f == [i \in S |-> a[i]]
<1>1. IsFiniteSet(S) /\ Cardinality(S) = n
  <2>1. 0 \in Int /\ n - 1 \in Int
    OBVIOUS
  <2>2. IsFiniteSet(S) /\ Cardinality(S) = IF 0 > n - 1 THEN 0 ELSE (n - 1) - 0 + 1
    BY <2>1, FS_Interval
  <2>3. QED
    BY <2>2
<1>2. f \in Bijection(S, T)
  <2>1. f \in [S -> T] /\ \A i \in S : f[i] = a[i]
    OBVIOUS
  <2>2. \A i, j \in S : a[i] = a[j] => i = j
    BY DEF Distinct
  <2>3. \A y \in T : \E i \in S : a[i] = y
    OBVIOUS
  <2> HIDE DEF f, T, S
  <2>4. f \in Injection(S, T)
    BY <2>1, <2>2 DEF Injection, IsInjective
  <2>5. f \in Surjection(S, T)
    BY <2>1, <2>3 DEF Surjection
  <2>6. QED
    BY <2>4, <2>5 DEF Bijection
<1>3. ExistsBijection(S, T)
  BY <1>2 DEF ExistsBijection
<1> HIDE DEF S, T, f
<1>4. Cardinality(T) = n
  BY <1>1, <1>3, FS_Bijection
<1>5. QED
  BY <1>4, SameCardinality DEF T, S

(* The first cur_size slots hold the live timers, each once and in order. *)
Holds == {array[i] : i \in 0 .. cur_size - 1} = live

IsHeap == Holds /\ Distinct(array, cur_size) /\ Ordered(array, cur_size, expire)

Stale == \E i \in cur_size .. Heap!capacity - 1 : array[i] # NULL

(* The array has a length.  (TypeOK speaks of capacity, a number of        *)
(* elements, which is a number only if there are finitely many.)           *)
HasLength == \E c \in Nat : DOMAIN array = 0 .. c - 1

(* The inductive invariant. *)
HeapInv ==
    /\ Heap!TypeOK
    /\ HasLength
    /\ ~lost => /\ fate = "out of bounds" => Heap!capacity = 0
                /\ fate = "deleted timer" => Stale
                /\ fate # "out of bounds" => IsHeap

(* It says more than the property. *)
LEMMA HeapInvGives ==
  ASSUME HeapInv
  PROVE  Heap!HeapUntilLost
<1>1. SUFFICES ASSUME ~lost PROVE
        /\ fate = "out of bounds" => Heap!capacity = 0
        /\ fate = "deleted timer" => \E i \in cur_size .. Heap!capacity - 1 : array[i] # NULL
        /\ fate # "out of bounds" =>
              /\ {array[i] : i \in 0 .. cur_size - 1} = live
              /\ Heap!Cardinality(live) = cur_size
              /\ \A i \in 1 .. cur_size - 1 : expire[array[Heap!Parent(i)]] <= expire[array[i]]
  BY DEF Heap!HeapUntilLost
<1>2. /\ fate = "out of bounds" => Heap!capacity = 0
      /\ fate = "deleted timer" => \E i \in cur_size .. Heap!capacity - 1 : array[i] # NULL
  BY <1>1 DEF HeapInv, Stale
<1>3. ASSUME fate # "out of bounds"
      PROVE  /\ {array[i] : i \in 0 .. cur_size - 1} = live
             /\ Heap!Cardinality(live) = cur_size
             /\ \A i \in 1 .. cur_size - 1 : expire[array[Heap!Parent(i)]] <= expire[array[i]]
  <2>1. Holds /\ Distinct(array, cur_size) /\ Ordered(array, cur_size, expire) /\ cur_size \in 0 .. Heap!capacity
    BY <1>1, <1>3 DEF HeapInv, IsHeap, Heap!TypeOK
  <2>2. cur_size \in Nat
    BY <2>1
  <2>3. Heap!Cardinality({array[i] : i \in 0 .. cur_size - 1}) = cur_size
    BY <2>1, <2>2, AsManyAsSlots
  <2>4. QED
    BY <2>1, <2>3 DEF Holds, Ordered
<1>4. QED
  BY <1>2, <1>3

(* The members of an interval from 0 on. *)
LEMMA UpTo ==
  ASSUME NEW c \in Nat, NEW k \in 0 .. c
  PROVE  k \in Nat /\ k <= c
  OBVIOUS

(* What the invariant says of the array. *)
LEMMA Shape ==
  ASSUME HeapInv, fate # "out of bounds"
  PROVE  /\ Heap!capacity \in Nat
         /\ array \in [0 .. Heap!capacity - 1 -> Timers \cup {NULL}]
         /\ cur_size \in Nat /\ cur_size <= Heap!capacity
         /\ expire \in [Timers -> 0 .. MaxExpire]
<1>1. Heap!TypeOK
  BY DEF HeapInv
<1>2. PICK c \in Nat : DOMAIN array = 0 .. c - 1
  BY DEF HeapInv, HasLength
<1>3. Heap!capacity = c
  BY <1>2, CapacityIs DEF Heap!capacity
<1>4. /\ array \in [0 .. Heap!capacity - 1 -> Timers \cup {NULL}]
      /\ cur_size \in 0 .. Heap!capacity
      /\ expire \in [Timers -> 0 .. MaxExpire]
  BY <1>1 DEF Heap!TypeOK
<1>5. Heap!capacity \in Nat /\ cur_size \in Nat /\ cur_size <= Heap!capacity
  <2>1. cur_size \in 0 .. c
    BY <1>3, <1>4, Zenon
  <2>2. cur_size \in Nat /\ cur_size <= c
    BY <2>1, UpTo, Zenon
  <2>3. QED
    BY <1>3, <2>2, Zenon
<1>6. QED
  BY <1>4, <1>5, Zenon

(* ... and how to show it of the array of the next state. *)
LEMMA NextShape ==
  ASSUME NEW c \in Nat, array' \in [0 .. c - 1 -> Timers \cup {NULL}]
  PROVE  HasLength' /\ Heap!capacity' = c /\ array' \in [0 .. Heap!capacity' - 1 -> Timers \cup {NULL}]
<1>1. DOMAIN array' = 0 .. c - 1
  OBVIOUS
<1>2. Heap!Cardinality(DOMAIN array') = c
  BY <1>1, CapacityIs
<1>3. Heap!capacity' = c
  BY <1>2 DEF Heap!capacity
<1>4. QED
  BY <1>1, <1>3 DEF HasLength

(* Both constructors make a heap, unless percolate_down() lost a timer. *)
LEMMA HeapInvInit ==
  ASSUME Heap!Init, Heap!HeapAssumption
  PROVE  HeapInv
<1>1. PICK c \in Capacities, n \in 0 .. Heap!Cardinality(Timers) :
         /\ n <= c
         /\ cur_size = n
         /\ \E given \in [0 .. n - 1 -> Timers] :
              LET built[i \in 0 .. n] ==
                      IF 2*i > n - 1
                      THEN [j \in 0 .. c - 1 |-> IF j < n THEN given[j] ELSE NULL]
                      ELSE Heap!Percolate(built[i + 1], n, i)
              IN  /\ \A i, j \in 0 .. n - 1 : i # j => given[i] # given[j]
                  /\ live = {given[i] : i \in 0 .. n - 1}
                  /\ expire \in [Timers -> 0 .. MaxExpire]
                  /\ \A t \in Timers \ live : expire[t] = 0
                  /\ array = built[0]
                  /\ lost = \E i \in 0 .. n - 1 :
                                2*i <= n - 1 /\ Heap!Moves(built[i + 1], n, i)
  BY DEF Heap!Init
<1>2. c \in Nat /\ n \in Nat /\ n <= c /\ cur_size = n
  <2>1. Heap!Cardinality(Timers) \in Nat
    BY SameCardinality, FS_CardinalityType DEF Heap!HeapAssumption
  <2>2. QED
    BY <1>1, <2>1 DEF Heap!HeapAssumption
<1>3. PICK given \in [0 .. n - 1 -> Timers] :
              LET built[i \in 0 .. n] ==
                      IF 2*i > n - 1
                      THEN [j \in 0 .. c - 1 |-> IF j < n THEN given[j] ELSE NULL]
                      ELSE Heap!Percolate(built[i + 1], n, i)
              IN  /\ \A i, j \in 0 .. n - 1 : i # j => given[i] # given[j]
                  /\ live = {given[i] : i \in 0 .. n - 1}
                  /\ expire \in [Timers -> 0 .. MaxExpire]
                  /\ \A t \in Timers \ live : expire[t] = 0
                  /\ array = built[0]
                  /\ lost = \E i \in 0 .. n - 1 :
                                2*i <= n - 1 /\ Heap!Moves(built[i + 1], n, i)
  BY <1>1, Zenon
<1> DEFINE base == [j \in 0 .. c - 1 |-> IF j < n THEN given[j] ELSE NULL]
           built == CHOOSE f : IsBuilt(f, base, n)
<1>4. /\ \A i, j \in 0 .. n - 1 : i # j => given[i] # given[j]
      /\ live = {given[i] : i \in 0 .. n - 1}
      /\ expire \in [Timers -> 0 .. MaxExpire]
      /\ array = built[0]
      /\ lost = \E i \in 0 .. n - 1 : 2*i <= n - 1 /\ Heap!Moves(built[i + 1], n, i)
  BY <1>3 DEF IsBuilt
<1>5. IsBuilt(built, base, n)
  <2>1. \E f : IsBuilt(f, base, n)
    BY <1>2, BuiltsExist
  <2>2. QED
    BY <2>1
<1> HIDE DEF built
<1>6. /\ base \in [0 .. c - 1 -> Timers \cup {NULL}]
      /\ \A i \in 0 .. n - 1 : base[i] = given[i] /\ base[i] \in Timers
  BY <1>2
<1> HIDE DEF base
<1>7. array \in [0 .. c - 1 -> Timers \cup {NULL}]
  BY <1>2, <1>4, <1>5, <1>6, BuiltTypes
<1>8. HasLength /\ Heap!capacity = c
  <2>1. DOMAIN array = 0 .. c - 1
    BY <1>7
  <2>2. QED
    BY <1>2, <2>1, CapacityIs DEF Heap!capacity, HasLength
<1>9. fate = "running" /\ cancelled = {}
  BY DEF Heap!Init
<1>10. Heap!TypeOK
  BY <1>2, <1>4, <1>7, <1>8, <1>9 DEF Heap!TypeOK
<1>11. ASSUME ~lost PROVE IsHeap
  <2>1. \A i \in 0 .. n - 1 : 2*i <= n - 1 => ~Heap!Moves(built[i + 1], n, i)
    BY <1>4, <1>11
  <2>2. \A i \in 0 .. n : built[i] = base
    BY <1>2, <1>5, <2>1, BuiltUnmoved
  <2>3. array = base
    BY <1>2, <1>4, <2>2
  <2>4. Distinct(base, n)
    BY <1>4, <1>6 DEF Distinct
  <2>5. Holds
    BY <1>2, <1>4, <1>6, <2>3, SMTT(60) DEF Holds
  <2>6. \A i \in 0 .. n - 1 : expire[base[i]] \in Nat
    BY <1>4, <1>6 DEF Heap!HeapAssumption
  <2>7. ASSUME NEW i \in 1 .. n - 1 PROVE expire[base[Heap!Parent(i)]] <= expire[base[i]]
    <3>1. Heap!Parent(i) \in 0 .. n - 1 /\ 2*Heap!Parent(i) <= n - 1 /\ Heap!Parent(i) + 1 \in 0 .. n
          /\ Heap!Parent(i) \in 0 .. n
      <4>1. i \in Nat /\ i > 0 /\ i <= n - 1
        BY <1>2
      <4>2. /\ Heap!Parent(i) \in Nat /\ Heap!Parent(i) < i
            /\ i = 2 * Heap!Parent(i) + 1 \/ i = 2 * Heap!Parent(i) + 2
        BY <4>1, ParentIs
      <4>3. QED
        BY <1>2, <4>1, <4>2
    <3>2. ~Heap!Moves(base, n, Heap!Parent(i))
      BY <2>1, <2>2, <3>1
    <3>3. ~Heap!Sinks(base, n, Heap!Parent(i), base[Heap!Parent(i)])
      BY <1>2, <1>6, <2>4, <3>1, <3>2, NotMoved
    <3>4. QED
      BY <1>2, <2>6, <3>3, AboveItsChildren
  <2>8. Ordered(base, n, expire)
    BY <2>7 DEF Ordered
  <2>9. QED
    BY <1>2, <2>3, <2>4, <2>5, <2>8 DEF IsHeap
<1>12. QED
  BY <1>8, <1>9, <1>10, <1>11 DEF HeapInv

-------------------------------------------------------------------------------
(* The steps *)

(* The array add_timer() works on, after resize() if it needs room. *)
LEMMA RoomIs ==
  ASSUME HeapInv, fate = "running", Heap!capacity > 0
  PROVE  LET room == IF Heap!NeedsRoom THEN Heap!Resized ELSE array
         IN  \E c \in Nat : /\ room \in [0 .. c - 1 -> Timers \cup {NULL}]
                            /\ cur_size \in 0 .. c - 1
                            /\ \A i \in 0 .. cur_size - 1 : room[i] = array[i]
<1> DEFINE room == IF Heap!NeedsRoom THEN Heap!Resized ELSE array
           X == Timers \cup {NULL}
<1>1. /\ Heap!capacity \in Nat /\ cur_size \in Nat /\ cur_size <= Heap!capacity
      /\ array \in [0 .. Heap!capacity - 1 -> X]
  BY Shape
<1> HIDE DEF X
<1>2. CASE Heap!NeedsRoom
  <2> DEFINE cap == Heap!capacity
  <2>1. cur_size = cap /\ cap \in Nat /\ cap > 0
    BY <1>1, <1>2 DEF Heap!NeedsRoom
  <2>2. Heap!Resized = [i \in 0 .. 2 * cap - 1 |-> IF i < cur_size THEN array[i] ELSE NULL]
    BY DEF Heap!Resized
  <2>3. array \in [0 .. cap - 1 -> X] /\ NULL \in X
    BY <1>1 DEF X
  <2> HIDE DEF cap
  <2>4. /\ 2 * cap \in Nat
        /\ Heap!Resized \in [0 .. 2 * cap - 1 -> X]
        /\ cur_size \in 0 .. 2 * cap - 1
        /\ \A i \in 0 .. cur_size - 1 : Heap!Resized[i] = array[i]
    BY <2>1, <2>2, <2>3
  <2>5. QED
    BY <1>2, <2>4 DEF X
<1>3. CASE ~Heap!NeedsRoom
  <2>1. cur_size \in 0 .. Heap!capacity - 1
    BY <1>1, <1>3 DEF Heap!NeedsRoom
  <2>2. QED
    BY <1>1, <1>3, <2>1 DEF X
<1>4. QED
  BY <1>2, <1>3

(* add_timer() keeps the heap, and it reads only live timers. *)
LEMMA AddStep ==
  ASSUME HeapInv, Heap!HeapAssumption, NEW t \in Timers, NEW when \in 0 .. MaxExpire, Heap!HeapAdd(t, when)
  PROVE  HeapInv'
<1> DEFINE room == IF Heap!NeedsRoom THEN Heap!Resized ELSE array
           X == Timers \cup {NULL}
           anc == CHOOSE f : IsAncestors(f, room, cur_size, when)
<1>1. /\ fate = "running" /\ t \notin live
      /\ expire' = [expire EXCEPT ![t] = when]
      /\ live' = live \cup {t}
      /\ cancelled' = cancelled /\ lost' = lost /\ cur_size' = cur_size + 1
      /\ \/ /\ Heap!capacity > 0
            /\ array' = Heap!Raise(room, t, when)
            /\ Heap!Reads(anc[cur_size])
         \/ /\ Heap!capacity = 0
            /\ fate' = "out of bounds"
            /\ array' = array
  BY DEF Heap!HeapAdd, IsAncestors
<1> HIDE DEF room, anc
<1>2. /\ Heap!capacity \in Nat /\ cur_size \in Nat /\ cur_size <= Heap!capacity
      /\ array \in [0 .. Heap!capacity - 1 -> X]
      /\ expire \in [Timers -> 0 .. MaxExpire]
  BY <1>1, Shape
<1>3. cancelled \subseteq live /\ live \subseteq Timers /\ lost \in BOOLEAN
  BY DEF HeapInv, Heap!TypeOK
<1>4. ~lost => IsHeap
  BY <1>1 DEF HeapInv
<1>5. /\ expire' \in [Timers -> 0 .. MaxExpire]
      /\ cancelled' \subseteq live' /\ live' \subseteq Timers /\ lost' \in BOOLEAN
  BY <1>1, <1>2, <1>3
<1>6. CASE Heap!capacity = 0
  <2>1. /\ fate' = "out of bounds" /\ array' = array /\ cur_size' = cur_size + 1
        /\ Heap!capacity' = Heap!capacity
    <3>1. fate' = "out of bounds" /\ array' = array /\ cur_size' = cur_size + 1
      <4>1. ~(Heap!capacity > 0)
        BY <1>6
      <4>2. QED
        BY <1>1, <4>1, Zenon
    <3>2. QED
      BY <3>1 DEF Heap!capacity
  <2>2. HasLength'
    BY <2>1 DEF HeapInv, HasLength
  <2>3. Heap!TypeOK'
    <3>1. array' \in [0 .. Heap!capacity' - 1 -> X] /\ cur_size' \in 0 .. Heap!capacity' + 1
      <4>1. /\ array \in [0 .. Heap!capacity - 1 -> X]
            /\ cur_size + 1 \in 0 .. Heap!capacity + 1
        BY <1>2
      <4>2. QED
        BY <2>1, <4>1, Zenon
    <3>2. QED
      BY <1>5, <2>1, <3>1 DEF Heap!TypeOK
  <2>4. QED
    BY <1>6, <2>1, <2>2, <2>3 DEF HeapInv
<1>7. CASE Heap!capacity > 0
  <2>1. /\ array' = Heap!Raise(room, t, when)
        /\ cur_size' = cur_size + 1
        /\ Heap!Reads(anc[cur_size])
    <3>1. Heap!capacity # 0
      BY <1>7
    <3>2. QED
      BY <1>1, <3>1, Zenon
  <2>2. PICK c \in Nat : /\ room \in [0 .. c - 1 -> X]
                         /\ cur_size \in 0 .. c - 1
                         /\ \A i \in 0 .. cur_size - 1 : room[i] = array[i]
    BY <1>1, <1>7, RoomIs DEF room
  <2>3. IsAncestors(anc, room, cur_size, when)
    <3>1. \E f : IsAncestors(f, room, cur_size, when)
      BY <1>2, AncestorsExist
    <3>2. QED
      BY <3>1 DEF anc
  <2> HIDE DEF room, anc
  <2>4. t \in X
    OBVIOUS
  <2> HIDE DEF X
  <2>5. array' \in [0 .. c - 1 -> X]
    BY <2>1, <2>2, <2>4, RaiseIs
  <2>6. HasLength' /\ Heap!capacity' = c
    BY <2>5, NextShape DEF X
  <2>7. fate' \in {"running", "deleted timer"}
    BY <2>1 DEF Heap!Reads
  <2>8. Heap!TypeOK'
    <3>1. array' \in [0 .. Heap!capacity' - 1 -> X] /\ cur_size' \in 0 .. Heap!capacity'
      <4>1. cur_size' \in 0 .. c
        BY <2>1, <2>2
      <4>2. QED
        BY <2>5, <2>6, <4>1, Zenon
    <3>2. QED
      BY <1>5, <2>7, <3>1 DEF Heap!TypeOK, X
  <2>9. ASSUME ~lost PROVE fate' = "running" /\ IsHeap'
    <3>1. Holds /\ Distinct(array, cur_size) /\ Ordered(array, cur_size, expire)
      BY <1>4, <2>9 DEF IsHeap
    <3>2. \A i \in 0 .. cur_size - 1 : array[i] \in live /\ array[i] \in Timers /\ array[i] # t
      BY <1>1, <1>3, <3>1 DEF Holds
    <3>3. {room[i] : i \in 0 .. cur_size - 1} = live
      BY <2>2, <3>1 DEF Holds
    <3>4. fate' = "running"
      <4>1. cur_size \in 0 .. cur_size
        BY <1>2
      <4>2. \A h \in 0 .. cur_size : anc[h] \subseteq {room[i] : i \in 0 .. cur_size - 1}
        BY <1>2, <2>3, AncestorsAre
      <4>3. anc[cur_size] \subseteq live
        BY <3>3, <4>1, <4>2
      <4>4. QED
        BY <2>1, <4>3 DEF Heap!Reads
    <3> DEFINE ex == expire'
    <3>5. /\ ex[t] = when /\ ex[t] \in Nat
          /\ \A i \in 0 .. cur_size - 1 : /\ ex[array[i]] = expire[array[i]]
                                          /\ ex[array[i]] \in Nat
      <4>1. ex = [expire EXCEPT ![t] = when] /\ MaxExpire \in Nat
        BY <1>1 DEF Heap!HeapAssumption
      <4> HIDE DEF ex
      <4>2. QED
        BY <1>2, <3>2, <4>1
    <3> HIDE DEF ex
    <3>6. Distinct(room, cur_size)
      BY <2>2, <3>1 DEF Distinct
    <3>7. Ordered(room, cur_size, ex)
      <4>1. ASSUME NEW i \in 1 .. cur_size - 1 PROVE ex[room[Heap!Parent(i)]] <= ex[room[i]]
        <5>1. i \in Nat /\ i > 0 /\ i \in 0 .. cur_size - 1
          BY <1>2
        <5>2. Heap!Parent(i) \in 0 .. cur_size - 1
          BY <1>2, <5>1, ParentIs
        <5>3. expire[array[Heap!Parent(i)]] <= expire[array[i]]
          BY <3>1 DEF Ordered
        <5>4. QED
          BY <2>2, <3>5, <5>1, <5>2, <5>3
      <4>2. QED
        BY <4>1 DEF Ordered
    <3>8. \A i \in 0 .. cur_size - 1 : room[i] # t
      BY <2>2, <3>2
    <3>9. \A i \in 0 .. cur_size - 1 : ex[room[i]] \in Nat /\ ex[room[i]] = expire[room[i]]
      BY <2>2, <3>5
    <3>10. /\ {array'[i] : i \in 0 .. cur_size} = {room[i] : i \in 0 .. cur_size - 1} \cup {t}
           /\ Distinct(array', cur_size + 1)
           /\ Ordered(array', cur_size + 1, ex)
      <4>1. Adds(Heap!Raise(room, t, when), room, cur_size, t, ex)
        BY <2>2, <2>4, <3>5, <3>6, <3>7, <3>8, <3>9, RaiseKeepsHeap
      <4>2. QED
        BY <2>1, <4>1 DEF Adds
    <3>11. Holds'
      <4>1. cur_size' - 1 = cur_size
        BY <1>2, <2>1
      <4>2. QED
        BY <1>1, <3>3, <3>10, <4>1 DEF Holds
    <3>12. QED
      BY <2>1, <3>4, <3>10, <3>11 DEF IsHeap, ex
  <2>10. QED
    BY <1>1, <2>6, <2>7, <2>8, <2>9 DEF HeapInv
<1>8. QED
  BY <1>2, <1>6, <1>7

(* pop_timer() keeps the array a typed array, ... *)
LEMMA PopTypes ==
  ASSUME HeapInv, Heap!HeapAssumption, Heap!HeapPop
  PROVE  Heap!TypeOK' /\ HasLength'
<1> DEFINE X == Timers \cup {NULL}
           n == cur_size - 1
           a == [array EXCEPT ![0] = array[n]]
           c == Heap!capacity
<1>1. /\ fate = "running" /\ cur_size > 0 /\ array' = Heap!Percolate(a, n, 0) /\ cur_size' = n
      /\ lost' = (lost \/ Heap!Moves(a, n, 0))
      /\ live' = live \ {array[0]} /\ cancelled' = cancelled \ {array[0]}
      /\ expire' = [t \in Timers |-> IF t = array[0] THEN 0 ELSE expire[t]]
      /\ fate' \in {"running", "deleted timer"}
  BY DEF Heap!HeapPop
<1>2. /\ c \in Nat /\ cur_size \in Nat /\ cur_size <= c
      /\ array \in [0 .. c - 1 -> X]
      /\ expire \in [Timers -> 0 .. MaxExpire]
  BY <1>1, Shape
<1>3. cancelled \subseteq live /\ live \subseteq Timers /\ lost \in BOOLEAN
  BY DEF HeapInv, Heap!TypeOK
<1> HIDE DEF c, X
<1>4. n \in Nat /\ n \in 0 .. c - 1 /\ 0 \in 0 .. n /\ 0 \in 0 .. c - 1 /\ n \in 0 .. c
  <2>1. cur_size > 0 /\ cur_size \in Nat /\ cur_size <= c /\ c \in Nat
    BY <1>1, <1>2
  <2>2. QED
    BY <2>1
<1>5. a \in [0 .. c - 1 -> X]
  BY <1>2, <1>4
<1> HIDE DEF a, n
<1>6. array' \in [0 .. c - 1 -> X]
  BY <1>1, <1>2, <1>4, <1>5, PercolateTypes
<1>7. HasLength' /\ Heap!capacity' = c
  BY <1>2, <1>6, NextShape DEF X
<1>8. expire' \in [Timers -> 0 .. MaxExpire]
  <2>1. 0 \in 0 .. MaxExpire
    BY DEF Heap!HeapAssumption
  <2>2. expire' = [t \in Timers |-> IF t = array[0] THEN 0 ELSE expire[t]]
    BY <1>1
  <2>3. QED
    BY <1>2, <2>1, <2>2
<1>9. lost' \in BOOLEAN
  BY <1>1, <1>3 DEF Heap!Moves
<1>10. cancelled' \subseteq live' /\ live' \subseteq Timers
  BY <1>1, <1>3
<1>11. array' \in [0 .. Heap!capacity' - 1 -> X] /\ cur_size' \in 0 .. Heap!capacity'
  BY <1>1, <1>4, <1>6, <1>7, Zenon
<1>12. QED
  BY <1>1, <1>7, <1>8, <1>9, <1>10, <1>11 DEF Heap!TypeOK, X

(* ... and a heap if percolate_down() has nothing to move. *)
LEMMA PopKeepsHeap ==
  ASSUME HeapInv, Heap!HeapAssumption, Heap!HeapPop, ~lost'
  PROVE  fate' = "running" /\ IsHeap'
<1> DEFINE X == Timers \cup {NULL}
           n == cur_size - 1
           a == [array EXCEPT ![0] = array[n]]
           c == Heap!capacity
<1>1. /\ fate = "running" /\ cur_size > 0 /\ array' = Heap!Percolate(a, n, 0) /\ cur_size' = n
      /\ lost' = (lost \/ Heap!Moves(a, n, 0))
      /\ live' = live \ {array[0]}
      /\ expire' = [t \in Timers |-> IF t = array[0] THEN 0 ELSE expire[t]]
      /\ fate' = IF /\ array[0] \in live
                    /\ Heap!ReadOf(a, n) \subseteq live \ {array[0]}
                 THEN "running" ELSE "deleted timer"
  BY DEF Heap!HeapPop
<1>2. /\ c \in Nat /\ cur_size \in Nat /\ cur_size <= c
      /\ array \in [0 .. c - 1 -> X]
      /\ expire \in [Timers -> 0 .. MaxExpire]
  BY <1>1, Shape
<1>3. ~lost /\ ~Heap!Moves(a, n, 0)
  BY <1>1 DEF HeapInv, Heap!TypeOK
<1>4. Holds /\ Distinct(array, cur_size) /\ Ordered(array, cur_size, expire) /\ live \subseteq Timers
  BY <1>1, <1>3 DEF HeapInv, IsHeap, Heap!TypeOK
<1> HIDE DEF c, X
<1>5. /\ n \in Nat /\ n <= c /\ n \in 0 .. c - 1 /\ 0 \in 0 .. n /\ 0 \in 0 .. c - 1
      /\ n \in 0 .. cur_size - 1 /\ 0 \in 0 .. cur_size - 1 /\ cur_size - 1 = n
  <2>1. cur_size > 0 /\ cur_size \in Nat /\ cur_size <= c /\ c \in Nat
    BY <1>1, <1>2
  <2>2. QED
    BY <2>1
<1>6. /\ a \in [0 .. c - 1 -> X]
      /\ \A i \in 0 .. n - 1 : /\ i \in 0 .. n
                               /\ a[i] = IF i = 0 THEN array[n] ELSE array[i]
  BY <1>2, <1>5
<1>7. array' = a
  BY <1>1, <1>3 DEF Heap!Moves
<1> HIDE DEF a, n
<1>8. \A i, j \in 0 .. n : array[i] = array[j] => i = j
  BY <1>4, <1>5 DEF Distinct
<1>9. live = {array[i] : i \in 0 .. n}
  BY <1>4, <1>5 DEF Holds
<1>10. Distinct(a, n)
  <2>1. \A i \in 0 .. n - 1 : i # n
    BY <1>5
  <2>2. \A i, j \in 0 .. n - 1 : a[i] = a[j] => i = j
    BY <1>5, <1>6, <1>8, <2>1
  <2>3. QED
    BY <2>2 DEF Distinct
<1>11. {a[i] : i \in 0 .. n - 1} = live \ {array[0]}
  <2>1. ASSUME NEW i \in 0 .. n - 1 PROVE a[i] \in live /\ a[i] # array[0]
    <3>1. i # n /\ n # 0 /\ n \in 0 .. n
      BY <1>5
    <3>2. CASE i = 0
      <4>1. a[i] = array[n]
        BY <1>6, <3>2
      <4>2. QED
        BY <1>5, <1>8, <1>9, <3>1, <4>1
    <3>3. CASE i # 0
      <4>1. a[i] = array[i] /\ i \in 0 .. n
        BY <1>6, <3>3
      <4>2. QED
        BY <1>5, <1>8, <1>9, <3>3, <4>1
    <3>4. QED
      BY <3>2, <3>3
  <2>2. ASSUME NEW t \in live, t # array[0] PROVE \E i \in 0 .. n - 1 : a[i] = t
    <3>1. PICK i \in 0 .. n : t = array[i]
      BY <1>9
    <3>2. i # 0 /\ n # 0
      BY <1>5, <2>2, <3>1
    <3>3. CASE i = n
      <4>1. 0 \in 0 .. n - 1
        BY <1>5, <3>2
      <4>2. a[0] = t
        BY <1>6, <3>1, <3>3, <4>1
      <4>3. QED
        BY <4>1, <4>2
    <3>4. CASE i # n
      <4>1. i \in 0 .. n - 1
        BY <1>5, <3>4
      <4>2. QED
        BY <1>6, <3>1, <3>2, <4>1
    <3>5. QED
      BY <3>3, <3>4
  <2>3. QED
    BY <2>1, <2>2
<1>12. \A i \in 0 .. n - 1 : a[i] \in live /\ a[i] # array[0] /\ expire[a[i]] \in Nat
                             /\ expire'[a[i]] = expire[a[i]]
  <2>1. \A i \in 0 .. n - 1 : a[i] \in live /\ a[i] # array[0] /\ a[i] \in Timers
    BY <1>4, <1>11
  <2>2. \A t \in Timers : expire[t] \in Nat /\ (t # array[0] => expire'[t] = expire[t])
    <3>1. expire' = [t \in Timers |-> IF t = array[0] THEN 0 ELSE expire[t]]
      BY <1>1
    <3>2. MaxExpire \in Nat
      BY DEF Heap!HeapAssumption
    <3>3. QED
      BY <1>2, <3>1, <3>2
  <2>3. QED
    BY <2>1, <2>2
<1>13. ~Heap!Sinks(a, n, 0, a[0])
  BY <1>2, <1>3, <1>5, <1>6, <1>10, NotMoved
<1>14. Ordered(a, n, expire')
  <2>1. ASSUME NEW i \in 1 .. n - 1 PROVE expire[a[Heap!Parent(i)]] <= expire[a[i]]
    <3>1. i \in Nat /\ i > 0 /\ i \in 0 .. n - 1 /\ i \in 1 .. cur_size - 1
      BY <1>5
    <3>2. Heap!Parent(i) \in 0 .. n - 1
      BY <1>5, <3>1, ParentIs
    <3>3. CASE Heap!Parent(i) = 0
      <4>1. ~Heap!Sinks(a, n, Heap!Parent(i), a[Heap!Parent(i)])
        BY <1>13, <3>3
      <4>2. \A j \in 0 .. n - 1 : expire[a[j]] \in Nat
        BY <1>12
      <4>3. QED
        BY <1>5, <4>1, <4>2, AboveItsChildren
    <3>4. CASE Heap!Parent(i) # 0
      <4>1. a[i] = array[i] /\ a[Heap!Parent(i)] = array[Heap!Parent(i)]
        BY <1>6, <3>1, <3>2, <3>4
      <4>2. QED
        BY <1>4, <3>1, <4>1 DEF Ordered
    <3>5. QED
      BY <3>3, <3>4
  <2>2. ASSUME NEW i \in 1 .. n - 1 PROVE expire'[a[Heap!Parent(i)]] <= expire'[a[i]]
    <3>1. i \in Nat /\ i > 0 /\ i \in 0 .. n - 1
      BY <1>5
    <3>2. Heap!Parent(i) \in 0 .. n - 1
      BY <1>5, <3>1, ParentIs
    <3>3. QED
      BY <1>12, <2>1, <3>1, <3>2
  <2>3. QED
    BY <2>2 DEF Ordered
<1>15. fate' = "running"
  <2>1. Heap!ReadOf(a, n) \subseteq live \ {array[0]}
    BY <1>5, <1>11, <1>13, ReadIs
  <2>2. array[0] \in live
    BY <1>5, <1>9
  <2>3. QED
    BY <1>1, <2>1, <2>2
<1>16. Holds'
  BY <1>1, <1>7, <1>11 DEF Holds
<1>17. QED
  BY <1>1, <1>7, <1>10, <1>14, <1>15, <1>16 DEF IsHeap

(* pop_timer(). *)
LEMMA PopStep ==
  ASSUME HeapInv, Heap!HeapAssumption, Heap!HeapPop
  PROVE  HeapInv'
<1>1. Heap!TypeOK' /\ HasLength'
  BY PopTypes
<1>2. ~lost' => fate' = "running" /\ IsHeap'
  BY PopKeepsHeap
<1>3. QED
  BY <1>1, <1>2 DEF HeapInv

(* ~time_heap() fails only on a pointer pop_timer() left behind. *)
LEMMA DestroyStep ==
  ASSUME HeapInv, Heap!HeapAssumption, Heap!HeapDestroy
  PROVE  HeapInv'
<1> DEFINE held == {i \in DOMAIN array : array[i] # NULL}
<1>1. /\ fate = "running"
      /\ fate' = IF /\ \A i \in held : array[i] \in live
                    /\ \A i, j \in held : i # j => array[i] # array[j]
                 THEN "destroyed" ELSE "deleted timer"
      /\ UNCHANGED <<array, cur_size, expire, live, cancelled, lost>>
  BY DEF Heap!HeapDestroy
<1>2. Heap!TypeOK' /\ HasLength' /\ Heap!capacity' = Heap!capacity
  <2>1. fate' \in {"destroyed", "deleted timer"} /\ Heap!capacity' = Heap!capacity
    BY <1>1 DEF Heap!capacity
  <2>2. QED
    BY <1>1, <2>1 DEF HeapInv, Heap!TypeOK, HasLength
<1>3. ASSUME ~lost PROVE IsHeap' /\ (fate' = "deleted timer" => Stale')
  <2>1. IsHeap
    BY <1>1, <1>3 DEF HeapInv
  <2>2. IsHeap'
    BY <1>1, <2>1 DEF IsHeap, Holds, Distinct, Ordered
  <2>3. ASSUME ~Stale PROVE fate' = "destroyed"
    <3>1. Heap!capacity \in Nat /\ cur_size \in Nat /\ cur_size <= Heap!capacity /\ DOMAIN array = 0 .. Heap!capacity - 1
      BY <1>1, Shape
    <3>2. \A i \in held : i \in 0 .. cur_size - 1
      <4> SUFFICES ASSUME NEW i \in held, i \notin 0 .. cur_size - 1 PROVE FALSE
        OBVIOUS
      <4>1. i \in 0 .. Heap!capacity - 1 /\ array[i] # NULL
        BY <3>1
      <4>2. i \in cur_size .. Heap!capacity - 1
        BY <3>1, <4>1
      <4>3. QED
        BY <2>3, <4>1, <4>2 DEF Stale
    <3> HIDE DEF held
    <3>3. \A i \in held : array[i] \in live
      BY <2>1, <3>2 DEF IsHeap, Holds
    <3>4. \A i, j \in held : i # j => array[i] # array[j]
      BY <2>1, <3>2 DEF IsHeap, Distinct
    <3>5. QED
      BY <1>1, <3>3, <3>4
  <2>4. Stale => Stale'
    BY <1>1, <1>2 DEF Stale
  <2>5. QED
    BY <2>2, <2>3, <2>4
<1>4. fate' # "out of bounds" /\ lost' = lost
  BY <1>1
<1>5. QED
  BY <1>2, <1>3, <1>4 DEF HeapInv

(* No step breaks the invariant. *)
LEMMA HeapInvStep ==
  ASSUME HeapInv, Heap!HeapAssumption, [Heap!Next]_Heap!heapVars
  PROVE  HeapInv'
<1>1. ASSUME NEW t \in Timers, NEW when \in 0 .. MaxExpire, Heap!HeapAdd(t, when)
      PROVE  HeapInv'
  BY <1>1, AddStep
<1>2. ASSUME NEW t \in Timers, Heap!HeapDel(t)
      PROVE  HeapInv'
  <2>1. /\ cancelled' \subseteq live
        /\ UNCHANGED <<array, cur_size, expire, live, fate, lost>>
    BY <1>2 DEF Heap!HeapDel, HeapInv, Heap!TypeOK
  <2>2. Heap!capacity' = Heap!capacity
    BY <2>1 DEF Heap!capacity
  <2>3. Heap!TypeOK' /\ HasLength'
    BY <2>1, <2>2 DEF HeapInv, Heap!TypeOK, HasLength
  <2>4. IsHeap' = IsHeap /\ Stale' = Stale
    BY <2>1, <2>2 DEF IsHeap, Holds, Distinct, Ordered, Stale
  <2>5. QED
    BY <2>1, <2>2, <2>3, <2>4 DEF HeapInv
<1>3. CASE Heap!HeapPop
  BY <1>3, PopStep
<1>4. CASE Heap!HeapDestroy
  BY <1>4, DestroyStep
<1>5. CASE UNCHANGED Heap!heapVars
  <2>1. UNCHANGED <<array, cur_size, expire, live, cancelled, fate, lost>>
    BY <1>5 DEF Heap!heapVars
  <2>2. Heap!capacity' = Heap!capacity
    BY <2>1 DEF Heap!capacity
  <2>3. IsHeap' = IsHeap /\ Stale' = Stale
    BY <2>1, <2>2 DEF IsHeap, Holds, Distinct, Ordered, Stale
  <2>4. QED
    BY <2>1, <2>2, <2>3 DEF HeapInv, Heap!TypeOK, HasLength
<1>6. QED
  BY <1>1, <1>2, <1>3, <1>4, <1>5 DEF Heap!Next

-------------------------------------------------------------------------------
(* The theorems *)

(* The invariant holds of any heap by itself ... *)
LEMMA HeapAlone == Heap!Spec => []HeapInv
<1>1. Heap!Init => HeapInv
  BY HeapInvInit, MCAssumption
<1>2. HeapInv /\ [Heap!Next]_Heap!heapVars => HeapInv'
  BY HeapInvStep, MCAssumption
<1>3. QED
  BY <1>1, <1>2, PTL DEF Heap!Spec

(* ... and of the heap among the three containers, which may also rest. *)
LEMMA HeapAmongOthers == MCSpec => []HeapInv
<1>1. MCInit => HeapInv
  <2> SUFFICES ASSUME MCInit PROVE HeapInv
    OBVIOUS
  <2>1. CASE subject = "heap"
    BY <2>1, HeapInvInit, MCAssumption DEF MCInit
  <2>2. CASE subject # "heap"
    <3>1. /\ array = Heap!Empty(0) /\ cur_size = 0 /\ expire = [t \in Timers |-> 0]
          /\ live = {} /\ cancelled = {} /\ fate = "running" /\ lost = FALSE
      BY <2>2 DEF MCInit, HeapRests
    <3>2. 0 \in Nat /\ array \in [0 .. 0 - 1 -> Timers \cup {NULL}] /\ DOMAIN array = 0 .. 0 - 1
      BY <3>1 DEF Heap!Empty
    <3>3. HasLength /\ Heap!capacity = 0
      BY <3>2, CapacityIs DEF HasLength, Heap!capacity
    <3>4. 0 \in 0 .. MaxExpire
      BY MCAssumption DEF Heap!HeapAssumption
    <3>5. Heap!TypeOK
      <4>1. array \in [0 .. Heap!capacity - 1 -> Timers \cup {NULL}]
        BY <3>2, <3>3, Zenon
      <4>2. cur_size \in 0 .. Heap!capacity
        BY <3>1, <3>3
      <4>3. expire \in [Timers -> 0 .. MaxExpire]
        BY <3>1, <3>4
      <4>4. QED
        BY <3>1, <4>1, <4>2, <4>3 DEF Heap!TypeOK
    <3>6. IsHeap
      BY <3>1 DEF IsHeap, Holds, Distinct, Ordered
    <3>7. QED
      BY <3>1, <3>3, <3>5, <3>6 DEF HeapInv
  <2>3. QED
    BY <2>1, <2>2
<1>2. HeapInv /\ [MCNext]_allVars => HeapInv'
  <2> SUFFICES ASSUME HeapInv, [MCNext]_allVars PROVE HeapInv'
    OBVIOUS
  <2>1. [Heap!Next]_Heap!heapVars
    BY DEF MCNext, allVars, heapVars, Heap!heapVars
  <2>2. QED
    BY <2>1, HeapInvStep, MCAssumption
<1>3. QED
  BY <1>1, <1>2, PTL DEF MCSpec

(* The array, the size and the timers of the heap keep their types, also   *)
(* when percolate_down() has overwritten a timer.                          *)
THEOREM HeapTypesAreKept == MCSpec => []HeapTypeOK
<1>1. HeapInv => HeapTypeOK
  BY DEF HeapInv, HeapTypeOK
<1>2. QED
  BY <1>1, HeapAmongOthers, PTL

(* "最小堆" of timer/time_heap.h: until percolate_down() has to move a      *)
(* timer the array holds every live timer once and in the order of a heap, *)
(* however long it is and whatever was added, popped or cancelled.         *)
THEOREM HeapIsKeptUntilLost == MCSpec => []HeapUntilLost
<1>1. HeapInv => HeapUntilLost
  BY HeapInvGives DEF HeapUntilLost
<1>2. QED
  BY <1>1, HeapAmongOthers, PTL

(* The same of time_heap by itself. *)
THEOREM HeapWorksUntilLost == Heap!Spec => [](Heap!TypeOK /\ Heap!HeapUntilLost)
<1>1. HeapInv => Heap!TypeOK /\ Heap!HeapUntilLost
  BY HeapInvGives DEF HeapInv
<1>2. QED
  BY <1>1, HeapAlone, PTL

-------------------------------------------------------------------------------
(* The wheel: its lists *)

(* The wheel counts with the Cardinality of its own instance. *)
LEMMA SameWheelCardinality ==
  /\ \A S : Wheel!Cardinality(S) = Cardinality(S)
  /\ \A S : Wheel!IsFiniteSet(S) = IsFiniteSet(S)
  BY DEF Wheel!Cardinality, Cardinality, Wheel!IsFiniteSet, IsFiniteSet

(* The wheels there can be. *)
Turns == 0 .. MaxTimeout \div Slots
WheelLinks == WheelTimers \cup {NULL}

Wheels == [slots : [Wheel!Ring -> WheelLinks], next : [WheelTimers -> WheelLinks], prev : [WheelTimers -> WheelLinks],
           rotation : [WheelTimers -> Turns], time_slot : [WheelTimers -> Wheel!Ring]]

(* What the assumption says of the constants, piece by piece.              *)
LEMMA WheelConstants ==
  ASSUME Wheel!WheelAssumption
  PROVE  /\ IsFiniteSet(WheelTimers) /\ NULL \notin WheelTimers
         /\ Slots \in Nat \ {0} /\ MaxTimeout \in Nat
         /\ 0 \in Wheel!Ring /\ 0 \in Turns /\ NULL \in WheelLinks /\ Turns \subseteq Nat
         /\ MaxTimeout \div Slots \in Nat
<1>1. /\ IsFiniteSet(WheelTimers) /\ NULL \notin WheelTimers
      /\ Slots \in Nat \ {0} /\ MaxTimeout \in Nat
  BY SameWheelCardinality DEF Wheel!WheelAssumption
<1>2. MaxTimeout \div Slots \in Nat
  BY <1>1
<1>3. QED
  BY <1>1, <1>2 DEF Wheel!Ring, Turns, WheelLinks

(* What the assignments to the links of a timer change; t may be NULL. *)
HasNext(v, w, t, x) ==
    /\ v \in Wheels
    /\ v.slots = w.slots /\ v.prev = w.prev
    /\ v.rotation = w.rotation /\ v.time_slot = w.time_slot
    /\ \A u \in WheelTimers : v.next[u] = IF u = t THEN x ELSE w.next[u]

(* SetNext changes the next of t, and nothing if t is NULL.                *)
LEMMA SetNextIs ==
  ASSUME NULL \notin WheelTimers, NEW w \in Wheels, NEW t \in WheelLinks, NEW x \in WheelLinks
  PROVE  HasNext(Wheel!SetNext(w, t, x), w, t, x)
  BY DEF Wheel!SetNext, Wheels, WheelLinks, HasNext

HasPrev(v, w, t, x) ==
    /\ v \in Wheels
    /\ v.slots = w.slots /\ v.next = w.next
    /\ v.rotation = w.rotation /\ v.time_slot = w.time_slot
    /\ \A u \in WheelTimers : v.prev[u] = IF u = t THEN x ELSE w.prev[u]

(* SetPrev changes the prev of t, and nothing if t is NULL.                *)
LEMMA SetPrevIs ==
  ASSUME NULL \notin WheelTimers, NEW w \in Wheels, NEW t \in WheelLinks, NEW x \in WheelLinks
  PROVE  HasPrev(Wheel!SetPrev(w, t, x), w, t, x)
  BY DEF Wheel!SetPrev, Wheels, WheelLinks, HasPrev

(* A timer is taken out of the list of slot s and deleted, as del_timer()  *)
(* and tick() do it.                                                       *)
TakenOut(w, t, s, back) ==
    Wheel!Deleted(IF w.slots[s] = t THEN Wheel!Beheaded(w, s) ELSE Wheel!Unlinked(w, t, back), t)

IsTakenOut(v, w, t, s, back) ==
    /\ v \in Wheels
    /\ \A q \in Wheel!Ring : v.slots[q] = IF q = s /\ w.slots[s] = t THEN w.next[t] ELSE w.slots[q]
    /\ v.next[t] = NULL /\ v.prev[t] = NULL /\ v.rotation[t] = 0 /\ v.time_slot[t] = 0
    /\ \A u \in WheelTimers \ {t} :
          /\ v.next[u] = IF w.slots[s] # t /\ u = w.prev[t] THEN w.next[t] ELSE w.next[u]
          /\ v.prev[u] = IF u # w.next[t] THEN w.prev[u] ELSE IF w.slots[s] = t THEN NULL ELSE back
          /\ v.rotation[u] = w.rotation[u]
          /\ v.time_slot[u] = w.time_slot[u]

IsCleared(v, w, t) ==
    /\ v \in Wheels /\ v.slots = w.slots
    /\ v.next[t] = NULL /\ v.prev[t] = NULL /\ v.rotation[t] = 0 /\ v.time_slot[t] = 0
    /\ \A u \in WheelTimers \ {t} : /\ v.next[u] = w.next[u] /\ v.prev[u] = w.prev[u]
                                    /\ v.rotation[u] = w.rotation[u]
                                    /\ v.time_slot[u] = w.time_slot[u]

(* delete clears the fields of the timer and leaves the others.            *)
LEMMA DeletedIs ==
  ASSUME Wheel!WheelAssumption, NEW w \in Wheels, NEW t \in WheelTimers
  PROVE  IsCleared(Wheel!Deleted(w, t), w, t)
<1>1. NULL \in WheelLinks /\ 0 \in Turns /\ 0 \in Wheel!Ring
  BY WheelConstants
<1>2. /\ w.next \in [WheelTimers -> WheelLinks] /\ w.prev \in [WheelTimers -> WheelLinks]
      /\ w.rotation \in [WheelTimers -> Turns] /\ w.time_slot \in [WheelTimers -> Wheel!Ring]
      /\ w.slots \in [Wheel!Ring -> WheelLinks]
  BY DEF Wheels
<1> DEFINE nx == [w.next EXCEPT ![t] = NULL]
           pv == [w.prev EXCEPT ![t] = NULL]
           ro == [w.rotation EXCEPT ![t] = 0]
           ts == [w.time_slot EXCEPT ![t] = 0]
<1> DEFINE d == Wheel!Deleted(w, t)
<1>3. /\ d.slots = w.slots /\ d.next = nx /\ d.prev = pv
      /\ d.rotation = ro /\ d.time_slot = ts
  <2>1. d.slots = w.slots
    BY DEF Wheel!Deleted, Wheels
  <2>2. d.next = nx
    BY DEF Wheel!Deleted, Wheels
  <2>3. d.prev = pv
    BY DEF Wheel!Deleted, Wheels
  <2>4. d.rotation = ro
    BY DEF Wheel!Deleted, Wheels
  <2>5. d.time_slot = ts
    BY DEF Wheel!Deleted, Wheels
  <2>6. QED
    BY <2>1, <2>2, <2>3, <2>4, <2>5
<1>4. d \in Wheels
  BY <1>1 DEF Wheel!Deleted, Wheels
<1>5. /\ nx[t] = NULL /\ pv[t] = NULL /\ ro[t] = 0 /\ ts[t] = 0
      /\ \A u \in WheelTimers \ {t} : /\ nx[u] = w.next[u] /\ pv[u] = w.prev[u]
                                      /\ ro[u] = w.rotation[u] /\ ts[u] = w.time_slot[u]
  BY <1>2
<1> HIDE DEF nx, pv, ro, ts, d
<1>6. IsCleared(d, w, t)
  BY <1>3, <1>4, <1>5 DEF IsCleared
<1>7. QED
  BY <1>6 DEF d

(* Which links change when a timer is taken out.                           *)
LEMMA TakenOutIs ==
  ASSUME Wheel!WheelAssumption, NEW w \in Wheels, NEW t \in WheelTimers, NEW s \in Wheel!Ring, NEW back \in WheelLinks
  PROVE  IsTakenOut(TakenOut(w, t, s, back), w, t, s, back)
<1>1. NULL \notin WheelTimers /\ NULL \in WheelLinks /\ t \in WheelLinks
  BY WheelConstants DEF WheelLinks
<1>2. /\ w.next[t] \in WheelLinks /\ w.prev[t] \in WheelLinks /\ w.slots[s] \in WheelLinks
      /\ w.slots \in [Wheel!Ring -> WheelLinks]
  BY DEF Wheels
<1>3. CASE w.slots[s] = t
  <2> DEFINE x == [w EXCEPT !.slots[s] = w.next[t]]
             v == Wheel!SetPrev(x, w.next[t], NULL)
  <2>1. /\ x \in Wheels /\ x.next = w.next /\ x.prev = w.prev
        /\ x.rotation = w.rotation /\ x.time_slot = w.time_slot
        /\ \A q \in Wheel!Ring : x.slots[q] = IF q = s THEN w.next[t] ELSE w.slots[q]
    BY <1>2 DEF Wheels
  <2>2. Wheel!Beheaded(w, s) = v
    BY <1>3 DEF Wheel!Beheaded
  <2> HIDE DEF x
  <2>3. /\ v \in Wheels
        /\ v.slots = x.slots /\ v.next = x.next
        /\ v.rotation = x.rotation /\ v.time_slot = x.time_slot
        /\ \A u \in WheelTimers : v.prev[u] = IF u = w.next[t] THEN NULL ELSE x.prev[u]
    <3>1. HasPrev(v, x, w.next[t], NULL)
      BY <1>1, <1>2, <2>1, SetPrevIs
    <3>2. QED
      BY <3>1 DEF HasPrev
  <2> HIDE DEF v
  <2>4. TakenOut(w, t, s, back) = Wheel!Deleted(v, t)
    BY <1>3, <2>2 DEF TakenOut
  <2>5. QED
    <3>1. IsCleared(Wheel!Deleted(v, t), v, t)
      BY <2>3, DeletedIs
    <3>2. QED
      BY <1>3, <2>1, <2>3, <2>4, <3>1 DEF IsTakenOut, IsCleared
<1>4. CASE w.slots[s] # t
  <2> DEFINE x == Wheel!SetNext(w, w.prev[t], w.next[t])
             v == Wheel!SetPrev(x, w.next[t], back)
  <2>1. /\ x \in Wheels /\ x.slots = w.slots /\ x.prev = w.prev
        /\ x.rotation = w.rotation /\ x.time_slot = w.time_slot
        /\ \A u \in WheelTimers : x.next[u] = IF u = w.prev[t] THEN w.next[t] ELSE w.next[u]
    <3>1. HasNext(x, w, w.prev[t], w.next[t])
      BY <1>1, <1>2, SetNextIs
    <3>2. QED
      BY <3>1 DEF HasNext
  <2>2. Wheel!Unlinked(w, t, back) = v
    BY DEF Wheel!Unlinked
  <2> HIDE DEF x
  <2>3. /\ v \in Wheels
        /\ v.slots = x.slots /\ v.next = x.next
        /\ v.rotation = x.rotation /\ v.time_slot = x.time_slot
        /\ \A u \in WheelTimers : v.prev[u] = IF u = w.next[t] THEN back ELSE x.prev[u]
    <3>1. HasPrev(v, x, w.next[t], back)
      BY <1>1, <1>2, <2>1, SetPrevIs
    <3>2. QED
      BY <3>1 DEF HasPrev
  <2> HIDE DEF v
  <2>4. TakenOut(w, t, s, back) = Wheel!Deleted(v, t)
    BY <1>4, <2>2 DEF TakenOut
  <2>5. QED
    <3>1. IsCleared(Wheel!Deleted(v, t), v, t)
      BY <2>3, DeletedIs
    <3>2. QED
      BY <1>4, <2>1, <2>3, <2>4, <3>1 DEF IsTakenOut, IsCleared
<1>5. QED
  BY <1>3, <1>4

(* The lists of the slots: a list starts at its slot and stays in it, prev *)
(* undoes next, and a deleted timer has no prev.                           *)
HeadsOK(w, wi) ==
    \A s \in Wheel!Ring : w.slots[s] # NULL =>
        w.slots[s] \in wi /\ w.time_slot[w.slots[s]] = s /\ w.prev[w.slots[s]] = NULL

NextsOK(w, wi) ==
    \A t \in wi : w.next[t] # NULL =>
        w.next[t] \in wi /\ w.prev[w.next[t]] = t /\ w.time_slot[w.next[t]] = w.time_slot[t]

PrevsOK(w, wi) ==
    /\ \A t \in wi : IF w.prev[t] = NULL THEN w.slots[w.time_slot[t]] = t
                     ELSE w.prev[t] \in wi /\ w.next[w.prev[t]] = t
    /\ \A t \in WheelTimers \ wi : w.prev[t] = NULL

Linked(w, wi) == HeadsOK(w, wi) /\ NextsOK(w, wi) /\ PrevsOK(w, wi)

(* No list is a circle: along prev the rank falls, and no two timers have  *)
(* the same.                                                               *)
Ranked(w, wi, r) ==
    /\ r \in [WheelTimers -> Nat]
    /\ \A t \in wi : w.prev[t] # NULL => r[w.prev[t]] < r[t]
    /\ \A t, u \in wi : r[t] = r[u] => t = u

(* A timer can be taken out of its list, with the right prev or at the end. *)
LEMMA TakingOut ==
  ASSUME Wheel!WheelAssumption, NEW w \in Wheels, NEW wi \in SUBSET WheelTimers, Linked(w, wi),
         NEW r, Ranked(w, wi, r), NEW t \in wi, NEW back \in WheelLinks,
         w.slots[w.time_slot[t]] = t \/ back = w.prev[t] \/ w.next[t] = NULL
  PROVE  /\ Linked(TakenOut(w, t, w.time_slot[t], back), wi \ {t})
         /\ Ranked(TakenOut(w, t, w.time_slot[t], back), wi \ {t}, r)
<1> DEFINE s == w.time_slot[t]
           v == TakenOut(w, t, s, back)
<1>1. t \in WheelTimers /\ s \in Wheel!Ring /\ NULL \notin WheelTimers
  BY WheelConstants DEF Wheels
<1>2. IsTakenOut(v, w, t, s, back)
  BY <1>1, TakenOutIs
<1> DEFINE first == w.slots[s] = t
<1>3. first \/ back = w.prev[t] \/ w.next[t] = NULL
  OBVIOUS
<1>4. /\ \A q \in Wheel!Ring : v.slots[q] = IF q = s /\ first THEN w.next[t] ELSE w.slots[q]
      /\ v.prev[t] = NULL
      /\ \A u \in WheelTimers \ {t} :
            /\ v.next[u] = IF ~first /\ u = w.prev[t] THEN w.next[t] ELSE w.next[u]
            /\ v.prev[u] = IF u # w.next[t] THEN w.prev[u] ELSE IF first THEN NULL ELSE back
            /\ v.time_slot[u] = w.time_slot[u]
  BY <1>2 DEF IsTakenOut
<1>5. HeadsOK(w, wi) /\ NextsOK(w, wi) /\ PrevsOK(w, wi)
  BY DEF Linked
<1>6. \A u \in wi : u \in WheelTimers /\ w.time_slot[u] \in Wheel!Ring
  BY DEF Wheels
<1>s. s = w.time_slot[t]
  OBVIOUS
<1> HIDE DEF v, s
<1>7. w.next[t] # NULL => /\ w.next[t] \in wi /\ w.prev[w.next[t]] = t
                          /\ w.time_slot[w.next[t]] = s
  BY <1>5, <1>s DEF NextsOK
<1>8. IF first THEN w.prev[t] = NULL ELSE /\ w.prev[t] \in wi /\ w.next[w.prev[t]] = t
  BY <1>1, <1>5, <1>6, <1>s DEF PrevsOK, HeadsOK
<1>r. /\ r \in [WheelTimers -> Nat]
      /\ \A u \in wi : w.prev[u] # NULL => r[w.prev[u]] < r[u]
      /\ \A x, y \in wi : r[x] = r[y] => x = y
  BY DEF Ranked
<1>9. \A u \in wi : w.prev[u] # u /\ w.next[u] # u
  <2>1. ASSUME NEW u \in wi, w.prev[u] = u PROVE FALSE
    <3>1. r[u] < r[u] /\ r[u] \in Nat
      BY <1>1, <1>6, <1>r, <2>1
    <3>2. QED
      BY <3>1
  <2>2. \A u \in wi : w.next[u] = u => w.prev[u] = u
    BY <1>1, <1>5, <1>6 DEF NextsOK
  <2>3. QED
    BY <2>1, <2>2
<1>10. HeadsOK(v, wi \ {t})
  <2> SUFFICES ASSUME NEW q \in Wheel!Ring, v.slots[q] # NULL
               PROVE  /\ v.slots[q] \in wi \ {t} /\ v.time_slot[v.slots[q]] = q
                      /\ v.prev[v.slots[q]] = NULL
    BY DEF HeadsOK
  <2>1. CASE q = s /\ first
    <3>1. v.slots[q] = w.next[t] /\ w.next[t] \in wi /\ w.next[t] # t
      BY <1>4, <1>7, <1>9, <2>1
    <3>2. QED
      BY <1>4, <1>6, <1>7, <2>1, <3>1
  <2>2. CASE ~(q = s /\ first)
    <3> DEFINE h == w.slots[q]
    <3>1. v.slots[q] = h /\ h # NULL
      BY <1>4, <2>2
    <3>2. h \in wi /\ w.time_slot[h] = q /\ w.prev[h] = NULL
      BY <1>5, <3>1 DEF HeadsOK
    <3>3. h # t
      BY <1>s, <2>2, <3>2
    <3>4. h # w.next[t]
      BY <1>1, <1>7, <3>2, <3>1
    <3> HIDE DEF h
    <3>5. QED
      BY <1>4, <1>6, <3>1, <3>2, <3>3, <3>4
  <2>3. QED
    BY <2>1, <2>2
<1>11. NextsOK(v, wi \ {t})
  <2> SUFFICES ASSUME NEW u \in wi \ {t}, v.next[u] # NULL
               PROVE  /\ v.next[u] \in wi \ {t} /\ v.prev[v.next[u]] = u
                      /\ v.time_slot[v.next[u]] = v.time_slot[u]
    BY DEF NextsOK
  <2>1. CASE ~first /\ u = w.prev[t]
    <3>1. v.next[u] = w.next[t] /\ w.next[t] \in wi \ {t} /\ w.next[t] \in WheelTimers \ {t}
      BY <1>4, <1>6, <1>7, <1>9, <2>1
    <3>2. v.prev[w.next[t]] = u
      BY <1>1, <1>3, <1>4, <1>6, <2>1, <3>1
    <3>3. w.time_slot[t] = w.time_slot[u]
      BY <1>1, <1>5, <1>8, <2>1 DEF NextsOK
    <3>4. v.time_slot[w.next[t]] = s /\ v.time_slot[u] = s
      BY <1>1, <1>4, <1>6, <1>7, <1>s, <3>1, <3>3
    <3>5. QED
      BY <3>1, <3>2, <3>4
  <2>2. CASE ~(~first /\ u = w.prev[t])
    <3> DEFINE m == w.next[u]
    <3>1. v.next[u] = m /\ m # NULL /\ u \in WheelTimers /\ u # NULL
      BY <1>1, <1>4, <1>6, <2>2
    <3>2. m \in wi /\ w.prev[m] = u /\ w.time_slot[m] = w.time_slot[u]
      BY <1>5, <3>1 DEF NextsOK
    <3>3. m # t
      BY <1>8, <2>2, <3>1, <3>2
    <3>4. m # w.next[t]
      BY <1>7, <3>1, <3>2
    <3> HIDE DEF m
    <3>5. QED
      BY <1>4, <1>6, <3>1, <3>2, <3>3, <3>4
  <2>3. QED
    BY <2>1, <2>2
<1>12. ASSUME NEW u \in wi \ {t}
       PROVE  IF v.prev[u] = NULL THEN v.slots[v.time_slot[u]] = u
              ELSE v.prev[u] \in wi \ {t} /\ v.next[v.prev[u]] = u
  <2> DEFINE q == w.time_slot[u]
  <2>0. u \in WheelTimers /\ q \in Wheel!Ring /\ v.time_slot[u] = q /\ u # NULL
    BY <1>1, <1>4, <1>6
  <2>1. CASE u # w.next[t]
    <3> DEFINE p == w.prev[u]
    <3>1. v.prev[u] = p
      BY <1>4, <2>0, <2>1
    <3>2. CASE p = NULL
      <4>1. w.slots[q] = u
        BY <1>5, <3>2 DEF PrevsOK
      <4>2. v.slots[q] = u
        BY <1>4, <2>0, <4>1
      <4>3. QED
        BY <2>0, <3>1, <3>2, <4>2
    <3>3. CASE p # NULL
      <4>1. p \in wi /\ w.next[p] = u
        BY <1>5, <3>3 DEF PrevsOK
      <4>2. p # t
        BY <2>1, <4>1
      <4>3. ~(~first /\ p = w.prev[t])
        BY <1>8, <4>1
      <4>4. v.next[p] = u
        BY <1>4, <1>6, <4>1, <4>2, <4>3
      <4>5. QED
        BY <3>1, <3>3, <4>1, <4>2, <4>4
    <3>4. QED
      BY <3>2, <3>3
  <2>2. CASE u = w.next[t] /\ first
    <3>1. v.prev[u] = NULL
      BY <1>4, <2>0, <2>2
    <3>2. q = s
      BY <1>7, <2>0, <2>2
    <3>3. v.slots[q] = u
      BY <1>4, <2>0, <2>2, <3>2
    <3>4. QED
      BY <2>0, <3>1, <3>3
  <2>3. CASE u = w.next[t] /\ ~first
    <3>1. back = w.prev[t] /\ w.prev[t] \in wi /\ w.prev[t] # t
      BY <1>3, <1>8, <1>9, <2>0, <2>3
    <3>2. v.prev[u] = w.prev[t]
      BY <1>4, <2>0, <2>3, <3>1
    <3>3. v.next[w.prev[t]] = u /\ w.prev[t] # NULL
      BY <1>1, <1>4, <1>6, <2>3, <3>1
    <3>4. QED
      BY <3>1, <3>2, <3>3
  <2>4. QED
    BY <2>1, <2>2, <2>3
<1>13. ASSUME NEW u \in WheelTimers \ (wi \ {t}) PROVE v.prev[u] = NULL
  <2>1. CASE u = t
    BY <1>4, <2>1
  <2>2. CASE u # t
    <3>1. u \in WheelTimers \ wi /\ u # NULL
      BY <1>1, <2>2
    <3>2. u # w.next[t] /\ w.prev[u] = NULL
      BY <1>5, <1>7, <3>1 DEF PrevsOK
    <3>3. QED
      BY <1>4, <2>2, <3>2
  <2>3. QED
    BY <2>1, <2>2
<1>14. Linked(v, wi \ {t})
  BY <1>10, <1>11, <1>12, <1>13 DEF Linked, PrevsOK
<1>15. ASSUME NEW u \in wi \ {t}, v.prev[u] # NULL PROVE r[v.prev[u]] < r[u]
  <2>0. u \in WheelTimers /\ u \in wi
    BY <1>6
  <2>1. CASE u # w.next[t]
    <3>1. v.prev[u] = w.prev[u]
      BY <1>4, <2>0, <2>1
    <3>2. QED
      BY <1>15, <1>r, <2>0, <3>1
  <2>2. CASE u = w.next[t]
    <3>1. ~first /\ v.prev[u] = back
      BY <1>4, <1>15, <2>0, <2>2
    <3>2. back = w.prev[t] /\ w.prev[t] \in wi /\ w.prev[t] # NULL
      BY <1>1, <1>3, <1>6, <1>8, <2>0, <2>2, <3>1
    <3>3. w.prev[u] = t /\ t # NULL
      BY <1>1, <1>7, <2>0, <2>2
    <3>4. r[w.prev[t]] < r[t] /\ r[t] < r[u]
      BY <1>r, <2>0, <3>2, <3>3
    <3>5. r[w.prev[t]] \in Nat /\ r[t] \in Nat /\ r[u] \in Nat
      BY <1>1, <1>6, <1>r, <2>0, <3>2
    <3>6. QED
      BY <3>1, <3>2, <3>4, <3>5
  <2>3. QED
    BY <2>1, <2>2
<1>16. Ranked(v, wi \ {t}, r)
  BY <1>15, <1>r DEF Ranked
<1>17. QED
  BY <1>14, <1>16 DEF v, s

(* A new timer becomes the first of slot q. *)
Added(w, t, q, turns) ==
    Wheel!SetPrev([w EXCEPT !.rotation[t] = turns, !.time_slot[t] = q,
                      !.next[t] = w.slots[q], !.slots[q] = t],
            w.slots[q], t)

IsAdded(v, w, t, q, turns) ==
    /\ v \in Wheels
    /\ \A x \in Wheel!Ring : v.slots[x] = IF x = q THEN t ELSE w.slots[x]
    /\ \A u \in WheelTimers :
          /\ v.next[u] = IF u = t THEN w.slots[q] ELSE w.next[u]
          /\ v.prev[u] = IF u = w.slots[q] THEN t ELSE w.prev[u]
          /\ v.rotation[u] = IF u = t THEN turns ELSE w.rotation[u]
          /\ v.time_slot[u] = IF u = t THEN q ELSE w.time_slot[u]

(* Which links change when a timer is added.                               *)
LEMMA AddedIs ==
  ASSUME Wheel!WheelAssumption, NEW w \in Wheels, NEW t \in WheelTimers, NEW q \in Wheel!Ring, NEW turns \in Turns
  PROVE  IsAdded(Added(w, t, q, turns), w, t, q, turns)
<1>1. NULL \notin WheelTimers /\ NULL \in WheelLinks /\ t \in WheelLinks /\ w.slots[q] \in WheelLinks
  BY WheelConstants DEF WheelLinks, Wheels
<1> DEFINE x == [w EXCEPT !.rotation[t] = turns, !.time_slot[t] = q,
                          !.next[t] = w.slots[q], !.slots[q] = t]
           v == Wheel!SetPrev(x, w.slots[q], t)
<1>2. x \in Wheels
  BY <1>1 DEF Wheels
<1>3. /\ x.slots = [w.slots EXCEPT ![q] = t]
      /\ x.next = [w.next EXCEPT ![t] = w.slots[q]]
      /\ x.prev = w.prev
      /\ x.rotation = [w.rotation EXCEPT ![t] = turns]
      /\ x.time_slot = [w.time_slot EXCEPT ![t] = q]
  <2>1. x.slots = [w.slots EXCEPT ![q] = t]
    BY DEF Wheels
  <2>2. x.next = [w.next EXCEPT ![t] = w.slots[q]]
    BY DEF Wheels
  <2>3. x.prev = w.prev
    BY DEF Wheels
  <2>4. x.rotation = [w.rotation EXCEPT ![t] = turns]
    BY DEF Wheels
  <2>5. x.time_slot = [w.time_slot EXCEPT ![t] = q]
    BY DEF Wheels
  <2>6. QED
    BY <2>1, <2>2, <2>3, <2>4, <2>5
<1> HIDE DEF x
<1>4. HasPrev(v, x, w.slots[q], t)
  BY <1>1, <1>2, SetPrevIs
<1>5. Added(w, t, q, turns) = v
  BY DEF Added, x
<1> HIDE DEF v
<1>6. /\ w.slots \in [Wheel!Ring -> WheelLinks] /\ w.next \in [WheelTimers -> WheelLinks] /\ w.prev \in [WheelTimers -> WheelLinks]
      /\ w.rotation \in [WheelTimers -> Turns] /\ w.time_slot \in [WheelTimers -> Wheel!Ring]
  BY DEF Wheels
<1>7. /\ v \in Wheels
      /\ v.slots = x.slots /\ v.next = x.next
      /\ v.rotation = x.rotation /\ v.time_slot = x.time_slot
      /\ \A u \in WheelTimers : v.prev[u] = IF u = w.slots[q] THEN t ELSE x.prev[u]
  BY <1>4 DEF HasPrev
<1>8. IsAdded(v, w, t, q, turns)
  BY <1>3, <1>6, <1>7 DEF IsAdded
<1>9. QED
  BY <1>5, <1>8

(* It ranks before all others. *)
LEMMA Adding ==
  ASSUME Wheel!WheelAssumption, NEW w \in Wheels, NEW wi \in SUBSET WheelTimers, Linked(w, wi),
         NEW r, Ranked(w, wi, r), NEW t \in WheelTimers \ wi, NEW q \in Wheel!Ring, NEW turns \in Turns
  PROVE  /\ Linked(Added(w, t, q, turns), wi \cup {t})
         /\ Ranked(Added(w, t, q, turns), wi \cup {t}, [u \in WheelTimers |-> IF u = t THEN 0 ELSE r[u] + 1])
<1> DEFINE v == Added(w, t, q, turns)
           f == w.slots[q]
<1>1. IsAdded(v, w, t, q, turns) /\ NULL \notin WheelTimers
  BY AddedIs, WheelConstants
<1>2. /\ \A x \in Wheel!Ring : v.slots[x] = IF x = q THEN t ELSE w.slots[x]
      /\ \A u \in WheelTimers :
            /\ v.next[u] = IF u = t THEN f ELSE w.next[u]
            /\ v.prev[u] = IF u = f THEN t ELSE w.prev[u]
            /\ v.time_slot[u] = IF u = t THEN q ELSE w.time_slot[u]
  BY <1>1 DEF IsAdded
<1>3. HeadsOK(w, wi) /\ NextsOK(w, wi) /\ PrevsOK(w, wi)
  BY DEF Linked
<1>4. t # NULL /\ \A u \in wi : u \in WheelTimers /\ u # t /\ u # NULL /\ w.time_slot[u] \in Wheel!Ring
  BY <1>1 DEF Wheels
<1> HIDE DEF v
<1>5. f # NULL => f \in wi /\ w.time_slot[f] = q /\ w.prev[f] = NULL
  BY <1>3 DEF HeadsOK
<1>6. w.prev[t] = NULL /\ f # t /\ v.prev[t] = NULL
  BY <1>2, <1>3, <1>4, <1>5 DEF PrevsOK
<1> HIDE DEF f
<1>7. HeadsOK(v, wi \cup {t})
  <2> SUFFICES ASSUME NEW x \in Wheel!Ring, v.slots[x] # NULL
               PROVE  /\ v.slots[x] \in wi \cup {t} /\ v.time_slot[v.slots[x]] = x
                      /\ v.prev[v.slots[x]] = NULL
    BY DEF HeadsOK
  <2>1. CASE x = q
    BY <1>2, <1>6, <2>1
  <2>2. CASE x # q
    <3> DEFINE h == w.slots[x]
    <3>1. v.slots[x] = h /\ h # NULL
      BY <1>2, <2>2
    <3>2. h \in wi /\ w.time_slot[h] = x /\ w.prev[h] = NULL
      BY <1>3, <3>1 DEF HeadsOK
    <3>3. h # f
      BY <1>5, <2>2, <3>1, <3>2
    <3> HIDE DEF h
    <3>4. QED
      BY <1>2, <1>4, <3>1, <3>2, <3>3
  <2>3. QED
    BY <2>1, <2>2
<1>8. NextsOK(v, wi \cup {t})
  <2> SUFFICES ASSUME NEW u \in wi \cup {t}, v.next[u] # NULL
               PROVE  /\ v.next[u] \in wi \cup {t} /\ v.prev[v.next[u]] = u
                      /\ v.time_slot[v.next[u]] = v.time_slot[u]
    BY DEF NextsOK
  <2>1. CASE u = t
    <3>1. v.next[u] = f /\ f \in wi /\ f # NULL
      BY <1>2, <1>5, <2>1
    <3>2. QED
      BY <1>2, <1>4, <1>5, <2>1, <3>1
  <2>2. CASE u # t
    <3> DEFINE m == w.next[u]
    <3>1. u \in wi /\ v.next[u] = m /\ m # NULL
      BY <1>2, <1>4, <2>2
    <3>2. m \in wi /\ w.prev[m] = u /\ w.time_slot[m] = w.time_slot[u]
      BY <1>3, <3>1 DEF NextsOK
    <3>3. m # f
      BY <1>4, <1>5, <3>1, <3>2
    <3> HIDE DEF m
    <3>4. QED
      BY <1>2, <1>4, <3>1, <3>2, <3>3
  <2>3. QED
    BY <2>1, <2>2
<1>9. ASSUME NEW u \in wi \cup {t}
      PROVE  IF v.prev[u] = NULL THEN v.slots[v.time_slot[u]] = u
             ELSE v.prev[u] \in wi \cup {t} /\ v.next[v.prev[u]] = u
  <2>1. CASE u = t
    BY <1>2, <1>6, <2>1
  <2>2. CASE u = f /\ u # t
    <3>1. v.prev[u] = t /\ v.next[t] = f
      BY <1>2, <1>4, <2>2
    <3>2. QED
      BY <1>4, <2>2, <3>1
  <2>3. CASE u # f /\ u # t
    <3>1. u \in wi /\ v.prev[u] = w.prev[u] /\ v.time_slot[u] = w.time_slot[u]
      BY <1>2, <1>4, <2>3
    <3>2. CASE w.prev[u] = NULL
      <4>1. w.slots[w.time_slot[u]] = u
        BY <1>3, <3>1, <3>2 DEF PrevsOK
      <4>2. w.time_slot[u] # q /\ w.time_slot[u] \in Wheel!Ring
        BY <1>4, <2>3, <3>1, <4>1 DEF f
      <4>3. v.slots[w.time_slot[u]] = u
        BY <1>2, <4>1, <4>2
      <4>4. QED
        BY <3>1, <3>2, <4>3
    <3>3. CASE w.prev[u] # NULL
      <4>1. w.prev[u] \in wi /\ w.next[w.prev[u]] = u
        BY <1>3, <3>1, <3>3 DEF PrevsOK
      <4>2. v.next[w.prev[u]] = u
        BY <1>2, <1>4, <4>1
      <4>3. QED
        BY <3>1, <3>3, <4>1, <4>2
    <3>4. QED
      BY <3>2, <3>3
  <2>4. QED
    BY <2>1, <2>2, <2>3
<1>10. ASSUME NEW u \in WheelTimers \ (wi \cup {t}) PROVE v.prev[u] = NULL
  <2>1. u \in WheelTimers \ wi /\ w.prev[u] = NULL /\ u # f
    BY <1>1, <1>3, <1>5 DEF PrevsOK
  <2>2. QED
    BY <1>2, <2>1
<1>11. Linked(v, wi \cup {t})
  BY <1>7, <1>8, <1>9, <1>10 DEF Linked, PrevsOK
<1> DEFINE g == [u \in WheelTimers |-> IF u = t THEN 0 ELSE r[u] + 1]
<1>12. /\ r \in [WheelTimers -> Nat]
       /\ \A u \in wi : w.prev[u] # NULL => r[w.prev[u]] < r[u]
       /\ \A x, y \in wi : r[x] = r[y] => x = y
  BY DEF Ranked
<1>13. /\ g \in [WheelTimers -> Nat] /\ g[t] = 0
       /\ \A u \in wi : g[u] = r[u] + 1 /\ r[u] \in Nat
  BY <1>4, <1>12
<1> HIDE DEF g
<1>14. ASSUME NEW u \in wi \cup {t}, v.prev[u] # NULL PROVE g[v.prev[u]] < g[u]
  <2>1. u \in wi
    BY <1>6, <1>14
  <2>2. CASE u = f
    <3>1. v.prev[u] = t
      BY <1>2, <1>4, <2>1, <2>2
    <3>2. QED
      BY <1>13, <2>1, <3>1
  <2>3. CASE u # f
    <3>1. v.prev[u] = w.prev[u]
      BY <1>2, <1>4, <2>1, <2>3
    <3>2. w.prev[u] \in wi /\ r[w.prev[u]] < r[u]
      BY <1>3, <1>12, <1>14, <2>1, <3>1 DEF PrevsOK
    <3>3. QED
      BY <1>13, <2>1, <3>1, <3>2
  <2>4. QED
    BY <2>2, <2>3
<1>15. \A x, y \in wi \cup {t} : g[x] = g[y] => x = y
  <2>1. \A x \in wi : g[x] # 0
    BY <1>13
  <2>2. \A x, y \in wi : g[x] = g[y] => x = y
    BY <1>12, <1>13
  <2>3. QED
    BY <1>13, <2>1, <2>2
<1>16. Ranked(v, wi \cup {t}, g)
  BY <1>13, <1>14, <1>15 DEF Ranked
<1>17. QED
  BY <1>11, <1>16 DEF v, g

(* The first timer of a slot ranks first in it, ... *)
LEMMA HeadIsFirst ==
  ASSUME Wheel!WheelAssumption, NEW w \in Wheels, NEW wi \in SUBSET WheelTimers, Linked(w, wi),
         NEW r, Ranked(w, wi, r)
  PROVE  \A t \in wi : /\ w.slots[w.time_slot[t]] \in wi
                       /\ r[w.slots[w.time_slot[t]]] <= r[t]
<1> SUFFICES ASSUME NEW t \in wi
             PROVE  /\ w.slots[w.time_slot[t]] \in wi
                    /\ r[w.slots[w.time_slot[t]]] <= r[t]
  OBVIOUS
<1> DEFINE s == w.time_slot[t]
           D == {r[u] : u \in {x \in wi : w.time_slot[x] = s}}
<1>1. /\ \A u \in wi : u \in WheelTimers /\ r[u] \in Nat /\ w.time_slot[u] \in Wheel!Ring
      /\ \A u \in wi : w.prev[u] # NULL => r[w.prev[u]] < r[u]
  BY DEF Ranked, Wheels
<1>2. D \in SUBSET Nat /\ r[t] \in D
  BY <1>1
<1>3. PICK m \in D : \A y \in D : m <= y
  BY <1>2, Smallest
<1>4. PICK h \in wi : w.time_slot[h] = s /\ r[h] = m
  BY <1>3
<1>5. \A u \in wi : w.time_slot[u] = s => r[h] <= r[u]
  BY <1>3, <1>4
<1> HIDE DEF D, s
<1>6. w.prev[h] = NULL
  <2> SUFFICES ASSUME w.prev[h] # NULL PROVE FALSE
    OBVIOUS
  <2>1. w.prev[h] \in wi /\ w.next[w.prev[h]] = h /\ r[w.prev[h]] < r[h]
    BY <1>1, <1>4 DEF Linked, PrevsOK
  <2>2. h # NULL
    BY <1>1, WheelConstants
  <2>3. w.time_slot[w.prev[h]] = s
    BY <1>4, <2>1, <2>2 DEF Linked, NextsOK
  <2>4. r[h] <= r[w.prev[h]] /\ r[h] \in Nat /\ r[w.prev[h]] \in Nat
    BY <1>1, <1>5, <2>1, <2>3
  <2>5. QED
    BY <2>1, <2>4
<1>7. w.slots[s] = h
  BY <1>4, <1>6 DEF Linked, PrevsOK
<1>8. QED
  BY <1>4, <1>5, <1>7 DEF s

(* ... and next leads to the timer that ranks next in it. *)
LEMMA NextRanksNext ==
  ASSUME Wheel!WheelAssumption, NEW w \in Wheels, NEW wi \in SUBSET WheelTimers, Linked(w, wi),
         NEW r, Ranked(w, wi, r)
  PROVE  \A u, t \in wi : w.time_slot[u] = w.time_slot[t] /\ r[u] < r[t] =>
            w.next[u] \in wi /\ r[w.next[u]] <= r[t]
<1> DEFINE Gap(u, t) == /\ w.time_slot[u] = w.time_slot[t] /\ r[u] < r[t]
                        /\ ~(w.next[u] \in wi /\ r[w.next[u]] <= r[t])
           D == {r[t] : t \in {x \in wi : \E u \in wi : Gap(u, x)}}
<1>1. /\ \A u \in wi : u \in WheelTimers /\ u # NULL /\ r[u] \in Nat /\ w.time_slot[u] \in Wheel!Ring
      /\ \A u \in wi : w.prev[u] # NULL => r[w.prev[u]] < r[u]
      /\ \A x, y \in wi : r[x] = r[y] => x = y
  BY WheelConstants DEF Ranked, Wheels
<1> SUFFICES ASSUME D # {} PROVE FALSE
  OBVIOUS
<1>2. PICK m \in D : \A y \in D : m <= y
  <2>1. D \in SUBSET Nat
    BY <1>1
  <2>2. QED
    BY <2>1, Smallest
<1>3. PICK t \in wi : r[t] = m /\ \E u \in wi : Gap(u, t)
  BY <1>2
<1>4. PICK u \in wi : Gap(u, t)
  BY <1>3
<1>5. \A x \in wi : r[x] < r[t] => \A y \in wi : ~Gap(y, x)
  <2> SUFFICES ASSUME NEW x \in wi, r[x] < r[t], NEW y \in wi, Gap(y, x) PROVE FALSE
    OBVIOUS
  <2>1. r[x] \in D
    OBVIOUS
  <2>2. r[t] <= r[x] /\ r[t] \in Nat /\ r[x] \in Nat
    BY <1>1, <1>2, <1>3, <2>1
  <2>3. QED
    BY <2>2
<1> HIDE DEF D
<1>6. /\ w.time_slot[u] = w.time_slot[t] /\ r[u] < r[t]
      /\ ~(w.next[u] \in wi /\ r[w.next[u]] <= r[t])
  BY <1>4
<1>7. w.prev[t] # NULL
  <2> SUFFICES ASSUME w.prev[t] = NULL PROVE FALSE
    OBVIOUS
  <2>1. w.slots[w.time_slot[t]] = t
    BY DEF Linked, PrevsOK
  <2>2. r[t] <= r[u]
    BY <1>6, <2>1, HeadIsFirst
  <2>3. r[t] \in Nat /\ r[u] \in Nat
    BY <1>1
  <2>4. QED
    BY <1>6, <2>2, <2>3
<1> DEFINE v == w.prev[t]
<1>8. v \in wi /\ w.next[v] = t /\ r[v] < r[t]
  BY <1>1, <1>7 DEF Linked, PrevsOK
<1>9. w.time_slot[v] = w.time_slot[t]
  BY <1>1, <1>8 DEF Linked, NextsOK
<1> HIDE DEF v
<1>10. r[u] \in Nat /\ r[v] \in Nat /\ r[t] \in Nat
  BY <1>1, <1>8
<1>11. CASE r[u] < r[v]
  <2>1. ~Gap(u, v)
    BY <1>5, <1>8
  <2>2. w.next[u] \in wi /\ r[w.next[u]] <= r[v]
    BY <1>6, <1>9, <1>11, <2>1
  <2>3. r[w.next[u]] \in Nat
    BY <1>1, <2>2
  <2>4. QED
    BY <1>6, <1>8, <1>10, <2>2, <2>3
<1>12. CASE r[u] = r[v]
  <2>1. u = v
    BY <1>1, <1>8, <1>12
  <2>2. w.next[u] = t /\ r[t] <= r[t]
    BY <1>8, <1>10, <2>1
  <2>3. QED
    BY <1>6, <2>2
<1>13. CASE r[v] < r[u]
  <2>1. ~Gap(v, u)
    BY <1>5, <1>6, <1>8
  <2>2. r[t] <= r[u]
    BY <1>6, <1>8, <1>9, <1>13, <2>1
  <2>3. QED
    BY <1>6, <1>10, <2>2
<1>14. QED
  BY <1>10, <1>11, <1>12, <1>13

-------------------------------------------------------------------------------
(* What the loop of tick() does *)

(* What a pass starts from and leaves. *)
Passes == [w : Wheels, at : WheelLinks, wired : SUBSET WheelTimers,
           end : {"none", "deleted timer"}, spoiled : BOOLEAN]

(* A timer that waits has one rotation less. *)
Turned(w, t) == [w EXCEPT !.rotation[t] = @ - 1]

IsTurned(v, w, t) ==
    /\ v \in Wheels
    /\ v.slots = w.slots /\ v.next = w.next /\ v.prev = w.prev /\ v.time_slot = w.time_slot
    /\ \A u \in WheelTimers : v.rotation[u] = IF u = t THEN w.rotation[t] - 1 ELSE w.rotation[u]

(* A rotation that is not 0 can be lowered.                                *)
LEMMA TurnedIs ==
  ASSUME Wheel!WheelAssumption, NEW w \in Wheels, NEW t \in WheelTimers, Wheel!Waits(w, t)
  PROVE  IsTurned(Turned(w, t), w, t)
<1>1. w.rotation[t] - 1 \in Turns /\ w.rotation \in [WheelTimers -> Turns]
  <2>1. w.rotation[t] \in Turns /\ w.rotation[t] > 0 /\ w.rotation \in [WheelTimers -> Turns]
    BY DEF Wheel!Waits, Wheels
  <2>2. MaxTimeout \div Slots \in Nat
    BY WheelConstants
  <2>3. QED
    BY <2>1, <2>2 DEF Turns
<1> DEFINE v == Turned(w, t)
           ro == [w.rotation EXCEPT ![t] = w.rotation[t] - 1]
<1>2. v.slots = w.slots
  BY DEF Turned, Wheels
<1>3. v.next = w.next
  BY DEF Turned, Wheels
<1>4. v.prev = w.prev
  BY DEF Turned, Wheels
<1>5. v.time_slot = w.time_slot
  BY DEF Turned, Wheels
<1>6. v.rotation = ro
  BY DEF Turned, Wheels
<1>7. v \in Wheels
  BY <1>1 DEF Turned, Wheels
<1>8. \A u \in WheelTimers : ro[u] = IF u = t THEN w.rotation[t] - 1 ELSE w.rotation[u]
  BY <1>1
<1> HIDE DEF v, ro
<1>9. IsTurned(v, w, t)
  BY <1>2, <1>3, <1>4, <1>5, <1>6, <1>7, <1>8 DEF IsTurned
<1>10. QED
  BY <1>9 DEF v

(* The three ways a pass goes that does not stop. *)
PassWaits(q, p) ==
    /\ q.w = Turned(p.w, p.at) /\ q.at = p.w.next[p.at]
    /\ q.wired = p.wired /\ q.end = p.end /\ q.spoiled = p.spoiled

PassFires(q, p) ==
    /\ q.w = TakenOut(p.w, p.at, cur_slot, p.w.next[p.at]) /\ q.at = p.w.next[p.at]
    /\ q.wired = p.wired \ {p.at}
    /\ (p.w.slots[cur_slot] = p.at \/ p.w.prev[p.at] \in p.wired \cup {NULL})
         /\ p.w.next[p.at] \in p.wired \cup {NULL} => q.end = "none"
    /\ q.spoiled = (p.spoiled \/ (p.w.slots[cur_slot] # p.at /\ p.w.next[p.at] # NULL))

(* A pass goes in one of these ways, and keeps what it was told before.    *)
LEMMA PassIs ==
  ASSUME Wheel!WheelAssumption, cur_slot \in Wheel!Ring, NEW p \in Passes
  PROVE  /\ Wheel!Pass(p) \in Passes
         /\ p.at = NULL \/ p.end # "none" => Wheel!Pass(p) = p
         /\ p.spoiled => Wheel!Pass(p).spoiled
         /\ p.end = "none" /\ p.at \in p.wired /\ Wheel!Waits(p.w, p.at) => PassWaits(Wheel!Pass(p), p)
         /\ p.end = "none" /\ p.at \in p.wired /\ ~Wheel!Waits(p.w, p.at) => PassFires(Wheel!Pass(p), p)
<1> DEFINE t     == p.at
           later == p.w.next[t]
           first == p.w.slots[cur_slot] = t
           q     == Wheel!Pass(p)
<1>1. /\ p.w \in Wheels /\ t \in WheelLinks /\ p.wired \in SUBSET WheelTimers
      /\ p.end \in {"none", "deleted timer"} /\ p.spoiled \in BOOLEAN
      /\ p = [w |-> p.w, at |-> t, wired |-> p.wired, end |-> p.end, spoiled |-> p.spoiled]
  BY DEF Passes
<1>2. NULL \notin WheelTimers
  BY WheelConstants
<1>3. CASE t = NULL \/ p.end # "none"
  <2>1. q = p
    BY <1>3 DEF Wheel!Pass
  <2>2. p.at \notin p.wired \/ p.end # "none"
    BY <1>1, <1>2, <1>3
  <2>3. QED
    BY <1>3, <2>1, <2>2
<1>4. CASE ~(t = NULL \/ p.end # "none") /\ t \notin p.wired
  <2>1. q = [p EXCEPT !.end = "deleted timer"]
    BY <1>4 DEF Wheel!Pass
  <2> HIDE DEF q
  <2>2. q \in Passes
    BY <2>1 DEF Passes
  <2>3. q.spoiled = p.spoiled
    BY <2>1 DEF Passes
  <2>4. QED
    BY <1>4, <2>2, <2>3 DEF q
<1>5. CASE ~(t = NULL \/ p.end # "none") /\ t \in p.wired /\ Wheel!Waits(p.w, t)
  <2>1. q = [p EXCEPT !.w.rotation[t] = @ - 1, !.at = later]
    BY <1>5 DEF Wheel!Pass
  <2>t. t \in WheelTimers
    BY <1>1, <1>5
  <2>2. IsTurned(Turned(p.w, t), p.w, t)
    BY <1>1, <1>5, <2>t, TurnedIs
  <2>3. Turned(p.w, t) \in Wheels /\ later \in WheelLinks
    BY <1>1, <2>2, <2>t DEF IsTurned, Wheels
  <2>4. q = [w |-> Turned(p.w, t), at |-> later, wired |-> p.wired, end |-> p.end,
             spoiled |-> p.spoiled]
    BY <2>1 DEF Turned, Passes
  <2> HIDE DEF q, t, later
  <2>5. q \in Passes
    BY <1>1, <2>3, <2>4 DEF Passes
  <2>6. QED
    BY <1>5, <2>4, <2>5 DEF q, t, later, PassWaits
<1>6. CASE ~(t = NULL \/ p.end # "none") /\ t \in p.wired /\ ~Wheel!Waits(p.w, t)
  <2>t. t \in WheelTimers
    BY <1>1, <1>6
  <2>l. later \in WheelLinks
    BY <1>1, <2>t DEF Wheels
  <2> DEFINE e == IF ({later} \cup IF first THEN {} ELSE {p.w.prev[t]}) \subseteq p.wired \cup {NULL}
                  THEN "none" ELSE "deleted timer"
             sp == p.spoiled \/ (~first /\ later # NULL)
  <2>1. q = [w |-> TakenOut(p.w, t, cur_slot, later), at |-> later, wired |-> p.wired \ {t},
             end |-> e, spoiled |-> sp]
    BY <1>6 DEF Wheel!Pass, TakenOut
  <2>2. TakenOut(p.w, t, cur_slot, later) \in Wheels
    <3>1. IsTakenOut(TakenOut(p.w, t, cur_slot, later), p.w, t, cur_slot, later)
      BY <1>1, <2>t, <2>l, TakenOutIs
    <3>2. QED
      BY <3>1 DEF IsTakenOut
  <2>3. e \in {"none", "deleted timer"} /\ sp \in BOOLEAN /\ p.wired \ {t} \in SUBSET WheelTimers
    BY <1>1
  <2>4. (first \/ p.w.prev[t] \in p.wired \cup {NULL}) /\ later \in p.wired \cup {NULL} => e = "none"
    OBVIOUS
  <2>5. p.spoiled => sp
    OBVIOUS
  <2>6. sp = (p.spoiled \/ (p.w.slots[cur_slot] # t /\ later # NULL))
    OBVIOUS
  <2> HIDE DEF q, t, later, e, sp
  <2>7. q \in Passes
    BY <2>1, <2>2, <2>3, <2>l DEF Passes
  <2>8. /\ q.w = TakenOut(p.w, t, cur_slot, later) /\ q.at = later /\ q.wired = p.wired \ {t}
        /\ q.end = e /\ q.spoiled = sp
    BY <2>1
  <2>9. PassFires(q, p)
    BY <2>4, <2>6, <2>8 DEF PassFires, t, later
  <2>10. QED
    BY <1>6, <2>5, <2>7, <2>8, <2>9 DEF q, t
<1>7. QED
  BY <1>3, <1>4, <1>5, <1>6

(* loop of tick() over n passes from the pass p. *)
IsLoop(f, p, n) == f = [k \in 0 .. n |-> IF k = 0 THEN p ELSE Wheel!Pass(f[k - 1])]

(* Every number of passes has its loop.                                    *)
LEMMA LoopsExist ==
  ASSUME NEW p, NEW n \in Nat
  PROVE  \E f : IsLoop(f, p, n)
<1> DEFINE D == {m \in Nat : ~\E f : IsLoop(f, p, m)}
<1> SUFFICES ASSUME D # {} PROVE FALSE
  OBVIOUS
<1>1. PICK m \in D : \A k \in D : m <= k
  <2>1. D \in SUBSET Nat
    OBVIOUS
  <2>2. QED
    BY <2>1, Smallest
<1>2. m \in Nat /\ ~\E f : IsLoop(f, p, m)
  OBVIOUS
<1>3. CASE m = 0
  <2> DEFINE g == [k \in 0 .. 0 |-> p]
  <2>1. g = [k \in 0 .. 0 |-> IF k = 0 THEN p ELSE Wheel!Pass(g[k - 1])]
    OBVIOUS
  <2>2. IsLoop(g, p, m)
    BY <1>3, <2>1 DEF IsLoop
  <2>3. QED
    BY <1>2, <2>2
<1>4. CASE m # 0
  <2>1. m - 1 \in Nat /\ m - 1 \notin D
    BY <1>1, <1>2, <1>4
  <2>2. PICK f : IsLoop(f, p, m - 1)
    BY <2>1
  <2> HIDE DEF D
  <2> DEFINE val(h, k) == IF k = 0 THEN p ELSE Wheel!Pass(h[k - 1])
             g == [k \in 0 .. m |-> IF k = m THEN Wheel!Pass(f[m - 1]) ELSE f[k]]
  <2>3. f = [k \in 0 .. m - 1 |-> val(f, k)]
    BY <2>2 DEF IsLoop
  <2>4. \A k \in 0 .. m : /\ k = m \/ k \in 0 .. m - 1
                          /\ k # 0 => k - 1 \in 0 .. m /\ k - 1 # m /\ k - 1 \in 0 .. m - 1
    BY <1>2
  <2>5. \A k \in 0 .. m - 1 : f[k] = val(f, k)
    BY <2>3
  <2>6. /\ g[m] = Wheel!Pass(f[m - 1])
        /\ \A k \in 0 .. m : k # m => g[k] = f[k]
    BY <1>2
  <2>7. ASSUME NEW k \in 0 .. m PROVE g[k] = val(g, k)
    <3>1. k # 0 => g[k - 1] = f[k - 1]
      BY <2>4, <2>6
    <3>2. k = m => g[k] = val(f, k)
      BY <1>4, <2>6
    <3>3. k # m => g[k] = val(f, k)
      BY <2>4, <2>5, <2>6
    <3> HIDE DEF g
    <3>4. QED
      BY <3>1, <3>2, <3>3
  <2>8. g = [k \in 0 .. m |-> val(g, k)]
    <3> HIDE DEF val
    <3>1. g = [k \in 0 .. m |-> g[k]]
      OBVIOUS
    <3> HIDE DEF g
    <3>2. QED
      BY <2>7, <3>1, Zenon
  <2>9. IsLoop(g, p, m)
    <3> HIDE DEF g
    <3>1. QED
      BY <2>8 DEF IsLoop
  <2>10. QED
    BY <1>2, <2>9
<1>5. QED
  BY <1>3, <1>4

(* A loop goes pass by pass. *)
GoesBy(f, p, n) == f[0] = p /\ \A k \in 1 .. n : k - 1 \in 0 .. n /\ f[k] = Wheel!Pass(f[k - 1])

(* A loop starts at its first pass and goes on pass by pass.               *)
LEMMA LoopStep ==
  ASSUME NEW p, NEW n \in Nat, NEW f, IsLoop(f, p, n)
  PROVE  GoesBy(f, p, n)
<1>1. 0 \in 0 .. n /\ \A k \in 1 .. n : k \in 0 .. n /\ k - 1 \in 0 .. n /\ k # 0
  OBVIOUS
<1> DEFINE val(k) == IF k = 0 THEN p ELSE Wheel!Pass(f[k - 1])
<1>2. f = [k \in 0 .. n |-> val(k)]
  BY DEF IsLoop
<1>3. \A k \in 0 .. n : f[k] = val(k)
  <2> HIDE DEF val
  <2>1. QED
    BY <1>2
<1>4. QED
  BY <1>1, <1>3 DEF GoesBy

(* What a pass leaves another can start from. *)
LEMMA LoopTypes ==
  ASSUME Wheel!WheelAssumption, cur_slot \in Wheel!Ring, NEW p \in Passes, NEW n \in Nat,
         NEW f, IsLoop(f, p, n)
  PROVE  \A k \in 0 .. n : f[k] \in Passes
<1>3. f[0] = p /\ \A k \in 1 .. n : k - 1 \in 0 .. n /\ f[k] = Wheel!Pass(f[k - 1])
  <2>1. GoesBy(f, p, n)
    BY LoopStep
  <2>2. QED
    BY <2>1 DEF GoesBy
<1> DEFINE D == {k \in 0 .. n : f[k] \notin Passes}
<1> SUFFICES ASSUME D # {} PROVE FALSE
  OBVIOUS
<1>1. PICK m \in D : \A k \in D : m <= k
  <2>1. D \in SUBSET Nat
    OBVIOUS
  <2>2. QED
    BY <2>1, Smallest
<1>2. m \in 0 .. n /\ f[m] \notin Passes
  OBVIOUS
<1>4. CASE m = 0
  BY <1>2, <1>3, <1>4
<1>5. CASE m # 0
  <2>1. m \in 1 .. n /\ ~(m <= m - 1)
    BY <1>2, <1>5
  <2>2. m - 1 \notin D
    BY <1>1, <2>1
  <2>3. f[m - 1] \in Passes
    BY <1>3, <2>1, <2>2
  <2>4. Wheel!Pass(f[m - 1]) \in Passes
    BY <2>3, PassIs
  <2>5. QED
    BY <1>2, <1>3, <2>1, <2>4
<1>6. QED
  BY <1>4, <1>5

(* A tick has at least as many passes as there are timers. *)
LEMMA PassesAreEnough ==
  ASSUME Wheel!WheelAssumption
  PROVE  /\ Cardinality(WheelTimers) * (MaxTimeout + 1) \in Nat
         /\ Cardinality(WheelTimers) \in 0 .. Cardinality(WheelTimers) * (MaxTimeout + 1)
<1>1. Cardinality(WheelTimers) \in Nat /\ MaxTimeout \in Nat
  BY WheelConstants, FS_CardinalityType
<1> DEFINE x == Cardinality(WheelTimers)
<1> HIDE DEF x
<1>2. ASSUME x \in Nat PROVE x * (MaxTimeout + 1) \in Nat /\ x <= x * (MaxTimeout + 1)
  <2>1. MaxTimeout \in Nat /\ x \in Nat
    BY <1>1, <1>2
  <2>2. QED
    BY <2>1
<1>3. QED
  BY <1>1, <1>2 DEF x

(* The timers of slot s of w that are still to be visited at p, ...        *)
Ahead(p, s, w, wi, r) == {t \in wi : w.time_slot[t] = s /\ p.at # NULL /\ r[p.at] <= r[t]}

(* ... the others, which it has visited, ... *)
Treated(p, w, wi, r) ==
    \A t \in wi :
       /\ w.time_slot[t] # cur_slot \/ t \in Ahead(p, cur_slot, w, wi, r) =>
             t \in p.wired /\ p.w.rotation[t] = w.rotation[t]
       /\ w.time_slot[t] = cur_slot /\ t \notin Ahead(p, cur_slot, w, wi, r) =>
             /\ w.rotation[t] = 0 => t \notin p.wired
             /\ w.rotation[t] # 0 => t \in p.wired /\ p.w.rotation[t] = w.rotation[t] - 1

(* ... and how a tick from the lists of w stands after k passes that have  *)
(* spoiled none.                                                           *)
Ticking(p, k, w, wi, r) ==
    /\ p.end = "none" /\ p.wired \subseteq wi
    /\ Linked(p.w, p.wired) /\ Ranked(p.w, p.wired, r)
    /\ p.at # NULL => p.at \in p.wired /\ w.time_slot[p.at] = cur_slot
    /\ \A t \in p.wired : p.w.time_slot[t] = w.time_slot[t]
    /\ Treated(p, w, wi, r)
    /\ p.at # NULL => k + Cardinality(Ahead(p, cur_slot, w, wi, r)) <= Cardinality(WheelTimers)

(* From p the lists of w lead on, as far as slot s is still to be visited. *)
OnTheWay(p, s, w, wi, r) ==
    /\ p.wired \subseteq wi /\ Linked(p.w, p.wired) /\ Ranked(p.w, p.wired, r)
    /\ p.at \in p.wired /\ w.time_slot[p.at] = s
    /\ \A t \in p.wired : p.w.time_slot[t] = w.time_slot[t]
    /\ Ahead(p, s, w, wi, r) \subseteq p.wired

(* The next timer is visited next. *)
Visits(q, p, s, w, wi, r) ==
    /\ Ahead(q, s, w, wi, r) = Ahead(p, s, w, wi, r) \ {p.at} /\ p.at \in Ahead(p, s, w, wi, r)
    /\ q.at # NULL => q.at \in p.wired \ {p.at} /\ w.time_slot[q.at] = s

(* Taking one step along next leaves one timer less to visit.              *)
LEMMA AheadFalls ==
  ASSUME Wheel!WheelAssumption, NEW s \in Wheel!Ring,
         NEW w \in Wheels, NEW wi \in SUBSET WheelTimers, NEW r,
         NEW p \in Passes, OnTheWay(p, s, w, wi, r),
         NEW q, q.at = p.w.next[p.at]
  PROVE  Visits(q, p, s, w, wi, r)
<1> DEFINE t     == p.at
           later == q.at
<1>1. /\ p.wired \subseteq wi /\ Linked(p.w, p.wired) /\ Ranked(p.w, p.wired, r)
      /\ t \in p.wired /\ w.time_slot[t] = s
      /\ \A u \in p.wired : p.w.time_slot[u] = w.time_slot[u]
  BY DEF OnTheWay
<1>2. p.w \in Wheels /\ p.wired \in SUBSET WheelTimers
  BY DEF Passes
<1>3. \A u \in Ahead(p, s, w, wi, r) : u \in p.wired
  BY DEF OnTheWay
<1>4. /\ \A u \in p.wired : u \in WheelTimers /\ u # NULL /\ r[u] \in Nat
      /\ \A u \in p.wired : p.w.prev[u] # NULL => r[p.w.prev[u]] < r[u]
      /\ \A x, y \in p.wired : r[x] = r[y] => x = y
  BY <1>1, <1>2, WheelConstants DEF Ranked
<1>5. later # NULL => /\ later \in p.wired /\ r[t] < r[later]
                      /\ w.time_slot[later] = s
  BY <1>1, <1>4 DEF Linked, NextsOK
<1>6. ASSUME NEW u \in Ahead(p, s, w, wi, r), u # t
      PROVE  later \in p.wired /\ r[later] <= r[u]
  <2>1. u \in p.wired /\ w.time_slot[u] = s /\ r[t] <= r[u]
    BY <1>3 DEF Ahead
  <2>2. r[t] < r[u]
    <3>1. r[t] \in Nat /\ r[u] \in Nat /\ r[t] # r[u]
      BY <1>1, <1>4, <1>6, <2>1
    <3>2. QED
      BY <2>1, <3>1
  <2>3. p.w.time_slot[t] = p.w.time_slot[u]
    BY <1>1, <2>1
  <2>4. QED
    <3>1. \A x, y \in p.wired : p.w.time_slot[x] = p.w.time_slot[y] /\ r[x] < r[y] =>
            p.w.next[x] \in p.wired /\ r[p.w.next[x]] <= r[y]
      BY <1>1, <1>2, NextRanksNext
    <3>2. QED
      BY <1>1, <2>1, <2>2, <2>3, <3>1
<1>7. t \in Ahead(p, s, w, wi, r)
  BY <1>1, <1>4 DEF Ahead
<1>8. ASSUME NEW u \in Ahead(q, s, w, wi, r)
      PROVE  u \in Ahead(p, s, w, wi, r) /\ u # t
  <2>1. u \in wi /\ w.time_slot[u] = s /\ later # NULL /\ r[later] <= r[u]
    BY DEF Ahead
  <2>2. r[t] < r[later] /\ r[t] \in Nat /\ r[later] \in Nat
    BY <1>1, <1>4, <1>5, <2>1
  <2>3. r[u] \in Nat
    <3>1. r \in [WheelTimers -> Nat] /\ u \in WheelTimers
      BY <1>1, <2>1 DEF Ranked
    <3>2. QED
      BY <3>1
  <2>4. r[t] < r[u]
    BY <2>1, <2>2, <2>3
  <2>5. r[t] <= r[u] /\ u # t
    BY <2>2, <2>3, <2>4
  <2>6. QED
    BY <1>1, <1>4, <2>1, <2>5 DEF Ahead
<1>9. ASSUME NEW u \in Ahead(p, s, w, wi, r), u # t
      PROVE  u \in Ahead(q, s, w, wi, r)
  BY <1>1, <1>4, <1>6, <1>9 DEF Ahead
<1>10. later # NULL => later # t
  <2>1. r[t] \in Nat
    BY <1>1, <1>4
  <2>2. QED
    BY <1>5, <2>1
<1>11. QED
  BY <1>5, <1>7, <1>8, <1>9, <1>10 DEF Visits

(* The loop keeps going so until it is at the end of the list. *)
LEMMA TickingStep ==
  ASSUME Wheel!WheelAssumption, cur_slot \in Wheel!Ring,
         NEW w \in Wheels, NEW wi \in SUBSET WheelTimers, NEW r,
         NEW p \in Passes, NEW k \in Nat, Ticking(p, k, w, wi, r), ~Wheel!Pass(p).spoiled
  PROVE  Ticking(Wheel!Pass(p), k + 1, w, wi, r)
<1> DEFINE t     == p.at
           later == p.w.next[t]
           q     == Wheel!Pass(p)
           A     == Ahead(p, cur_slot, w, wi, r)
           B     == Ahead(q, cur_slot, w, wi, r)
<1>1. /\ p.end = "none" /\ p.wired \subseteq wi
      /\ Linked(p.w, p.wired) /\ Ranked(p.w, p.wired, r)
      /\ t # NULL => t \in p.wired /\ w.time_slot[t] = cur_slot
      /\ \A u \in p.wired : p.w.time_slot[u] = w.time_slot[u]
      /\ t # NULL => k + Cardinality(A) <= Cardinality(WheelTimers)
      /\ Treated(p, w, wi, r)
  BY DEF Ticking
<1>2. /\ q \in Passes
      /\ t = NULL => q = p
      /\ t \in p.wired /\ Wheel!Waits(p.w, t) => PassWaits(q, p)
      /\ t \in p.wired /\ ~Wheel!Waits(p.w, t) => PassFires(q, p)
  BY <1>1, PassIs
<1>3. p.w \in Wheels /\ p.wired \in SUBSET WheelTimers
  BY DEF Passes
<1>4. \A u \in p.wired : u \in WheelTimers /\ u # NULL
  BY <1>3, WheelConstants
<1>5. CASE t = NULL
  <2>1. q = p
    BY <1>2, <1>5
  <2> HIDE DEF q
  <2>2. QED
    BY <1>5, <2>1 DEF Ticking, q
<1>6. CASE t # NULL
  <2>1. t \in p.wired /\ w.time_slot[t] = cur_slot /\ t \in wi
    BY <1>1, <1>6
  <2>2. q.at = later
    BY <1>2, <2>1 DEF PassWaits, PassFires
  <2> HIDE DEF q
  <2>3. /\ B = A \ {t} /\ t \in A
        /\ later # NULL => later \in p.wired \ {t} /\ w.time_slot[later] = cur_slot
    <3>1. q.at = p.w.next[p.at] /\ p.at # NULL
      BY <1>6, <2>2
    <3>2. OnTheWay(p, cur_slot, w, wi, r)
      <4>1. A \subseteq p.wired
        BY <1>1 DEF Treated, Ahead
      <4>2. QED
        BY <1>1, <2>1, <4>1 DEF OnTheWay
    <3>3. Visits(q, p, cur_slot, w, wi, r)
      BY <3>1, <3>2, AheadFalls
    <3>4. QED
      BY <2>2, <3>3 DEF Visits
  <2>4. k + 1 + Cardinality(B) <= Cardinality(WheelTimers)
    <3>1. IsFiniteSet(A)
      <4>1. A \subseteq WheelTimers
        BY DEF Ahead
      <4>2. QED
        BY <4>1, FS_Subset, WheelConstants
    <3> HIDE DEF A, B
    <3>2. Cardinality(B) = Cardinality(A) - 1 /\ Cardinality(A) \in Nat
      BY <2>3, <3>1, FS_RemoveElement, FS_CardinalityType
    <3>3. k + Cardinality(A) <= Cardinality(WheelTimers) /\ Cardinality(WheelTimers) \in Nat
      BY <1>1, <1>6, FS_CardinalityType, WheelConstants
    <3>4. QED
      BY <3>2, <3>3
  <2>5. \A u \in wi : /\ w.time_slot[u] # cur_slot \/ u \in A =>
                             u \in p.wired /\ p.w.rotation[u] = w.rotation[u]
                      /\ w.time_slot[u] = cur_slot /\ u \notin A =>
                             /\ w.rotation[u] = 0 => u \notin p.wired
                             /\ w.rotation[u] # 0 => u \in p.wired /\ p.w.rotation[u] = w.rotation[u] - 1
    BY <1>1 DEF Treated
  <2>t. p.w.rotation[t] = w.rotation[t] /\ w.rotation[t] \in Nat
    <3>1. w.rotation[t] \in Nat
      BY <1>4, <2>1, WheelConstants DEF Wheels
    <3>2. QED
      BY <2>1, <2>3, <2>5, <3>1
  <2> HIDE DEF A, B
  <2>6. CASE Wheel!Waits(p.w, t)
    <3>1. q.w = Turned(p.w, t) /\ q.wired = p.wired /\ q.end = "none"
      BY <1>1, <1>2, <2>1, <2>6 DEF PassWaits
    <3>2. IsTurned(q.w, p.w, t)
      BY <1>3, <1>4, <2>1, <2>6, <3>1, TurnedIs
    <3>3. /\ q.w.slots = p.w.slots /\ q.w.next = p.w.next /\ q.w.prev = p.w.prev
          /\ q.w.time_slot = p.w.time_slot
          /\ \A u \in WheelTimers : q.w.rotation[u] = IF u = t THEN p.w.rotation[t] - 1
                                                 ELSE p.w.rotation[u]
      BY <3>2 DEF IsTurned
    <3>4. Linked(q.w, q.wired) /\ Ranked(q.w, q.wired, r)
      BY <1>1, <3>1, <3>3, SMTT(60) DEF Linked, HeadsOK, NextsOK, PrevsOK, Ranked
    <3>5. w.rotation[t] # 0
      BY <2>t, <2>6 DEF Wheel!Waits
    <3>6. ASSUME NEW u \in wi
          PROVE  /\ w.time_slot[u] # cur_slot \/ u \in B =>
                       u \in q.wired /\ q.w.rotation[u] = w.rotation[u]
                 /\ w.time_slot[u] = cur_slot /\ u \notin B =>
                       /\ w.rotation[u] = 0 => u \notin q.wired
                       /\ w.rotation[u] # 0 => u \in q.wired /\ q.w.rotation[u] = w.rotation[u] - 1
      <4>1. CASE u = t
        <5>1. q.w.rotation[u] = w.rotation[u] - 1 /\ u \in q.wired /\ u \notin B
          BY <1>4, <2>1, <2>3, <2>t, <3>1, <3>3, <4>1
        <5>2. QED
          BY <2>1, <3>5, <4>1, <5>1
      <4>2. CASE u # t
        <5>1. (u \in B) = (u \in A) /\ u \in WheelTimers
          BY <2>3, <4>2
        <5>2. q.w.rotation[u] = p.w.rotation[u]
          BY <3>3, <4>2, <5>1
        <5>3. QED
          BY <2>5, <3>1, <5>1, <5>2
      <4>3. QED
        BY <4>1, <4>2
    <3>7. Treated(q, w, wi, r)
      BY <3>6 DEF Treated, B
    <3>8. \A u \in q.wired : q.w.time_slot[u] = w.time_slot[u]
      BY <1>1, <3>1, <3>3
    <3>9. Ticking(q, k + 1, w, wi, r)
      BY <1>1, <2>2, <2>3, <2>4, <3>1, <3>4, <3>7, <3>8 DEF Ticking, B
    <3>10. QED
      BY <3>9 DEF q
  <2>7. CASE ~Wheel!Waits(p.w, t)
    <3> DEFINE first == p.w.slots[cur_slot] = t
    <3>1. PassFires(q, p)
      BY <1>2, <2>1, <2>7
    <3>2. first \/ later = NULL
      BY <3>1 DEF PassFires, q
    <3>3. t \in WheelTimers /\ later \in WheelLinks /\ p.w.time_slot[t] = cur_slot
      BY <1>1, <1>3, <1>4, <2>1 DEF Wheels
    <3>4. q.w = TakenOut(p.w, t, p.w.time_slot[t], later) /\ q.wired = p.wired \ {t}
      BY <3>1, <3>3 DEF PassFires
    <3>5. first \/ p.w.prev[t] \in p.wired \cup {NULL}
      BY <1>1, <2>1 DEF Linked, PrevsOK
    <3>6. q.end = "none"
      BY <2>3, <3>1, <3>5 DEF PassFires
    <3>7. Linked(q.w, q.wired) /\ Ranked(q.w, q.wired, r)
      <4>1. p.w.slots[p.w.time_slot[t]] = t \/ later = p.w.prev[t] \/ p.w.next[t] = NULL
        BY <3>2, <3>3
      <4> HIDE DEF first, t, later
      <4>2. /\ Linked(TakenOut(p.w, t, p.w.time_slot[t], later), p.wired \ {t})
            /\ Ranked(TakenOut(p.w, t, p.w.time_slot[t], later), p.wired \ {t}, r)
        <5>1. Linked(p.w, p.wired) /\ Ranked(p.w, p.wired, r)
          BY <1>1
        <5>2. QED
          BY <1>3, <2>1, <3>3, <4>1, <5>1, TakingOut
      <4>3. QED
        BY <3>4, <4>2
    <3>8. IsTakenOut(q.w, p.w, t, p.w.time_slot[t], later)
      BY <1>3, <3>3, <3>4, TakenOutIs
    <3>9. \A u \in WheelTimers \ {t} : /\ q.w.rotation[u] = p.w.rotation[u]
                                       /\ q.w.time_slot[u] = p.w.time_slot[u]
      BY <3>8 DEF IsTakenOut
    <3>10. w.rotation[t] = 0
      BY <2>t, <2>7 DEF Wheel!Waits
    <3>11. ASSUME NEW u \in wi
           PROVE  /\ w.time_slot[u] # cur_slot \/ u \in B =>
                        u \in q.wired /\ q.w.rotation[u] = w.rotation[u]
                  /\ w.time_slot[u] = cur_slot /\ u \notin B =>
                        /\ w.rotation[u] = 0 => u \notin q.wired
                        /\ w.rotation[u] # 0 => u \in q.wired /\ q.w.rotation[u] = w.rotation[u] - 1
      <4>1. CASE u = t
        <5>1. u \notin q.wired /\ u \notin B
          BY <2>3, <3>4, <4>1
        <5>2. QED
          BY <2>1, <3>10, <4>1, <5>1
      <4>2. CASE u # t
        <5>1. (u \in B) = (u \in A) /\ u \in WheelTimers \ {t} /\ (u \in q.wired) = (u \in p.wired)
          BY <2>3, <3>4, <4>2
        <5>2. q.w.rotation[u] = p.w.rotation[u]
          BY <3>9, <5>1
        <5>3. QED
          BY <2>5, <5>1, <5>2
      <4>3. QED
        BY <4>1, <4>2
    <3>12. Treated(q, w, wi, r)
      BY <3>11 DEF Treated, B
    <3>13. \A u \in q.wired : q.w.time_slot[u] = w.time_slot[u]
      BY <1>1, <1>4, <3>4, <3>9
    <3>14. q.at # NULL => q.at \in q.wired /\ w.time_slot[q.at] = cur_slot
      BY <2>2, <2>3, <3>4
    <3>15. q.wired \subseteq wi
      BY <1>1, <3>4
    <3>16. Ticking(q, k + 1, w, wi, r)
      BY <2>4, <3>6, <3>7, <3>12, <3>13, <3>14, <3>15 DEF Ticking, B
    <3>17. QED
      BY <3>16 DEF q
  <2>8. QED
    BY <2>6, <2>7
<1>7. QED
  BY <1>5, <1>6

(* A tick starts from the lists. *)
LEMMA TickingStarts ==
  ASSUME Wheel!WheelAssumption, cur_slot \in Wheel!Ring,
         NEW w \in Wheels, NEW wi \in SUBSET WheelTimers, Linked(w, wi), NEW r, Ranked(w, wi, r),
         NEW p \in Passes, p.w = w, p.at = w.slots[cur_slot], p.wired = wi, p.end = "none"
  PROVE  Ticking(p, 0, w, wi, r)
<1> DEFINE h == w.slots[cur_slot]
           A == Ahead(p, cur_slot, w, wi, r)
<1>1. h # NULL => h \in wi /\ w.time_slot[h] = cur_slot
  BY DEF Linked, HeadsOK
<1>2. ASSUME NEW t \in wi, w.time_slot[t] = cur_slot PROVE t \in A
  <2>1. \A u \in wi : w.slots[w.time_slot[u]] \in wi /\ r[w.slots[w.time_slot[u]]] <= r[u]
    BY HeadIsFirst
  <2>2. h \in wi /\ r[h] <= r[t]
    BY <1>2, <2>1
  <2>3. h # NULL
    BY <2>2, WheelConstants
  <2>4. QED
    BY <1>2, <2>2, <2>3 DEF Ahead
<1>3. 0 + Cardinality(A) <= Cardinality(WheelTimers)
  <2>1. A \subseteq WheelTimers
    BY DEF Ahead
  <2> HIDE DEF A
  <2>2. /\ Cardinality(A) <= Cardinality(WheelTimers)
        /\ Cardinality(A) \in Nat /\ Cardinality(WheelTimers) \in Nat
    BY <2>1, FS_Subset, FS_CardinalityType, WheelConstants
  <2>3. QED
    BY <2>2
<1>4. Treated(p, w, wi, r)
  BY <1>2 DEF Treated
<1> HIDE DEF A
<1>5. QED
  BY <1>1, <1>3, <1>4 DEF Ticking, A

(* Once spoiled, a tick stays so. *)
LEMMA NeverUnspoiled ==
  ASSUME Wheel!WheelAssumption, cur_slot \in Wheel!Ring,
         NEW p \in Passes, NEW n \in Nat, NEW f, IsLoop(f, p, n), ~f[n].spoiled
  PROVE  \A k \in 0 .. n : ~f[k].spoiled
<1>1. f[0] = p /\ \A k \in 1 .. n : k - 1 \in 0 .. n /\ f[k] = Wheel!Pass(f[k - 1])
  <2>1. GoesBy(f, p, n)
    BY LoopStep
  <2>2. QED
    BY <2>1 DEF GoesBy
<1>2. \A k \in 0 .. n : f[k] \in Passes
  BY LoopTypes
<1> DEFINE D == {k \in 0 .. n : f[k].spoiled}
<1> SUFFICES ASSUME D # {} PROVE FALSE
  OBVIOUS
<1>3. PICK m \in D : \A k \in D : k <= m
  BY Largest
<1>4. m \in 0 .. n /\ f[m].spoiled /\ m # n
  OBVIOUS
<1>5. m + 1 \in 1 .. n /\ m + 1 \in 0 .. n /\ m + 1 - 1 = m /\ ~(m + 1 <= m)
  BY <1>4
<1>6. f[m + 1] = Wheel!Pass(f[m]) /\ f[m] \in Passes
  BY <1>1, <1>2, <1>4, <1>5
<1>7. f[m + 1].spoiled
  BY <1>4, <1>6, PassIs
<1>8. m + 1 \in D
  BY <1>5, <1>7
<1>9. QED
  BY <1>3, <1>5, <1>8

(* A tick keeps the lists as long as it spoils none ... *)
LEMMA TickingGoesOn ==
  ASSUME Wheel!WheelAssumption, cur_slot \in Wheel!Ring,
         NEW w \in Wheels, NEW wi \in SUBSET WheelTimers, NEW r,
         NEW p \in Passes, NEW n \in Nat, NEW f, IsLoop(f, p, n),
         Ticking(p, 0, w, wi, r), ~f[n].spoiled
  PROVE  Ticking(f[n], n, w, wi, r)
<1>1. f[0] = p /\ \A k \in 1 .. n : k - 1 \in 0 .. n /\ f[k] = Wheel!Pass(f[k - 1])
  <2>1. GoesBy(f, p, n)
    BY LoopStep
  <2>2. QED
    BY <2>1 DEF GoesBy
<1>2. \A k \in 0 .. n : f[k] \in Passes
  BY LoopTypes
<1>3. \A k \in 0 .. n : ~f[k].spoiled
  BY NeverUnspoiled
<1> DEFINE E == {k \in 0 .. n : ~Ticking(f[k], k, w, wi, r)}
<1>4. E = {}
  <2> SUFFICES ASSUME E # {} PROVE FALSE
    OBVIOUS
  <2>1. PICK m \in E : \A k \in E : m <= k
    <3>1. E \in SUBSET Nat
      OBVIOUS
    <3>2. QED
      BY <3>1, Smallest
  <2>2. m \in 0 .. n /\ ~Ticking(f[m], m, w, wi, r)
    OBVIOUS
  <2>3. CASE m = 0
    BY <1>1, <2>2, <2>3
  <2>4. CASE m # 0
    <3>1. m \in 1 .. n /\ m - 1 \in 0 .. n /\ m - 1 \in Nat /\ ~(m <= m - 1) /\ m - 1 + 1 = m
      BY <2>2, <2>4
    <3>2. m - 1 \notin E
      BY <2>1, <3>1
    <3>3. Ticking(f[m - 1], m - 1, w, wi, r)
      BY <3>1, <3>2
    <3> HIDE DEF E
    <3>4. f[m] = Wheel!Pass(f[m - 1]) /\ ~f[m].spoiled /\ f[m - 1] \in Passes
      BY <1>1, <1>2, <1>3, <2>2, <3>1
    <3>5. Ticking(Wheel!Pass(f[m - 1]), m - 1 + 1, w, wi, r)
      BY <3>1, <3>3, <3>4, TickingStep
    <3>6. QED
      BY <2>2, <3>1, <3>4, <3>5
  <2>5. QED
    BY <2>3, <2>4
<1>5. n \in 0 .. n
  OBVIOUS
<1>6. QED
  BY <1>4, <1>5

(* ... and has then gone to the end of the list, after as many passes as   *)
(* there are timers at most.                                               *)
LEMMA TickingEnds ==
  ASSUME Wheel!WheelAssumption, cur_slot \in Wheel!Ring,
         NEW w \in Wheels, NEW wi \in SUBSET WheelTimers, NEW r,
         NEW p \in Passes, NEW n \in Nat, Cardinality(WheelTimers) <= n, Ticking(p, n, w, wi, r)
  PROVE  p.at = NULL
<1> SUFFICES ASSUME p.at # NULL PROVE FALSE
  OBVIOUS
<1> DEFINE A == Ahead(p, cur_slot, w, wi, r)
<1>1. /\ p.at \in wi /\ w.time_slot[p.at] = cur_slot
      /\ n + Cardinality(A) <= Cardinality(WheelTimers)
  BY DEF Ticking
<1>2. r[p.at] <= r[p.at]
  <2>1. r \in [WheelTimers -> Nat] /\ p.at \in WheelTimers
    BY <1>1 DEF Ticking, Ranked
  <2>2. r[p.at] \in Nat
    BY <2>1
  <2>3. QED
    BY <2>2
<1>3. p.at \in A /\ A \subseteq WheelTimers
  BY <1>1, <1>2 DEF Ahead
<1> HIDE DEF A
<1>4. IsFiniteSet(A)
  BY <1>3, FS_Subset, WheelConstants
<1>5. Cardinality(A) # 0 /\ Cardinality(A) \in Nat /\ Cardinality(WheelTimers) \in Nat
  BY <1>3, <1>4, FS_EmptySet, FS_CardinalityType, WheelConstants
<1>6. QED
  BY <1>1, <1>5

(* What a tick makes of the lists. *)
Ticked(v, u, w, wi) ==
    /\ Linked(v, u) /\ u \subseteq wi
    /\ \A t \in u : v.time_slot[t] = w.time_slot[t]
    /\ \A t \in wi :
          /\ w.time_slot[t] # cur_slot => t \in u /\ v.rotation[t] = w.rotation[t]
          /\ w.time_slot[t] = cur_slot /\ w.rotation[t] = 0 => t \notin u
          /\ w.time_slot[t] = cur_slot /\ w.rotation[t] # 0 =>
                t \in u /\ v.rotation[t] = w.rotation[t] - 1

TickGoesWell(q, w, wi, r) ==
    q.end = "none" /\ Ticked(q.w, q.wired, w, wi) /\ Ranked(q.w, q.wired, r)

(* A whole tick that spoils no list treats every timer of its slot once.   *)
LEMMA TicksAre ==
  ASSUME Wheel!WheelAssumption, cur_slot \in Wheel!Ring,
         NEW w \in Wheels, NEW wi \in SUBSET WheelTimers, Linked(w, wi), NEW r, Ranked(w, wi, r),
         NEW p \in Passes, p.w = w, p.at = w.slots[cur_slot], p.wired = wi, p.end = "none",
         NEW n \in Nat, Cardinality(WheelTimers) <= n, NEW f, IsLoop(f, p, n), ~f[n].spoiled
  PROVE  TickGoesWell(f[n], w, wi, r)
<1> DEFINE q == f[n]
<1>1. Ticking(p, 0, w, wi, r)
  BY TickingStarts
<1>2. Ticking(q, n, w, wi, r)
  BY <1>1, TickingGoesOn
<1>3. q \in Passes
  <2>1. n \in 0 .. n
    OBVIOUS
  <2>2. QED
    BY <2>1, LoopTypes
<1>4. q.at = NULL
  BY <1>2, <1>3, TickingEnds
<1>5. Ahead(q, cur_slot, w, wi, r) = {}
  BY <1>4 DEF Ahead
<1> HIDE DEF q
<1>6. q.end = "none" /\ Ranked(q.w, q.wired, r) /\ Ticked(q.w, q.wired, w, wi)
  BY <1>2, <1>5 DEF Ticking, Treated, Ticked
<1>7. QED
  BY <1>6 DEF TickGoesWell, q

-------------------------------------------------------------------------------
(* The invariant of the wheel *)

(* How many ticks the ring takes from slot c to slot s. *)
Distance(s, c) == IF s >= c THEN s - c ELSE s - c + Slots

(* From slot c the ring comes nearer to the other slots. *)
ComesNearer(c) ==
    /\ (c + 1) % Slots \in Wheel!Ring
    /\ \A s \in Wheel!Ring : /\ Distance(s, c) \in Nat
                             /\ Distance(s, c) = 0 <=> s = c
                             /\ s # c => Distance(s, (c + 1) % Slots) = Distance(s, c) - 1
    /\ Distance(c, (c + 1) % Slots) = Slots - 1

(* The ring comes round: by one slot to the others, and from a slot to     *)
(* itself in Slots ticks.                                                  *)
LEMMA DistanceIs ==
  ASSUME Wheel!WheelAssumption, NEW c \in Wheel!Ring
  PROVE  ComesNearer(c)
<1>1. Slots \in Nat \ {0}
  BY WheelConstants
<1>2. (c + 1) % Slots = IF c + 1 = Slots THEN 0 ELSE c + 1
  BY <1>1 DEF Wheel!Ring
<1> DEFINE d == (c + 1) % Slots
<1> HIDE DEF d
<1>3. d \in Wheel!Ring
  BY <1>1, <1>2 DEF Wheel!Ring, d
<1>4. ASSUME NEW s \in Wheel!Ring
      PROVE  /\ Distance(s, c) \in Nat
             /\ Distance(s, c) = 0 <=> s = c
             /\ s # c => Distance(s, d) = Distance(s, c) - 1
  BY <1>1, <1>2 DEF Wheel!Ring, d, Distance
<1>5. Distance(c, d) = Slots - 1
  BY <1>1, <1>2 DEF Wheel!Ring, d, Distance
<1>6. QED
  BY <1>3, <1>4, <1>5 DEF ComesNearer, d

(* A timer fires in as many ticks as the ring takes to its slot and goes   *)
(* round.                                                                  *)
DueIs(w, wi, d, c) ==
    \A t \in wi : d[t] = Distance(w.time_slot[t], c) + Slots * w.rotation[t] + 1

(* Place() puts a timer where it fires in ticks ticks. *)
LEMMA PlaceIs ==
  ASSUME Wheel!WheelAssumption, cur_slot \in Wheel!Ring, NEW ticks \in 0 .. MaxTimeout
  PROVE  /\ Wheel!Place(ticks).slot \in Wheel!Ring /\ Wheel!Place(ticks).rotation \in Turns
         /\ Distance(Wheel!Place(ticks).slot, cur_slot) + Slots * Wheel!Place(ticks).rotation = ticks
<1>1. Slots \in Nat \ {0} /\ MaxTimeout \in Nat /\ ticks \in Nat /\ ticks <= MaxTimeout
  BY WheelConstants
<1> DEFINE d == ticks % Slots
           e == ticks \div Slots
           s == (cur_slot + d) % Slots
<1>2. d \in 0 .. Slots - 1 /\ e \in Nat /\ ticks = Slots * e + d
  BY <1>1
<1>3. e <= MaxTimeout \div Slots
  BY <1>1
<1> HIDE DEF d, e
<1>4. cur_slot \in 0 .. Slots - 1
  BY DEF Wheel!Ring
<1>5. s = IF cur_slot + d < Slots THEN cur_slot + d ELSE cur_slot + d - Slots
  BY <1>1, <1>2, <1>4
<1> HIDE DEF s
<1>6. s \in Wheel!Ring /\ Distance(s, cur_slot) = d
  BY <1>1, <1>2, <1>4, <1>5 DEF Wheel!Ring, Distance
<1>7. e \in Turns
  <2>1. MaxTimeout \div Slots \in Nat
    BY WheelConstants
  <2>2. QED
    BY <1>2, <1>3, <2>1 DEF Turns
<1>8. Wheel!Place(ticks).slot = s /\ Wheel!Place(ticks).rotation = e
  BY DEF Wheel!Place, s, d, e
<1>9. d + Slots * e = ticks
  <2>1. Slots * e \in Nat
    BY <1>1, <1>2
  <2>2. QED
    BY <1>2, <2>1
<1>10. QED
  BY <1>6, <1>7, <1>8, <1>9

(* Until spoiled the lists are whole, they are no circles, and a timer is  *)
(* where it fires when it is due.                                          *)
WheelInv ==
    /\ Wheel!TypeOK
    /\ ~spoiled => /\ end # "deleted timer" /\ (end = "destroyed" => wired = {})
                   /\ Linked(wheel, wired) /\ (\E r : Ranked(wheel, wired, r))
                   /\ DueIs(wheel, wired, due, cur_slot)

(* The type invariant, in the terms used here.                             *)
LEMMA WheelTypes ==
  ASSUME Wheel!TypeOK
  PROVE  /\ wheel \in Wheels /\ cur_slot \in Wheel!Ring /\ wired \in SUBSET WheelTimers
         /\ due \in [WheelTimers -> 0 .. MaxTimeout + 1]
         /\ end \in {"none", "destroyed", "deleted timer"} /\ spoiled \in BOOLEAN
  BY DEF Wheel!TypeOK, Wheels, WheelLinks, Turns

(* The lists are well-formed. *)
LEMMA WheelInvGives == Wheel!WheelAssumption /\ WheelInv => Wheel!TypeOK /\ Wheel!ListsUntilSpoiled
<1> SUFFICES ASSUME Wheel!WheelAssumption, WheelInv PROVE Wheel!TypeOK /\ Wheel!ListsUntilSpoiled
  OBVIOUS
<1>1. Wheel!TypeOK
  BY DEF WheelInv
<1>2. ASSUME ~spoiled PROVE HeadsOK(wheel, wired) /\ NextsOK(wheel, wired) /\ PrevsOK(wheel, wired)
                            /\ end # "deleted timer" /\ (end = "destroyed" => wired = {})
  BY <1>2 DEF WheelInv, Linked
<1>3. Wheel!ListsUntilSpoiled
  BY <1>2 DEF Wheel!ListsUntilSpoiled, HeadsOK, NextsOK, PrevsOK
<1>4. QED
  BY <1>1, <1>3

(* The wheel without timers.                                               *)
LEMMA EmptyIs ==
  ASSUME Wheel!WheelAssumption
  PROVE  /\ Wheel!Empty \in Wheels /\ Linked(Wheel!Empty, {})
         /\ Ranked(Wheel!Empty, {}, [t \in WheelTimers |-> 0])
<1>1. NULL \in WheelLinks /\ 0 \in Turns /\ 0 \in Wheel!Ring
  BY WheelConstants
<1>2. Wheel!Empty \in Wheels
  BY <1>1 DEF Wheel!Empty, Wheels
<1>3. /\ \A s \in Wheel!Ring : Wheel!Empty.slots[s] = NULL
      /\ \A t \in WheelTimers : Wheel!Empty.prev[t] = NULL
  BY DEF Wheel!Empty
<1>4. Linked(Wheel!Empty, {})
  BY <1>3 DEF Linked, HeadsOK, NextsOK, PrevsOK
<1>5. Ranked(Wheel!Empty, {}, [t \in WheelTimers |-> 0])
  BY DEF Ranked
<1>6. QED
  BY <1>2, <1>4, <1>5

(* A new wheel has empty lists.                                            *)
LEMMA WheelInvInit == Wheel!WheelAssumption /\ Wheel!Init => WheelInv
<1> SUFFICES ASSUME Wheel!WheelAssumption, Wheel!Init PROVE WheelInv
  OBVIOUS
<1>1. wheel = Wheel!Empty /\ cur_slot = 0 /\ wired = {} /\ end = "none" /\ spoiled = FALSE
      /\ due = [t \in WheelTimers |-> 0]
  BY DEF Wheel!Init
<1>2. wheel \in Wheels /\ 0 \in Wheel!Ring /\ MaxTimeout \in Nat
  BY <1>1, EmptyIs, WheelConstants
<1>3. due \in [WheelTimers -> 0 .. MaxTimeout + 1]
  BY <1>1, <1>2
<1>4. Wheel!TypeOK
  <2>1. wired \subseteq WheelTimers
    BY <1>1
  <2>2. QED
    BY <1>1, <1>2, <1>3, <2>1 DEF Wheel!TypeOK, Wheels, WheelLinks, Turns
<1>5. Linked(wheel, wired) /\ Ranked(wheel, wired, [t \in WheelTimers |-> 0])
  BY <1>1, EmptyIs
<1>6. DueIs(wheel, wired, due, cur_slot)
  BY <1>1 DEF DueIs
<1>7. \E r : Ranked(wheel, wired, r)
  BY <1>5
<1>8. QED
  BY <1>1, <1>4, <1>5, <1>6, <1>7 DEF WheelInv

-------------------------------------------------------------------------------
(* The steps of the wheel *)

(* add_timer(): the slot is where the timer fires when it is due. *)
LEMMA WheelAddStep ==
  ASSUME Wheel!WheelAssumption, WheelInv, NEW t \in WheelTimers, NEW timeout \in 0 .. MaxTimeout,
         Wheel!WheelAdd(t, timeout)
  PROVE  WheelInv'
<1> DEFINE s     == Wheel!Place(timeout).slot
           turns == Wheel!Place(timeout).rotation
           first == wheel.slots[s]
<1>1. /\ wheel \in Wheels /\ cur_slot \in Wheel!Ring /\ wired \in SUBSET WheelTimers
      /\ due \in [WheelTimers -> 0 .. MaxTimeout + 1] /\ spoiled \in BOOLEAN
  BY WheelTypes DEF WheelInv
<1>2. s \in Wheel!Ring /\ turns \in Turns /\ Distance(s, cur_slot) + Slots * turns = timeout
  BY <1>1, PlaceIs
<1>3. /\ end = "none" /\ t \notin wired /\ wired' = wired \cup {t}
      /\ due' = [due EXCEPT ![t] = timeout + 1]
      /\ wheel' = Added(wheel, t, s, turns)
      /\ end' = IF first \in wired \cup {NULL} THEN "none" ELSE "deleted timer"
      /\ cur_slot' = cur_slot /\ spoiled' = spoiled
  BY DEF Wheel!WheelAdd, Added
<1> HIDE DEF s, turns, first
<1>4. IsAdded(wheel', wheel, t, s, turns)
  BY <1>1, <1>2, <1>3, AddedIs
<1>5. wheel' \in Wheels
  BY <1>4 DEF IsAdded
<1>6. MaxTimeout \in Nat /\ timeout + 1 \in 0 .. MaxTimeout + 1
  BY WheelConstants
<1>7. due' \in [WheelTimers -> 0 .. MaxTimeout + 1] /\ due'[t] = timeout + 1
      /\ \A u \in WheelTimers : u # t => due'[u] = due[u]
  BY <1>1, <1>3, <1>6
<1>8. Wheel!TypeOK'
  <2>1. wired' \subseteq WheelTimers /\ cur_slot' \in Wheel!Ring /\ spoiled' \in BOOLEAN
        /\ end' \in {"none", "destroyed", "deleted timer"}
    BY <1>1, <1>3
  <2>2. QED
    BY <1>5, <1>7, <2>1 DEF Wheel!TypeOK, Wheels, WheelLinks, Turns, Wheel!Ring
<1>9. ASSUME ~spoiled
      PROVE  /\ end' = "none" /\ Linked(wheel', wired') /\ (\E r : Ranked(wheel', wired', r))
             /\ DueIs(wheel', wired', due', cur_slot')
  <2>1. Linked(wheel, wired) /\ DueIs(wheel, wired, due, cur_slot)
    BY <1>9 DEF WheelInv
  <2>2. PICK r : Ranked(wheel, wired, r)
    BY <1>9 DEF WheelInv
  <2>3. first \in wired \cup {NULL}
    BY <1>2, <2>1 DEF Linked, HeadsOK, first
  <2> DEFINE g == [u \in WheelTimers |-> IF u = t THEN 0 ELSE r[u] + 1]
  <2>4. Linked(wheel', wired') /\ Ranked(wheel', wired', g)
    <3>1. t \in WheelTimers \ wired
      BY <1>3
    <3> HIDE DEF g
    <3>2. Linked(Added(wheel, t, s, turns), wired \cup {t})
          /\ Ranked(Added(wheel, t, s, turns), wired \cup {t}, g)
      BY <1>1, <1>2, <2>1, <2>2, <3>1, Adding DEF g
    <3>3. QED
      BY <1>3, <3>2
  <2> HIDE DEF g
  <2>5. ASSUME NEW u \in wired \cup {t}
        PROVE  due'[u] = Distance(wheel'.time_slot[u], cur_slot) + Slots * wheel'.rotation[u] + 1
    <3>1. CASE u = t
      <4>1. wheel'.time_slot[u] = s /\ wheel'.rotation[u] = turns /\ due'[u] = timeout + 1
        BY <1>4, <1>7, <3>1 DEF IsAdded
      <4>2. QED
        BY <1>2, <4>1
    <3>2. CASE u # t
      <4>1. u \in wired /\ u \in WheelTimers
        BY <1>1, <3>2
      <4>2. /\ wheel'.time_slot[u] = wheel.time_slot[u]
            /\ wheel'.rotation[u] = wheel.rotation[u] /\ due'[u] = due[u]
        BY <1>4, <1>7, <3>2, <4>1 DEF IsAdded
      <4>3. QED
        BY <2>1, <4>1, <4>2 DEF DueIs
    <3>3. QED
      BY <3>1, <3>2
  <2>6. DueIs(wheel', wired', due', cur_slot')
    BY <1>3, <2>5 DEF DueIs
  <2>7. QED
    BY <1>3, <2>3, <2>4, <2>6
<1>10. QED
  BY <1>3, <1>8, <1>9 DEF WheelInv

(* del_timer(): the others keep their places. *)
LEMMA WheelDelStep ==
  ASSUME Wheel!WheelAssumption, WheelInv, NEW t \in WheelTimers, Wheel!WheelDel(t)
  PROVE  WheelInv'
<1> DEFINE s       == wheel.time_slot[t]
           back    == wheel.prev[t]
           first   == wheel.slots[s] = t
           touched == IF first THEN {wheel.next[t]} \ {NULL}
                      ELSE {wheel.prev[t]} \cup ({wheel.next[t]} \ {NULL})
<1>1. /\ wheel \in Wheels /\ cur_slot \in Wheel!Ring /\ wired \in SUBSET WheelTimers
      /\ due \in [WheelTimers -> 0 .. MaxTimeout + 1] /\ spoiled \in BOOLEAN
  BY WheelTypes DEF WheelInv
<1>2. s \in Wheel!Ring /\ back \in WheelLinks
  BY <1>1 DEF Wheels
<1>3. /\ end = "none" /\ t \in wired /\ wired' = wired \ {t}
      /\ due' = [due EXCEPT ![t] = 0]
      /\ wheel' = TakenOut(wheel, t, s, back)
      /\ end' = IF touched \subseteq wired THEN "none" ELSE "deleted timer"
      /\ cur_slot' = cur_slot /\ spoiled' = spoiled
  BY DEF Wheel!WheelDel, TakenOut
<1> HIDE DEF s, back, touched
<1>4. IsTakenOut(wheel', wheel, t, s, back)
  BY <1>1, <1>2, <1>3, TakenOutIs
<1>5. wheel' \in Wheels
  BY <1>4 DEF IsTakenOut
<1>6. due' \in [WheelTimers -> 0 .. MaxTimeout + 1]
      /\ \A u \in WheelTimers : u # t => due'[u] = due[u]
  <2>1. 0 \in 0 .. MaxTimeout + 1
    BY WheelConstants
  <2>2. QED
    BY <1>1, <1>3, <2>1
<1>7. Wheel!TypeOK'
  <2>1. wired' \subseteq WheelTimers /\ cur_slot' \in Wheel!Ring /\ spoiled' \in BOOLEAN
        /\ end' \in {"none", "destroyed", "deleted timer"}
    BY <1>1, <1>3
  <2>2. QED
    BY <1>5, <1>6, <2>1 DEF Wheel!TypeOK, Wheels, WheelLinks, Turns, Wheel!Ring
<1>8. ASSUME ~spoiled
      PROVE  /\ end' = "none" /\ Linked(wheel', wired') /\ (\E r : Ranked(wheel', wired', r))
             /\ DueIs(wheel', wired', due', cur_slot')
  <2>1. Linked(wheel, wired) /\ DueIs(wheel, wired, due, cur_slot)
    BY <1>8 DEF WheelInv
  <2>2. PICK r : Ranked(wheel, wired, r)
    BY <1>8 DEF WheelInv
  <2>3. touched \subseteq wired
    <3>1. wheel.next[t] \in wired \cup {NULL}
      BY <1>3, <2>1 DEF Linked, NextsOK
    <3>2. ~first => wheel.prev[t] \in wired
      BY <1>3, <2>1 DEF Linked, PrevsOK, s
    <3>3. QED
      BY <3>1, <3>2 DEF touched
  <2>4. Linked(wheel', wired') /\ Ranked(wheel', wired', r)
    <3>1. wheel.slots[wheel.time_slot[t]] = t \/ back = wheel.prev[t] \/ wheel.next[t] = NULL
      BY DEF back
    <3>2. /\ Linked(TakenOut(wheel, t, wheel.time_slot[t], back), wired \ {t})
          /\ Ranked(TakenOut(wheel, t, wheel.time_slot[t], back), wired \ {t}, r)
      BY <1>1, <1>2, <1>3, <2>1, <2>2, <3>1, TakingOut
    <3>3. QED
      BY <1>3, <3>2 DEF s
  <2>5. ASSUME NEW u \in wired \ {t}
        PROVE  due'[u] = Distance(wheel'.time_slot[u], cur_slot) + Slots * wheel'.rotation[u] + 1
    <3>1. u \in wired /\ u \in WheelTimers \ {t}
      BY <1>1
    <3>2. /\ wheel'.time_slot[u] = wheel.time_slot[u]
          /\ wheel'.rotation[u] = wheel.rotation[u] /\ due'[u] = due[u]
      BY <1>4, <1>6, <3>1 DEF IsTakenOut
    <3>3. QED
      BY <2>1, <3>1, <3>2 DEF DueIs
  <2>6. DueIs(wheel', wired', due', cur_slot')
    BY <1>3, <2>5 DEF DueIs
  <2>7. QED
    BY <1>3, <2>3, <2>4, <2>6
<1>9. QED
  BY <1>3, <1>7, <1>8 DEF WheelInv

(* tick(): every timer comes one tick nearer, and those that are due go. *)
Fires == wired' = {t \in wired : due[t] > 1}

(* A tick keeps the invariant, and unless it spoils a list it deletes just *)
(* the timers that are due.                                                *)
LEMMA WheelTickStep ==
  ASSUME Wheel!WheelAssumption, WheelInv, Wheel!WheelTick
  PROVE  WheelInv' /\ (~spoiled' => Fires)
<1> DEFINE n    == Wheel!Cardinality(WheelTimers) * (MaxTimeout + 1)
           p    == [w |-> wheel, at |-> wheel.slots[cur_slot], wired |-> wired,
                    end |-> "none", spoiled |-> spoiled]
           f    == CHOOSE g : IsLoop(g, p, n)
           done == f[n]
           c    == (cur_slot + 1) % Slots
<1>1. /\ wheel \in Wheels /\ cur_slot \in Wheel!Ring /\ wired \in SUBSET WheelTimers
      /\ due \in [WheelTimers -> 0 .. MaxTimeout + 1] /\ spoiled \in BOOLEAN
  BY WheelTypes DEF WheelInv
<1>2. /\ end = "none"
      /\ wheel' = done.w /\ wired' = done.wired /\ end' = done.end /\ spoiled' = done.spoiled
      /\ due' = [t \in WheelTimers |-> IF t \in done.wired /\ due[t] > 0 THEN due[t] - 1 ELSE 0]
      /\ cur_slot' = c
  BY DEF Wheel!WheelTick, IsLoop
<1>3. n \in Nat /\ Cardinality(WheelTimers) \in Nat /\ Cardinality(WheelTimers) <= n
  <2>1. n = Cardinality(WheelTimers) * (MaxTimeout + 1)
    BY SameWheelCardinality
  <2>2. QED
    BY <2>1, PassesAreEnough
<1>4. p \in Passes /\ p.w = wheel /\ p.at = wheel.slots[cur_slot] /\ p.wired = wired
      /\ p.end = "none"
  <2>1. wheel.slots[cur_slot] \in WheelLinks
    BY <1>1 DEF Wheels
  <2>2. QED
    BY <1>1, <2>1 DEF Passes
<1> HIDE DEF n, p
<1>5. IsLoop(f, p, n)
  <2>1. \E g : IsLoop(g, p, n)
    BY <1>3, LoopsExist
  <2>2. QED
    BY <2>1
<1> HIDE DEF f
<1>6. done \in Passes
  <2>1. n \in 0 .. n
    BY <1>3
  <2>2. \A k \in 0 .. n : f[k] \in Passes
    BY <1>1, <1>3, <1>4, <1>5, LoopTypes
  <2>3. QED
    BY <2>1, <2>2
<1>d. ComesNearer(cur_slot)
  BY <1>1, DistanceIs
<1>7. c \in Wheel!Ring
  BY <1>d DEF ComesNearer
<1> HIDE DEF done, c
<1>8. due' \in [WheelTimers -> 0 .. MaxTimeout + 1]
  <2>1. \A x \in 0 .. MaxTimeout + 1 : x > 0 => x - 1 \in 0 .. MaxTimeout + 1
    BY WheelConstants
  <2>2. 0 \in 0 .. MaxTimeout + 1
    BY WheelConstants
  <2>3. QED
    BY <1>1, <1>2, <2>1, <2>2
<1>9. Wheel!TypeOK'
  <2>1. wheel' \in Wheels /\ wired' \subseteq WheelTimers /\ cur_slot' \in Wheel!Ring /\ spoiled' \in BOOLEAN
        /\ end' \in {"none", "destroyed", "deleted timer"}
    BY <1>2, <1>6, <1>7 DEF Passes
  <2>2. QED
    BY <1>8, <2>1 DEF Wheel!TypeOK, Wheels, WheelLinks, Turns, Wheel!Ring
<1>10. ASSUME ~spoiled'
       PROVE  /\ end' = "none" /\ Linked(wheel', wired') /\ (\E r : Ranked(wheel', wired', r))
              /\ DueIs(wheel', wired', due', cur_slot') /\ Fires
  <2>1. ~spoiled
    <3>1. ~done.spoiled
      BY <1>2, <1>10
    <3>2. \A k \in 0 .. n : ~f[k].spoiled
      BY <1>1, <1>3, <1>4, <1>5, <3>1, NeverUnspoiled DEF done
    <3>3. f[0] = p /\ 0 \in 0 .. n
      <4>1. GoesBy(f, p, n)
        BY <1>3, <1>5, LoopStep
      <4>2. QED
        BY <1>3, <4>1 DEF GoesBy
    <3>4. QED
      BY <3>2, <3>3 DEF p
  <2>2. Linked(wheel, wired) /\ DueIs(wheel, wired, due, cur_slot)
    BY <2>1 DEF WheelInv
  <2>3. PICK r : Ranked(wheel, wired, r)
    BY <2>1 DEF WheelInv
  <2>4. /\ done.end = "none"
        /\ Ticked(done.w, done.wired, wheel, wired) /\ Ranked(done.w, done.wired, r)
    <3>1. ~f[n].spoiled
      BY <1>2, <1>10 DEF done
    <3>2. TickGoesWell(f[n], wheel, wired, r)
      BY <1>1, <1>3, <1>4, <1>5, <2>2, <2>3, <3>1, TicksAre
    <3>3. QED
      BY <3>2 DEF TickGoesWell, done
  <2>5. Ticked(wheel', wired', wheel, wired)
    BY <1>2, <2>4
  <2>6. \A t \in wired : /\ t \in WheelTimers /\ wheel.time_slot[t] \in Wheel!Ring
                         /\ wheel.rotation[t] \in Nat /\ due[t] \in Nat
                         /\ due[t] = Distance(wheel.time_slot[t], cur_slot)
                                       + Slots * wheel.rotation[t] + 1
    BY <1>1, <2>2, WheelConstants DEF DueIs, Wheels
  <2>7. ASSUME NEW t \in wired
        PROVE  due[t] > 1 <=> ~(wheel.time_slot[t] = cur_slot /\ wheel.rotation[t] = 0)
    <3> DEFINE d == Distance(wheel.time_slot[t], cur_slot)
               o == wheel.rotation[t]
               m == Slots * o
    <3>1. d \in Nat /\ (d = 0 <=> wheel.time_slot[t] = cur_slot)
      BY <1>d, <2>6 DEF ComesNearer
    <3>2. o \in Nat /\ due[t] = d + m + 1
      BY <2>6
    <3>3. m \in Nat /\ (m = 0 <=> o = 0)
      <4> HIDE DEF o
      <4>1. Slots \in Nat \ {0}
        BY WheelConstants
      <4>2. QED
        BY <3>2, <4>1
    <3> HIDE DEF d, m
    <3>4. QED
      BY <3>1, <3>2, <3>3
  <2>8. Fires
    <3>1. wired' \subseteq wired /\
          \A t \in wired : t \in wired' <=> ~(wheel.time_slot[t] = cur_slot /\ wheel.rotation[t] = 0)
      BY <2>5 DEF Ticked
    <3>2. QED
      BY <2>7, <3>1 DEF Fires
  <2>9. ASSUME NEW t \in wired'
        PROVE  due'[t] = Distance(wheel'.time_slot[t], c) + Slots * wheel'.rotation[t] + 1
    <3> DEFINE s == wheel.time_slot[t]
               o == wheel.rotation[t]
    <3>1. t \in wired /\ wheel'.time_slot[t] = s /\ t \in WheelTimers
      BY <1>1, <2>5 DEF Ticked
    <3>2. s \in Wheel!Ring /\ o \in Nat /\ due[t] = Distance(s, cur_slot) + Slots * o + 1
          /\ Slots * o \in Nat /\ Slots \in Nat
      <4>1. s \in Wheel!Ring /\ o \in Nat /\ due[t] = Distance(s, cur_slot) + Slots * o + 1
        BY <2>6, <3>1
      <4>2. Slots \in Nat
        BY WheelConstants
      <4> HIDE DEF o
      <4>3. Slots * o \in Nat
        BY <4>1, <4>2
      <4>4. QED
        BY <4>1, <4>2, <4>3
    <3>3. Distance(s, cur_slot) \in Nat
      BY <1>d, <3>2 DEF ComesNearer
    <3>4. due'[t] = due[t] - 1
      <4>1. due[t] > 0
        BY <3>2, <3>3
      <4>2. QED
        BY <1>2, <2>9, <3>1, <4>1
    <3>5. CASE s # cur_slot
      <4>1. wheel'.rotation[t] = o
        BY <2>5, <3>1, <3>5 DEF Ticked
      <4>2. Distance(s, c) = Distance(s, cur_slot) - 1
        BY <1>d, <3>2, <3>5 DEF ComesNearer, c
      <4> DEFINE m == Slots * o
      <4>3. due[t] = Distance(s, cur_slot) + m + 1 /\ m \in Nat
        BY <3>2
      <4>4. Slots * wheel'.rotation[t] = m
        BY <4>1
      <4> HIDE DEF m, s, o
      <4>5. QED
        BY <3>1, <3>3, <3>4, <4>2, <4>3, <4>4
    <3>6. CASE s = cur_slot
      <4>1. o # 0 /\ wheel'.rotation[t] = o - 1
        BY <2>5, <2>9, <3>1, <3>6 DEF Ticked
      <4>2. Distance(s, c) = Slots - 1 /\ Distance(s, cur_slot) = 0
        BY <1>d, <3>2, <3>6 DEF ComesNearer, c
      <4> DEFINE m == Slots * o
      <4>3. Slots * wheel'.rotation[t] = m - Slots
        <5> HIDE DEF o
        <5>1. o \in Nat /\ Slots \in Nat /\ Slots * (o - 1) = Slots * o - Slots
          BY <3>2
        <5>2. QED
          BY <4>1, <5>1
      <4>4. due'[t] = 0 + m + 1 - 1 /\ m \in Nat /\ Slots \in Nat
        BY <3>2, <3>4, <4>2
      <4> HIDE DEF m, s, o
      <4>5. QED
        BY <3>1, <4>2, <4>3, <4>4
    <3>7. QED
      BY <3>5, <3>6
  <2>10. DueIs(wheel', wired', due', cur_slot')
    BY <1>2, <2>9 DEF DueIs
  <2>11. Linked(wheel', wired') /\ (\E r1 : Ranked(wheel', wired', r1)) /\ end' = "none"
    BY <1>2, <2>4, <2>5 DEF Ticked
  <2>12. QED
    BY <2>8, <2>10, <2>11
<1>11. QED
  BY <1>9, <1>10 DEF WheelInv

-------------------------------------------------------------------------------
(* What the destructor does *)

(* at of ~time_wheel() over n timers from the timer x. *)
IsWalk(f, x, n) ==
    f = [k \in 0 .. n |-> IF k = 0 THEN x
                          ELSE IF f[k - 1] = NULL THEN NULL ELSE wheel.next[f[k - 1]]]

(* Every number of steps has its walk.                                     *)
LEMMA WalksExist ==
  ASSUME NEW x, NEW n \in Nat
  PROVE  \E f : IsWalk(f, x, n)
<1> DEFINE later(y) == IF y = NULL THEN NULL ELSE wheel.next[y]
           D == {m \in Nat : ~\E f : IsWalk(f, x, m)}
<1> SUFFICES ASSUME D # {} PROVE FALSE
  OBVIOUS
<1>1. PICK m \in D : \A k \in D : m <= k
  <2>1. D \in SUBSET Nat
    OBVIOUS
  <2>2. QED
    BY <2>1, Smallest
<1>2. m \in Nat /\ ~\E f : IsWalk(f, x, m)
  OBVIOUS
<1>3. CASE m = 0
  <2> DEFINE g == [k \in 0 .. 0 |-> x]
  <2>1. g = [k \in 0 .. 0 |-> IF k = 0 THEN x ELSE later(g[k - 1])]
    OBVIOUS
  <2>2. IsWalk(g, x, m)
    BY <1>3, <2>1 DEF IsWalk
  <2>3. QED
    BY <1>2, <2>2
<1>4. CASE m # 0
  <2>1. m - 1 \in Nat /\ m - 1 \notin D
    BY <1>1, <1>2, <1>4
  <2>2. PICK f : IsWalk(f, x, m - 1)
    BY <2>1
  <2> HIDE DEF D
  <2> DEFINE val(h, k) == IF k = 0 THEN x ELSE later(h[k - 1])
             g == [k \in 0 .. m |-> IF k = m THEN later(f[m - 1]) ELSE f[k]]
  <2>3. f = [k \in 0 .. m - 1 |-> val(f, k)]
    BY <2>2 DEF IsWalk
  <2>w. (g = [k \in 0 .. m |-> val(g, k)]) => IsWalk(g, x, m)
    <3> HIDE DEF g
    <3>1. QED
      BY DEF IsWalk
  <2> HIDE DEF later
  <2>4. \A k \in 0 .. m : /\ k = m \/ k \in 0 .. m - 1
                          /\ k # 0 => k - 1 \in 0 .. m /\ k - 1 # m /\ k - 1 \in 0 .. m - 1
    BY <1>2
  <2>5. \A k \in 0 .. m - 1 : f[k] = val(f, k)
    BY <2>3
  <2>6. /\ g[m] = later(f[m - 1])
        /\ \A k \in 0 .. m : k # m => g[k] = f[k]
    BY <1>2
  <2>7. ASSUME NEW k \in 0 .. m PROVE g[k] = val(g, k)
    <3>1. k # 0 => g[k - 1] = f[k - 1]
      BY <2>4, <2>6
    <3>2. k = m => g[k] = val(f, k)
      BY <1>4, <2>6
    <3>3. k # m => g[k] = val(f, k)
      BY <2>4, <2>5, <2>6
    <3> HIDE DEF g
    <3>4. QED
      BY <3>1, <3>2, <3>3
  <2>8. g = [k \in 0 .. m |-> val(g, k)]
    <3> HIDE DEF val
    <3>1. g = [k \in 0 .. m |-> g[k]]
      OBVIOUS
    <3> HIDE DEF g
    <3>2. QED
      BY <2>7, <3>1, Zenon
  <2>9. QED
    BY <1>2, <2>8, <2>w
<1>5. QED
  BY <1>3, <1>4

(* The walk from the first timer of slot s, as passes that change nothing. *)
Stand(x) == [w |-> wheel, at |-> x, wired |-> wired, end |-> "none", spoiled |-> FALSE]

Reached(f, k) == {f[j] : j \in 0 .. k} \ {NULL}

(* After k steps the timers of slot s are behind or ahead. *)
Walking(f, k, s, r) ==
    /\ Reached(f, k) \subseteq {t \in wired : wheel.time_slot[t] = s}
    /\ \A t \in wired : wheel.time_slot[t] = s =>
          t \in Reached(f, k) \cup Ahead(Stand(f[k]), s, wheel, wired, r)
    /\ f[k] # NULL => k + Cardinality(Ahead(Stand(f[k]), s, wheel, wired, r)) <= Cardinality(WheelTimers)

(* As many steps as there are timers lead through all of the slot and to   *)
(* NULL.                                                                   *)
LEMMA WalksReachAll ==
  ASSUME Wheel!WheelAssumption, wheel \in Wheels, wired \in SUBSET WheelTimers, NEW s \in Wheel!Ring,
         Linked(wheel, wired), NEW r, Ranked(wheel, wired, r),
         NEW f, IsWalk(f, wheel.slots[s], Cardinality(WheelTimers))
  PROVE  /\ f[Cardinality(WheelTimers)] = NULL
         /\ Reached(f, Cardinality(WheelTimers)) = {t \in wired : wheel.time_slot[t] = s}
<1> DEFINE n == Cardinality(WheelTimers)
           h == wheel.slots[s]
           A(x) == Ahead(Stand(x), s, wheel, wired, r)
<1>1. n \in Nat /\ IsFiniteSet(WheelTimers) /\ NULL \notin WheelTimers
  BY FS_CardinalityType, WheelConstants
<1>2. /\ f[0] = h
      /\ \A k \in 1 .. n : f[k] = IF f[k - 1] = NULL THEN NULL ELSE wheel.next[f[k - 1]]
  <2> DEFINE val(k) == IF k = 0 THEN h
                       ELSE IF f[k - 1] = NULL THEN NULL ELSE wheel.next[f[k - 1]]
  <2>1. f = [k \in 0 .. n |-> val(k)]
    BY DEF IsWalk
  <2>2. \A k \in 0 .. n : f[k] = val(k)
    <3> HIDE DEF val, n
    <3>1. QED
      BY <2>1
  <2>3. 0 \in 0 .. n /\ \A k \in 1 .. n : k \in 0 .. n /\ k # 0
    BY <1>1
  <2>4. QED
    BY <2>2, <2>3
<1> HIDE DEF n
<1>3. \A x : A(x) \subseteq WheelTimers /\ IsFiniteSet(A(x))
             /\ Cardinality(A(x)) \in Nat /\ Cardinality(A(x)) <= n
  <2> SUFFICES ASSUME NEW x
               PROVE  A(x) \subseteq WheelTimers /\ IsFiniteSet(A(x))
                      /\ Cardinality(A(x)) \in Nat /\ Cardinality(A(x)) <= n
    OBVIOUS
  <2>1. A(x) \subseteq WheelTimers
    BY DEF Ahead
  <2> HIDE DEF A
  <2>2. QED
    BY <1>1, <2>1, FS_Subset, FS_CardinalityType DEF n
<1>4. \A t \in wired : t \in WheelTimers /\ t # NULL /\ r[t] \in Nat
  BY <1>1 DEF Ranked
<1>5. \A x : /\ Stand(x).at = x /\ Stand(x).w = wheel /\ Stand(x).wired = wired
             /\ x \in WheelLinks => Stand(x) \in Passes
  BY DEF Stand, Passes
<1>6. Walking(f, 0, s, r)
  <2>1. Reached(f, 0) = {h} \ {NULL}
    BY <1>2 DEF Reached
  <2>2. h # NULL => h \in wired /\ wheel.time_slot[h] = s
    BY DEF Linked, HeadsOK
  <2>3. ASSUME NEW t \in wired, wheel.time_slot[t] = s PROVE t \in A(h)
    <3>1. \A u \in wired : wheel.slots[wheel.time_slot[u]] \in wired
                           /\ r[wheel.slots[wheel.time_slot[u]]] <= r[u]
      BY HeadIsFirst
    <3>2. h \in wired /\ r[h] <= r[t]
      BY <2>3, <3>1
    <3>3. h # NULL
      BY <1>4, <3>2
    <3>4. QED
      BY <1>5, <2>3, <3>2, <3>3 DEF Ahead
  <2>4. 0 + Cardinality(A(h)) <= n
    <3>1. Cardinality(A(h)) \in Nat /\ Cardinality(A(h)) <= n
      BY <1>3
    <3> HIDE DEF A
    <3>2. QED
      BY <3>1
  <2>5. QED
    BY <1>2, <2>1, <2>2, <2>3, <2>4 DEF Walking, n
<1>7. ASSUME NEW k \in Nat, k + 1 \in 1 .. n, Walking(f, k, s, r)
      PROVE  Walking(f, k + 1, s, r)
  <2> DEFINE x == f[k]
             y == f[k + 1]
  <2>1. /\ Reached(f, k) \subseteq {t \in wired : wheel.time_slot[t] = s}
        /\ \A t \in wired : wheel.time_slot[t] = s => t \in Reached(f, k) \cup A(x)
        /\ x # NULL => k + Cardinality(A(x)) <= n
    BY <1>7 DEF Walking, n
  <2>2. y = IF x = NULL THEN NULL ELSE wheel.next[x]
    BY <1>2, <1>7
  <2>3. Reached(f, k + 1) = Reached(f, k) \cup ({y} \ {NULL})
    <3>1. 0 .. k + 1 = 0 .. k \cup {k + 1}
      OBVIOUS
    <3>2. {f[j] : j \in 0 .. k + 1} = {f[j] : j \in 0 .. k} \cup {f[k + 1]}
      BY <3>1
    <3>3. QED
      BY <3>2 DEF Reached
  <2>4. x # NULL => x \in Reached(f, k)
    BY DEF Reached
  <2> HIDE DEF x, y
  <2>5. CASE x = NULL
    <3>1. y = NULL /\ Reached(f, k + 1) = Reached(f, k) /\ A(y) = A(x)
      BY <2>2, <2>3, <2>5
    <3>2. QED
      BY <2>1, <3>1 DEF Walking, y
  <2>6. CASE x # NULL
    <3>1. x \in wired /\ wheel.time_slot[x] = s
      BY <2>1, <2>4, <2>6
    <3>2. OnTheWay(Stand(x), s, wheel, wired, r)
      BY <1>5, <3>1 DEF OnTheWay, Ahead
    <3>3. Stand(x) \in Passes
      BY <1>4, <1>5, <3>1 DEF WheelLinks
    <3>4. Visits(Stand(y), Stand(x), s, wheel, wired, r)
      <4>1. Stand(y).at = Stand(x).w.next[Stand(x).at]
        BY <1>5, <2>2, <2>6
      <4>2. QED
        BY <3>2, <3>3, <4>1, AheadFalls
    <3>5. /\ A(y) = A(x) \ {x} /\ x \in A(x)
          /\ y # NULL => y \in wired /\ wheel.time_slot[y] = s
      BY <1>5, <3>4 DEF Visits
    <3>6. Cardinality(A(y)) = Cardinality(A(x)) - 1 /\ Cardinality(A(x)) \in Nat
      <4>1. IsFiniteSet(A(x))
        BY <1>3
      <4> HIDE DEF A
      <4>2. QED
        BY <3>5, <4>1, FS_RemoveElement, FS_CardinalityType
    <3> HIDE DEF A
    <3>7. k + 1 + Cardinality(A(y)) <= n
      BY <1>1, <2>1, <2>6, <3>6
    <3>8. \A t \in wired : wheel.time_slot[t] = s => t \in Reached(f, k + 1) \cup A(y)
      BY <2>1, <2>3, <2>4, <2>6, <3>5
    <3>9. Reached(f, k + 1) \subseteq {t \in wired : wheel.time_slot[t] = s}
      BY <2>1, <2>3, <3>5
    <3>10. QED
      BY <3>7, <3>8, <3>9 DEF Walking, A, n, y
  <2>7. QED
    BY <2>5, <2>6
<1>8. Walking(f, n, s, r)
  <2> DEFINE D == {k \in 0 .. n : ~Walking(f, k, s, r)}
  <2>1. ASSUME D # {} PROVE FALSE
    <3>1. PICK m \in D : \A k \in D : m <= k
      <4>1. D \in SUBSET Nat
        BY <1>1
      <4>2. QED
        BY <2>1, <4>1, Smallest
    <3>2. m \in 0 .. n /\ ~Walking(f, m, s, r) /\ m # 0
      BY <1>6
    <3>3. m - 1 \in 0 .. n /\ m - 1 \in Nat /\ m - 1 + 1 \in 1 .. n /\ ~(m <= m - 1) /\ m - 1 + 1 = m
      BY <1>1, <3>2
    <3>4. m - 1 \notin D
      BY <3>1, <3>3
    <3>5. Walking(f, m - 1, s, r)
      BY <3>3, <3>4
    <3>6. Walking(f, m - 1 + 1, s, r)
      BY <1>7, <3>3, <3>5
    <3>7. QED
      BY <3>2, <3>3, <3>6
  <2>2. n \in 0 .. n
    BY <1>1
  <2>3. QED
    BY <2>1, <2>2
<1>9. f[n] = NULL
  <2> SUFFICES ASSUME f[n] # NULL PROVE FALSE
    OBVIOUS
  <2>1. f[n] \in Reached(f, n)
    <3>1. n \in 0 .. n
      BY <1>1
    <3>2. QED
      BY <3>1 DEF Reached
  <2>2. f[n] \in wired /\ wheel.time_slot[f[n]] = s /\ n + Cardinality(A(f[n])) <= n
    BY <1>8, <2>1 DEF Walking, n
  <2>3. r[f[n]] <= r[f[n]]
    <3>1. r[f[n]] \in Nat
      BY <1>4, <2>2
    <3>2. QED
      BY <3>1
  <2>4. f[n] \in A(f[n])
    BY <1>5, <2>2, <2>3 DEF Ahead
  <2>5. IsFiniteSet(A(f[n])) /\ Cardinality(A(f[n])) \in Nat
    BY <1>3
  <2> HIDE DEF A
  <2>6. Cardinality(A(f[n])) # 0
    BY <2>4, <2>5, FS_EmptySet
  <2>7. QED
    BY <1>1, <2>2, <2>5, <2>6
<1>10. A(f[n]) = {}
  BY <1>5, <1>9 DEF Ahead
<1>11. Reached(f, n) = {t \in wired : wheel.time_slot[t] = s}
  BY <1>8, <1>10 DEF Walking
<1>12. QED
  BY <1>9, <1>11 DEF n

(* ~time_wheel() deletes every timer once. *)
LEMMA WheelDestroyStep ==
  ASSUME Wheel!WheelAssumption, WheelInv, Wheel!WheelDestroy
  PROVE  WheelInv'
<1> DEFINE size       == Wheel!Cardinality(WheelTimers)
           walk       == [s \in Wheel!Ring |-> CHOOSE f : IsWalk(f, wheel.slots[s], size)]
           reached(s) == {walk[s][k] : k \in 0 .. size} \ {NULL}
           once       == /\ \A s \in Wheel!Ring : walk[s][size] = NULL /\ reached(s) \subseteq wired
                         /\ \A s, u \in Wheel!Ring : s # u => reached(s) \cap reached(u) = {}
<1>1. /\ wheel \in Wheels /\ cur_slot \in Wheel!Ring /\ wired \in SUBSET WheelTimers
      /\ spoiled \in BOOLEAN
  BY WheelTypes DEF WheelInv
<1>2. /\ end = "none"
      /\ wired' = wired \ UNION {reached(s) : s \in Wheel!Ring}
      /\ end' = IF once THEN "destroyed" ELSE "deleted timer"
      /\ wheel' = Wheel!Empty /\ due' = [t \in WheelTimers |-> 0]
      /\ cur_slot' = cur_slot /\ spoiled' = spoiled
  BY DEF Wheel!WheelDestroy, IsWalk
<1>3. size \in Nat /\ size = Cardinality(WheelTimers)
  BY SameWheelCardinality, FS_CardinalityType, WheelConstants
<1>4. \A s \in Wheel!Ring : IsWalk(walk[s], wheel.slots[s], size)
  <2> SUFFICES ASSUME NEW s \in Wheel!Ring PROVE IsWalk(walk[s], wheel.slots[s], size)
    OBVIOUS
  <2> HIDE DEF size
  <2>1. \E f : IsWalk(f, wheel.slots[s], size)
    BY <1>3, WalksExist
  <2>2. walk[s] = CHOOSE f : IsWalk(f, wheel.slots[s], size)
    OBVIOUS
  <2>3. QED
    BY <2>1, <2>2
<1> HIDE DEF walk
<1>5. Wheel!TypeOK'
  <2>1. 0 \in 0 .. MaxTimeout + 1
    BY WheelConstants
  <2>2. due' \in [WheelTimers -> 0 .. MaxTimeout + 1]
    BY <1>2, <2>1
  <2>3. wheel' \in Wheels
    BY <1>2, EmptyIs
  <2>4. wired' \subseteq WheelTimers /\ cur_slot' \in Wheel!Ring /\ spoiled' \in BOOLEAN
        /\ end' \in {"none", "destroyed", "deleted timer"}
    BY <1>1, <1>2
  <2>5. QED
    BY <2>2, <2>3, <2>4 DEF Wheel!TypeOK, Wheels, WheelLinks, Turns, Wheel!Ring
<1>6. ASSUME ~spoiled
      PROVE  end' = "destroyed" /\ wired' = {}
  <2>1. Linked(wheel, wired)
    BY <1>6 DEF WheelInv
  <2>2. PICK r : Ranked(wheel, wired, r)
    BY <1>6 DEF WheelInv
  <2>3. ASSUME NEW s \in Wheel!Ring
        PROVE  walk[s][size] = NULL /\ reached(s) = {t \in wired : wheel.time_slot[t] = s}
    <3> DEFINE f == walk[s]
    <3>1. IsWalk(f, wheel.slots[s], Cardinality(WheelTimers))
      BY <1>3, <1>4
    <3> HIDE DEF f
    <3>2. /\ f[Cardinality(WheelTimers)] = NULL
          /\ Reached(f, Cardinality(WheelTimers)) = {t \in wired : wheel.time_slot[t] = s}
      BY <1>1, <2>1, <2>2, <3>1, WalksReachAll
    <3>3. QED
      BY <1>3, <3>2 DEF Reached, f
  <2> HIDE DEF reached
  <2>4. \A t \in wired : t \in reached(wheel.time_slot[t]) /\ wheel.time_slot[t] \in Wheel!Ring
    BY <1>1, <2>3 DEF Wheels
  <2>5. wired' = {}
    BY <1>2, <2>4
  <2>6. once
    BY <2>3
  <2>7. QED
    BY <1>2, <2>5, <2>6
<1>7. ASSUME ~spoiled
      PROVE  /\ Linked(wheel', wired') /\ (\E r : Ranked(wheel', wired', r))
             /\ DueIs(wheel', wired', due', cur_slot')
  <2>1. Linked(wheel', wired') /\ Ranked(wheel', wired', [t \in WheelTimers |-> 0])
    BY <1>2, <1>6, <1>7, EmptyIs
  <2>2. DueIs(wheel', wired', due', cur_slot')
    BY <1>6, <1>7 DEF DueIs
  <2>3. QED
    BY <2>1, <2>2
<1>8. QED
  BY <1>2, <1>5, <1>6, <1>7 DEF WheelInv

(* Every step keeps the invariant, and a tick fires what is due. *)
LEMMA WheelInvStep == Wheel!WheelAssumption /\ WheelInv /\ [Wheel!Next]_Wheel!wheelVars => WheelInv'
<1> SUFFICES ASSUME Wheel!WheelAssumption, WheelInv, [Wheel!Next]_Wheel!wheelVars PROVE WheelInv'
  OBVIOUS
<1>1. CASE Wheel!WheelDestroy
  BY <1>1, WheelDestroyStep
<1>2. ASSUME NEW t \in WheelTimers, NEW timeout \in 0 .. MaxTimeout, Wheel!WheelAdd(t, timeout)
      PROVE  WheelInv'
  BY <1>2, WheelAddStep
<1>3. ASSUME NEW t \in WheelTimers, Wheel!WheelDel(t) PROVE WheelInv'
  BY <1>3, WheelDelStep
<1>4. CASE Wheel!WheelTick
  BY <1>4, WheelTickStep
<1>5. CASE UNCHANGED Wheel!wheelVars
  <2>1. /\ wheel' = wheel /\ cur_slot' = cur_slot /\ wired' = wired /\ due' = due
        /\ end' = end /\ spoiled' = spoiled
    BY <1>5 DEF Wheel!wheelVars
  <2>2. Wheel!TypeOK'
    BY <2>1 DEF WheelInv, Wheel!TypeOK, Wheel!Ring
  <2>3. QED
    BY <2>1, <2>2 DEF WheelInv
<1>6. QED
  BY <1>1, <1>2, <1>3, <1>4, <1>5 DEF Wheel!Next

-------------------------------------------------------------------------------
(* The theorems about the wheel *)

(* The invariant holds of the wheel, which may also rest. *)
LEMMA WheelAmongOthers == MCSpec => []WheelInv
<1>1. MCInit => WheelInv
  BY WheelInvInit, MCAssumption DEF MCInit
<1>2. WheelInv /\ [MCNext]_allVars => WheelInv'
  <2> SUFFICES ASSUME WheelInv, [MCNext]_allVars PROVE WheelInv'
    OBVIOUS
  <2>1. [Wheel!Next]_Wheel!wheelVars
    BY DEF MCNext, allVars, wheelVars, Wheel!wheelVars
  <2>2. QED
    BY <2>1, WheelInvStep, MCAssumption
<1>3. QED
  BY <1>1, <1>2, PTL DEF MCSpec

(* The links, the turns and the slots of the wheel keep their types, also  *)
(* when tick() has made a prev link wrong.                                 *)
THEOREM WheelTypesAreKept == MCSpec => []WheelTypeOK
<1>1. WheelInv => WheelTypeOK
  BY DEF WheelInv, WheelTypeOK
<1>2. QED
  BY <1>1, WheelAmongOthers, PTL

(* Until tick() removes a timer between two others every slot of the wheel *)
(* is a doubly linked list of its own, every timer is in the list of its   *)
(* slot, no deleted timer is touched and the destructor deletes them all.  *)
THEOREM ListsAreKeptUntilSpoiled == MCSpec => []ListsUntilSpoiled
<1>1. WheelInv => ListsUntilSpoiled
  BY WheelInvGives, MCAssumption DEF ListsUntilSpoiled
<1>2. QED
  BY <1>1, WheelAmongOthers, PTL

(* Until then a timer fires with the tick it was added for: add_timer()    *)
(* and tick() agree on the slot and the rotations, whatever the number of  *)
(* slots, the timeout and the slot the wheel stands at.                    *)
THEOREM TimersFireOnTime == MCSpec => FiresOnTime
<1>1. WheelInv /\ Wheel!WheelTick /\ ~spoiled' => wired' = {t \in wired : due[t] > 1}
  BY WheelTickStep, MCAssumption DEF Fires
<1>2. WheelInv => [Wheel!WheelTick /\ ~spoiled'
                     => wired' = {t \in wired : due[t] > 1}]_Wheel!wheelVars
  BY <1>1
<1>3. QED
  BY <1>2, WheelAmongOthers, PTL DEF FiresOnTime, Wheel!FiresOnTime
===============================================================================
