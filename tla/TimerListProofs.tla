---------------------------- MODULE TimerListProofs ---------------------------
(***************************************************************************)
(* Theorems about TimerList, for any number of timers and any lifetime: as *)
(* long as no timer was lost the list is well formed, its steps are steps  *)
(* of TimerSet, and its pointers lead in no circle even after a loss.      *)
(***************************************************************************)
EXTENDS TimerList, FiniteSetTheorems, NaturalsInduction, WellFoundedInduction, TLAPS

(* A row: k timers one behind the other, none twice. *)
Rows(k) == {q \in [1 .. k -> Timers] : \A i, j \in 1 .. k : q[i] = q[j] => i = j}

Elements(k, q) == {q[i] : i \in 1 .. k}

(* The pointers of l lead along the row q, forward and back. *)
Leads(l, k, q) ==
    /\ l.head = IF k = 0 THEN NULL ELSE q[1]
    /\ \A i \in 1 .. k : /\ l.next[q[i]] = IF i < k THEN q[i + 1] ELSE NULL
                         /\ l.prev[q[i]] = IF i > 1 THEN q[i - 1] ELSE NULL

Linked(l, k, q) == Leads(l, k, q) /\ (k > 0 => l.tail = q[k])

-------------------------------------------------------------------------------
(* The walk through a list                                                 *)

(* What is assumed of the constants, in the form the proofs use. *)
LEMMA Constants ==
  IsFiniteSet(Timers) /\ NULL \notin Timers /\ Lifetime \in Nat \ {0} /\ N \in Nat
  BY ListAssumption, FS_CardinalityType DEF N

(* The smallest member of a set of numbers. *)
LEMMA Smallest ==
  ASSUME NEW S \in SUBSET Nat, S # {}
  PROVE  \E x \in S : \A y \in S : x <= y
<1> DEFINE less == OpToRel(<, Nat)
<1>1. IsWellFoundedOn(less, Nat)
  BY NatLessThanWellFounded
<1>2. \E x \in S : \A y \in S : <<y, x>> \notin less
  BY <1>1, WFMin
<1>3. \A x, y \in Nat : <<y, x>> \notin less => x <= y
  <2>1. \A x, y \in Nat : y < x => <<y, x>> \in less
    BY DEF OpToRel
  <2>2. \A x, y \in Nat : y < x \/ x <= y
    OBVIOUS
  <2>3. QED
    BY <2>1, <2>2, Zenon
<1> HIDE DEF less
<1>4. QED
  BY <1>2, <1>3

(* A row is not longer than there are timers. *)
LEMMA RowsAreShort ==
  ASSUME NEW k \in Nat, NEW q \in Rows(k)
  PROVE  /\ k <= N
         /\ IsFiniteSet(Elements(k, q)) /\ Cardinality(Elements(k, q)) = k
<1>1. IsFiniteSet(1 .. k) /\ Cardinality(1 .. k) = k
  BY FS_Interval
<1>2. q \in Bijection(1 .. k, Elements(k, q))
  BY DEF Rows, Elements, Bijection, Injection, Surjection, IsInjective
<1>3. ExistsBijection(1 .. k, Elements(k, q))
  BY <1>2 DEF ExistsBijection
<1>4. IsFiniteSet(Elements(k, q)) /\ Cardinality(Elements(k, q)) = k
  BY <1>1, <1>3, FS_Bijection
<1>5. Elements(k, q) \in SUBSET Timers
  BY DEF Rows, Elements
<1>6. QED
  BY <1>4, <1>5, FS_Subset, Constants DEF N

(* One step of the walk, as the recursive definition of Chain has it. *)
Walks(c, l, start) ==
    c = [i \in 0 .. N |-> IF i = 0 THEN start
                          ELSE IF c[i-1] = NULL THEN NULL
                          ELSE l.next[c[i-1]]]

(* The walk exists as soon as something has its recursive definition. *)
LEMMA ChainUnfolds ==
  ASSUME NEW l, NEW start, NEW w, Walks(w, l, start)
  PROVE  Walks(Chain(l, start), l, start)
<1>1. Chain(l, start) = CHOOSE c : Walks(c, l, start)
  BY DEF Chain, Walks
<1>2. QED
  BY <1>1

(* From start, next leads along f to the end. *)
Along(l, start, m, f) ==
    /\ start = IF m = 0 THEN NULL ELSE f[1]
    /\ \A i \in 1 .. m : l.next[f[i]] = IF i < m THEN f[i + 1] ELSE NULL

(* The walk then meets what is in f. *)
LEMMA ChainIs ==
  ASSUME NEW l, NEW start, NEW m \in 0 .. N, NEW f \in [1 .. m -> Timers],
         Along(l, start, m, f)
  PROVE  \A i \in 0 .. N : Chain(l, start)[i] = IF i < m THEN f[i + 1] ELSE NULL
<1> DEFINE w == [i \in 0 .. N |-> IF i < m THEN f[i + 1] ELSE NULL]
           c == Chain(l, start)
<1>1. N \in Nat /\ NULL \notin Timers /\ m \in Nat /\ m <= N
  BY Constants
<1>2. ASSUME NEW i \in 0 .. N, i # 0
      PROVE  w[i] = IF w[i - 1] = NULL THEN NULL ELSE l.next[w[i - 1]]
  <2>1. i - 1 \in 0 .. N /\ (i - 1) + 1 = i /\ (i < m => i \in 1 .. m /\ i - 1 < m)
    BY <1>1, <1>2
  <2>2. w[i] = (IF i < m THEN f[i + 1] ELSE NULL) /\ w[i - 1] = (IF i - 1 < m THEN f[i] ELSE NULL)
    BY <2>1
  <2>3. CASE i - 1 < m
    <3>1. i \in 1 .. m
      BY <1>1, <1>2, <2>3
    <3>2. f[i] # NULL /\ l.next[f[i]] = IF i < m THEN f[i + 1] ELSE NULL
      BY <1>1, <3>1 DEF Along
    <3> HIDE DEF w
    <3>3. QED
      BY <2>2, <2>3, <3>2
  <2>4. CASE ~(i - 1 < m)
    <3>1. ~(i < m)
      BY <1>1, <2>4
    <3> HIDE DEF w
    <3>2. QED
      BY <2>2, <2>4, <3>1
  <2>5. QED
    BY <2>3, <2>4
<1>3. w[0] = start
  BY <1>1 DEF Along
<1>4. Walks(w, l, start)
  <2>1. w = [i \in 0 .. N |-> w[i]]
    OBVIOUS
  <2> HIDE DEF w
  <2>2. QED
    BY <1>2, <1>3, <2>1 DEF Walks
<1>5. Walks(c, l, start)
  BY <1>4, ChainUnfolds
<1>6. \A i \in 0 .. N : c[i] = w[i]
  <2> DEFINE D == {i \in 0 .. N : c[i] # w[i]}
  <2> SUFFICES ASSUME D # {} PROVE FALSE
    OBVIOUS
  <2>1. PICK i \in D : \A j \in D : i <= j
    <3>1. D \in SUBSET Nat
      BY <1>1
    <3> HIDE DEF D
    <3>2. QED
      BY <3>1, Smallest
  <2> HIDE DEF w, c
  <2>2. i \in 0 .. N /\ c[i] # w[i]
    BY <2>1
  <2>3. c[0] = start
    BY <1>1, <1>5 DEF Walks
  <2>4. i # 0 /\ i - 1 \in 0 .. N /\ ~(i <= i - 1)
    BY <1>1, <1>3, <2>2, <2>3
  <2>5. c[i - 1] = w[i - 1]
    BY <2>1, <2>4
  <2>6. c[i] = IF c[i - 1] = NULL THEN NULL ELSE l.next[c[i - 1]]
    BY <1>5, <2>2, <2>4 DEF Walks
  <2>7. QED
    BY <1>2, <2>2, <2>4, <2>5, <2>6
<1>7. QED
  BY <1>6

(* The timers that a walk from the head meets are those of the row. *)
LEMMA ListedIs ==
  ASSUME NEW l, NEW k \in Nat, NEW q \in Rows(k), Leads(l, k, q)
  PROVE  Listed(l) = Elements(k, q)
<1> DEFINE c == Chain(l, l.head)
<1>1. k <= N /\ N \in Nat /\ NULL \notin Timers /\ q \in [1 .. k -> Timers]
  BY Constants, RowsAreShort DEF Rows
<1>2. \A i \in 0 .. N : c[i] = IF i < k THEN q[i + 1] ELSE NULL
  <2>1. Along(l, l.head, k, q)
    BY DEF Linked, Leads, Along
  <2>2. k \in 0 .. N
    BY <1>1
  <2>3. QED
    BY <1>1, <2>1, <2>2, ChainIs
<1> HIDE DEF c
<1>3. ASSUME NEW i \in 1 .. k PROVE q[i] \in Listed(l)
  <2>1. i - 1 \in 0 .. N /\ i - 1 < k /\ (i - 1) + 1 = i
    BY <1>1
  <2>2. c[i - 1] = q[i]
    BY <1>2, <2>1
  <2>3. q[i] # NULL
    BY <1>1
  <2>4. QED
    BY <2>1, <2>2, <2>3 DEF Listed, c
<1>4. ASSUME NEW i \in 0 .. N, c[i] # NULL PROVE c[i] \in Elements(k, q)
  <2>1. i < k /\ c[i] = q[i + 1]
    BY <1>2, <1>4
  <2>2. i + 1 \in 1 .. k
    BY <1>1, <2>1
  <2>3. QED
    BY <2>1, <2>2 DEF Elements
<1>5. QED
  BY <1>3, <1>4 DEF Listed, Elements, c

-------------------------------------------------------------------------------
(* Adding a timer at the end                                               *)

With(k, q, t) == [i \in 1 .. k + 1 |-> IF i <= k THEN q[i] ELSE t]

(* The row with a new timer at its end is a row. *)
LEMMA WithIsARow ==
  ASSUME NEW k \in Nat, NEW q \in Rows(k), NEW t \in Timers \ Elements(k, q)
  PROVE  With(k, q, t) \in Rows(k + 1) /\ Elements(k + 1, With(k, q, t)) = Elements(k, q) \cup {t}
<1>1. q \in [1 .. k -> Timers] /\ (\A i, j \in 1 .. k : q[i] = q[j] => i = j)
      /\ \A i \in 1 .. k : q[i] # t
  BY DEF Rows, Elements
<1>2. With(k, q, t) \in [1 .. k + 1 -> Timers]
  BY <1>1 DEF With
<1>3. \A i \in 1 .. k + 1 : With(k, q, t)[i] = IF i <= k THEN q[i] ELSE t
  BY DEF With
<1>4. \A i \in 1 .. k + 1 : (i <= k /\ i \in 1 .. k) \/ (i = k + 1 /\ ~(i <= k))
  OBVIOUS
<1>5. \A i, j \in 1 .. k + 1 : With(k, q, t)[i] = With(k, q, t)[j] => i = j
  BY <1>1, <1>3, <1>4
<1>6. Elements(k + 1, With(k, q, t)) = Elements(k, q) \cup {t}
  <2>1. \A i \in 1 .. k + 1 : With(k, q, t)[i] \in Elements(k, q) \cup {t}
    BY <1>3, <1>4 DEF Elements
  <2>2. \A i \in 1 .. k : i \in 1 .. k + 1 /\ With(k, q, t)[i] = q[i]
    BY <1>3
  <2>3. k + 1 \in 1 .. k + 1 /\ With(k, q, t)[k + 1] = t
    BY <1>3, <1>4
  <2>4. QED
    BY <2>1, <2>2, <2>3 DEF Elements
<1>7. QED
  BY <1>2, <1>5, <1>6 DEF Rows

(* The pointers after a timer was put behind the last one of the row. *)
AtEnd(l, last, t) ==
    [l EXCEPT !.next[last] = t, !.next[t] = NULL, !.prev[t] = last, !.tail = t]

(* The fields of the list after AtEnd, one by one. *)
LEMMA AtEndFields ==
  ASSUME NEW l \in Links, NEW last \in Timers, NEW t \in Timers
  PROVE  /\ AtEnd(l, last, t) \in Links
         /\ AtEnd(l, last, t).head = l.head /\ AtEnd(l, last, t).tail = t
         /\ \A u \in Timers :
               /\ AtEnd(l, last, t).next[u] = IF u = t THEN NULL ELSE IF u = last THEN t ELSE l.next[u]
               /\ AtEnd(l, last, t).prev[u] = IF u = t THEN last ELSE l.prev[u]
  BY DEF AtEnd, Links

(* add_timer() at the end of a list links the longer row. *)
LEMMA AtEndLinks ==
  ASSUME NEW l \in Links, NEW k \in Nat \ {0}, NEW q \in Rows(k), Leads(l, k, q),
         NEW t \in Timers \ Elements(k, q)
  PROVE  AtEnd(l, q[k], t) \in Links /\ Linked(AtEnd(l, q[k], t), k + 1, With(k, q, t))
<1> DEFINE o == AtEnd(l, q[k], t)
           r == With(k, q, t)
<1>1. q \in [1 .. k -> Timers] /\ (\A i, j \in 1 .. k : q[i] = q[j] => i = j)
      /\ (\A i \in 1 .. k : q[i] # t) /\ k \in 1 .. k /\ q[k] \in Timers
  BY DEF Rows, Elements
<1>2. /\ o \in Links /\ o.head = l.head /\ o.tail = t
      /\ \A u \in Timers : /\ o.next[u] = IF u = t THEN NULL ELSE IF u = q[k] THEN t ELSE l.next[u]
                           /\ o.prev[u] = IF u = t THEN q[k] ELSE l.prev[u]
  BY <1>1, AtEndFields
<1>3. \A i \in 1 .. k + 1 : r[i] = IF i <= k THEN q[i] ELSE t
  BY DEF With
<1>4. /\ l.head = q[1]
      /\ \A i \in 1 .. k : /\ l.next[q[i]] = IF i < k THEN q[i + 1] ELSE NULL
                           /\ l.prev[q[i]] = IF i > 1 THEN q[i - 1] ELSE NULL
  BY DEF Linked, Leads
<1> HIDE DEF o, r
<1>5. ASSUME NEW i \in 1 .. k
      PROVE  /\ o.next[r[i]] = IF i < k + 1 THEN r[i + 1] ELSE NULL
             /\ o.prev[r[i]] = IF i > 1 THEN r[i - 1] ELSE NULL
  <2>1. i \in 1 .. k + 1 /\ i + 1 \in 1 .. k + 1 /\ i <= k /\ i < k + 1
        /\ r[i] = q[i] /\ q[i] \in Timers /\ q[i] # t
    BY <1>1, <1>3
  <2>2. o.next[r[i]] = r[i + 1]
    <3>1. CASE i = k
      BY <1>1, <1>2, <1>3, <2>1, <3>1
    <3>2. CASE i # k
      <4>1. i < k /\ i + 1 <= k /\ q[i] # q[k]
        BY <1>1, <3>2
      <4>2. QED
        BY <1>2, <1>3, <1>4, <2>1, <4>1
    <3>3. QED
      BY <3>1, <3>2
  <2>3. o.prev[r[i]] = l.prev[q[i]]
    BY <1>2, <2>1
  <2>4. i > 1 => i - 1 \in 1 .. k + 1 /\ i - 1 <= k
    OBVIOUS
  <2>5. QED
    BY <1>3, <1>4, <2>1, <2>2, <2>3, <2>4
<1>6. /\ o.next[r[k + 1]] = NULL
      /\ o.prev[r[k + 1]] = r[k]
  <2>1. k + 1 \in 1 .. k + 1 /\ ~(k + 1 <= k) /\ k \in 1 .. k + 1 /\ k <= k
    OBVIOUS
  <2>2. r[k + 1] = t /\ r[k] = q[k]
    BY <1>3, <2>1
  <2>3. QED
    BY <1>2, <2>2
<1>7. o.head = r[1] /\ o.tail = r[k + 1]
  <2>1. k + 1 \in 1 .. k + 1 /\ ~(k + 1 <= k) /\ 1 \in 1 .. k + 1 /\ 1 <= k
    OBVIOUS
  <2>2. QED
    BY <1>2, <1>3, <1>4, <2>1
<1>8. \A i \in 1 .. k + 1 : /\ o.next[r[i]] = IF i < k + 1 THEN r[i + 1] ELSE NULL
                            /\ o.prev[r[i]] = IF i > 1 THEN r[i - 1] ELSE NULL
  <2>1. \A i \in 1 .. k + 1 : i \in 1 .. k \/ (i = k + 1 /\ ~(i < k + 1) /\ i > 1 /\ i - 1 = k)
    OBVIOUS
  <2>2. QED
    BY <1>5, <1>6, <2>1
<1>9. QED
  BY <1>2, <1>7, <1>8 DEF Linked, Leads, o, r

(* The walk of add_timer(timer, lst_head) for a timer that expires last.   *)
LEMMA InsertIsAtEnd ==
  ASSUME NEW l \in Links, NEW k \in Nat \ {0}, NEW q \in Rows(k), Leads(l, k, q),
         NEW t \in Timers, NEW left \in [Timers -> Nat], \A i \in 1 .. k : left[q[i]] <= left[t],
         NEW lst_head, k = 1 => lst_head = q[1]
  PROVE  /\ InsertAfter(l, left, t, lst_head) = AtEnd(l, q[k], t)
         /\ WalkedOver(l, left, t) \subseteq Elements(k, q)
<1> DEFINE c == Chain(l, l.next[l.head])
           f == [i \in 1 .. k - 1 |-> q[i + 1]]
<1>1. k \in Nat /\ k <= N /\ N \in Nat /\ NULL \notin Timers /\ q \in [1 .. k -> Timers]
      /\ k - 1 \in 0 .. N
  BY Constants, RowsAreShort DEF Rows
<1>2. \A i \in 0 .. N : c[i] = IF i < k - 1 THEN q[i + 2] ELSE NULL
  <2>1. \A i \in 1 .. k - 1 : i + 1 \in 1 .. k
    BY <1>1
  <2>2. f \in [1 .. k - 1 -> Timers] /\ \A i \in 1 .. k - 1 : f[i] = q[i + 1]
    BY <1>1, <2>1
  <2>3. l.next[l.head] = IF k - 1 = 0 THEN NULL ELSE f[1]
    <3>1. 1 \in 1 .. k /\ l.head = q[1] /\ l.next[q[1]] = (IF 1 < k THEN q[1 + 1] ELSE NULL)
      BY <1>1 DEF Linked, Leads
    <3>2. k - 1 = 0 <=> ~(1 < k)
      BY <1>1
    <3>3. k - 1 # 0 => 1 \in 1 .. k - 1
      BY <1>1
    <3> HIDE DEF f
    <3>4. QED
      BY <2>2, <3>1, <3>2, <3>3
  <2>4. ASSUME NEW i \in 1 .. k - 1 PROVE l.next[f[i]] = IF i < k - 1 THEN f[i + 1] ELSE NULL
    <3>1. f[i] = q[i + 1] /\ i + 1 \in 1 .. k
      BY <2>1, <2>2
    <3>2. l.next[q[i + 1]] = IF i + 1 < k THEN q[(i + 1) + 1] ELSE NULL
      BY <3>1 DEF Linked, Leads
    <3>3. (i + 1 < k <=> i < k - 1) /\ (i < k - 1 => i + 1 \in 1 .. k - 1)
      BY <1>1
    <3> HIDE DEF f
    <3>4. QED
      BY <2>2, <3>1, <3>2, <3>3
  <2> HIDE DEF f
  <2>5. \A i \in 0 .. N : c[i] = IF i < k - 1 THEN f[i + 1] ELSE NULL
    <3> DEFINE m == k - 1
               start == l.next[l.head]
    <3>1. m \in 0 .. N /\ f \in [1 .. m -> Timers] /\ Along(l, start, m, f)
      BY <1>1, <2>2, <2>3, <2>4 DEF Along
    <3> HIDE DEF m, start
    <3>2. \A i \in 0 .. N : Chain(l, start)[i] = IF i < m THEN f[i + 1] ELSE NULL
      BY <3>1, ChainIs, Zenon
    <3>3. QED
      BY <3>2 DEF m, start
  <2>6. \A i \in 0 .. N : i < k - 1 => i + 1 \in 1 .. k - 1 /\ (i + 1) + 1 = i + 2
    BY <1>1
  <2> HIDE DEF c
  <2>7. QED
    BY <2>2, <2>5, <2>6
<1> HIDE DEF c, f
<1>3. \A i \in 0 .. N : i < k - 1 => /\ i + 2 \in 1 .. k /\ c[i] = q[i + 2] /\ c[i] \in Timers /\ c[i] # NULL
                                     /\ left[t] >= left[c[i]] /\ ~(left[t] < left[c[i]])
  <2>1. \A i \in 0 .. N : i < k - 1 => i + 2 \in 1 .. k
    BY <1>1
  <2>2. \A x, y \in Nat : x <= y => y >= x /\ ~(y < x)
    OBVIOUS
  <2>3. \A i \in 1 .. k : q[i] \in Timers /\ left[q[i]] \in Nat /\ left[t] \in Nat
    BY <1>1
  <2>4. QED
    BY <1>1, <1>2, <2>1, <2>2, <2>3
<1>4. c[k - 1] = NULL
  BY <1>1, <1>2
<1>5. WalkEnd(l, left, t) = k - 1
  <2> DEFINE P(i) == /\ c[i] = NULL \/ left[t] < left[c[i]]
                     /\ \A j \in 0 .. i - 1 : c[j] # NULL /\ left[t] >= left[c[j]]
  <2>1. WalkEnd(l, left, t) = CHOOSE i \in 0 .. N : P(i)
    BY DEF WalkEnd, c
  <2>2. P(k - 1)
    <3>1. \A j \in 0 .. (k - 1) - 1 : j \in 0 .. N /\ j < k - 1
      BY <1>1
    <3>2. QED
      BY <1>3, <1>4, <3>1
  <2>3. ASSUME NEW i \in 0 .. N, P(i) PROVE i = k - 1
    <3>1. ~(i < k - 1)
      BY <1>3, <2>3
    <3>2. i > k - 1 => k - 1 \in 0 .. i - 1
      BY <1>1
    <3>3. ~(i > k - 1)
      BY <1>4, <2>3, <3>2
    <3>4. QED
      BY <1>1, <3>1, <3>3
  <2> HIDE DEF P
  <2>4. QED
    BY <1>1, <2>1, <2>2, <2>3
<1>6. WalkedOver(l, left, t) \subseteq Elements(k, q)
  <2>1. WalkedOver(l, left, t) \subseteq {c[i] : i \in 0 .. k - 1} \ {NULL}
    BY <1>5 DEF WalkedOver, c
  <2>2. ASSUME NEW i \in 0 .. k - 1, c[i] # NULL PROVE c[i] \in Elements(k, q)
    <3>1. i \in 0 .. N /\ (i < k - 1 \/ i = k - 1)
      BY <1>1
    <3>2. i < k - 1
      BY <1>4, <2>2, <3>1
    <3>3. QED
      BY <1>3, <3>1, <3>2 DEF Elements
  <2>3. QED
    BY <2>1, <2>2
<1>7. (IF k - 1 = 0 THEN lst_head ELSE c[(k - 1) - 1]) = q[k]
  <2>1. CASE k = 1
    BY <2>1
  <2>2. CASE k # 1
    <3>1. k - 1 # 0 /\ (k - 1) - 1 \in 0 .. N /\ (k - 1) - 1 < k - 1 /\ ((k - 1) - 1) + 2 = k
      BY <1>1, <2>2
    <3>2. QED
      BY <1>3, <3>1
  <2>3. QED
    BY <2>1, <2>2
<1>8. InsertAfter(l, left, t, lst_head) =
         SetPrev([l EXCEPT !.next[q[k]] = t, !.next[t] = NULL, !.prev[t] = q[k], !.tail = t], NULL, t)
  BY <1>4, <1>5, <1>7 DEF InsertAfter, c
<1>9. QED
  BY <1>6, <1>8 DEF SetPrev, AtEnd

-------------------------------------------------------------------------------
(* Taking timers out of the row                                            *)

Without(k, q, p) == [i \in 1 .. k - 1 |-> IF i < p THEN q[i] ELSE q[i + 1]]

(* The numbers of a row without its p-th member. *)
LEMMA WithoutIs ==
  ASSUME NEW k \in Nat, NEW q \in Rows(k), NEW p \in 1 .. k
  PROVE  \A i \in 1 .. k - 1 :
            /\ i < p  => i \in 1 .. k /\ Without(k, q, p)[i] = q[i]
            /\ ~(i < p) => i + 1 \in 1 .. k /\ i + 1 # p /\ Without(k, q, p)[i] = q[i + 1]
  BY DEF Without

(* The row without its p-th timer is a row. *)
LEMMA WithoutIsARow ==
  ASSUME NEW k \in Nat, NEW q \in Rows(k), NEW p \in 1 .. k
  PROVE  /\ k - 1 \in Nat /\ Without(k, q, p) \in Rows(k - 1)
         /\ Elements(k - 1, Without(k, q, p)) = Elements(k, q) \ {q[p]}
<1> DEFINE r == Without(k, q, p)
<1>1. q \in [1 .. k -> Timers] /\ (\A i, j \in 1 .. k : q[i] = q[j] => i = j) /\ k - 1 \in Nat
  BY DEF Rows
<1>2. \A i \in 1 .. k - 1 : /\ i < p  => i \in 1 .. k /\ r[i] = q[i]
                            /\ ~(i < p) => i + 1 \in 1 .. k /\ i + 1 # p /\ r[i] = q[i + 1]
  BY WithoutIs
<1>3. r \in [1 .. k - 1 -> Timers]
  <2>1. r = [i \in 1 .. k - 1 |-> r[i]]
    BY DEF Without
  <2>2. \A i \in 1 .. k - 1 : r[i] \in Timers
    BY <1>1, <1>2
  <2> HIDE DEF r
  <2>3. QED
    BY <2>1, <2>2
<1> HIDE DEF r
<1>4. ASSUME NEW i \in 1 .. k - 1, NEW j \in 1 .. k - 1, r[i] = r[j] PROVE i = j
  <2>1. CASE i < p /\ j < p
    BY <1>1, <1>2, <1>4, <2>1
  <2>2. CASE i < p /\ ~(j < p)
    <3>1. i = j + 1
      BY <1>1, <1>2, <1>4, <2>2
    <3>2. QED
      BY <2>2, <3>1
  <2>3. CASE ~(i < p) /\ j < p
    <3>1. i + 1 = j
      BY <1>1, <1>2, <1>4, <2>3
    <3>2. QED
      BY <2>3, <3>1
  <2>4. CASE ~(i < p) /\ ~(j < p)
    <3>1. i + 1 = j + 1
      BY <1>1, <1>2, <1>4, <2>4
    <3>2. QED
      BY <3>1
  <2>5. QED
    BY <2>1, <2>2, <2>3, <2>4
<1>5. Elements(k - 1, r) = Elements(k, q) \ {q[p]}
  <2>1. ASSUME NEW i \in 1 .. k - 1 PROVE r[i] \in Elements(k, q) \ {q[p]}
    <3>1. CASE i < p
      BY <1>1, <1>2, <3>1 DEF Elements
    <3>2. CASE ~(i < p)
      BY <1>1, <1>2, <3>2 DEF Elements
    <3>3. QED
      BY <3>1, <3>2
  <2>2. ASSUME NEW i \in 1 .. k, i # p PROVE \E j \in 1 .. k - 1 : r[j] = q[i]
    <3>1. CASE i < p
      <4>1. i \in 1 .. k - 1
        BY <3>1
      <4>2. QED
        BY <1>2, <3>1, <4>1
    <3>2. CASE ~(i < p)
      <4>1. i - 1 \in 1 .. k - 1 /\ ~(i - 1 < p) /\ (i - 1) + 1 = i
        BY <2>2, <3>2
      <4>2. QED
        BY <1>2, <4>1
    <3>3. QED
      BY <3>1, <3>2
  <2>3. QED
    BY <2>1, <2>2 DEF Elements
<1>6. QED
  BY <1>1, <1>3, <1>4, <1>5 DEF Rows, r

(* o has the pointers of l without the p-th timer of the row. *)
Removed(o, l, k, q, p) ==
    /\ o.head = IF p > 1 THEN l.head ELSE IF k > 1 THEN q[2] ELSE NULL
    /\ k > 1 => o.tail = IF p = k THEN q[k - 1] ELSE l.tail
    /\ \A i \in 1 .. k :
          i # p => /\ o.next[q[i]] = IF i + 1 = p THEN IF p < k THEN q[p + 1] ELSE NULL
                                     ELSE l.next[q[i]]
                   /\ o.prev[q[i]] = IF i - 1 = p THEN IF p > 1 THEN q[p - 1] ELSE NULL
                                     ELSE l.prev[q[i]]

(* A list whose pointers skip the p-th timer links the row without it. *)
LEMMA RemovedIsLinked ==
  ASSUME NEW k \in Nat, NEW q \in Rows(k), NEW p \in 1 .. k, NEW l, Linked(l, k, q),
         NEW o, Removed(o, l, k, q, p)
  PROVE  Linked(o, k - 1, Without(k, q, p))
<1> DEFINE r == Without(k, q, p)
<1>1. \A i \in 1 .. k - 1 : /\ i < p  => i \in 1 .. k /\ r[i] = q[i]
                            /\ ~(i < p) => i + 1 \in 1 .. k /\ i + 1 # p /\ r[i] = q[i + 1]
  BY WithoutIs
<1> HIDE DEF r
<1>2. /\ l.head = q[1] /\ l.tail = q[k]
      /\ \A i \in 1 .. k : /\ l.next[q[i]] = IF i < k THEN q[i + 1] ELSE NULL
                           /\ l.prev[q[i]] = IF i > 1 THEN q[i - 1] ELSE NULL
  BY DEF Linked, Leads
<1>3. /\ o.head = IF p > 1 THEN l.head ELSE IF k > 1 THEN q[2] ELSE NULL
      /\ k > 1 => o.tail = IF p = k THEN q[k - 1] ELSE l.tail
      /\ \A i \in 1 .. k :
          i # p => /\ o.next[q[i]] = IF i + 1 = p THEN IF p < k THEN q[p + 1] ELSE NULL
                                     ELSE l.next[q[i]]
                   /\ o.prev[q[i]] = IF i - 1 = p THEN IF p > 1 THEN q[p - 1] ELSE NULL
                                     ELSE l.prev[q[i]]
  BY DEF Removed
<1>4. o.head = IF k - 1 = 0 THEN NULL ELSE r[1]
  <2>1. CASE k = 1
    <3>1. ~(p > 1) /\ ~(k > 1) /\ k - 1 = 0
      BY <2>1
    <3>2. QED
      BY <1>3, <3>1
  <2>2. CASE k # 1
    <3>1. 1 \in 1 .. k - 1 /\ (1 < p <=> p > 1) /\ k > 1 /\ k - 1 # 0 /\ 1 + 1 = 2
      BY <2>2
    <3>2. QED
      BY <1>1, <1>2, <1>3, <3>1
  <2>3. QED
    BY <2>1, <2>2
<1>5. ASSUME k - 1 > 0 PROVE o.tail = r[k - 1]
  <2>1. k > 1 /\ k - 1 \in 1 .. k - 1 /\ (k - 1 < p <=> p = k) /\ (k - 1) + 1 = k
    BY <1>5
  <2>2. QED
    BY <1>1, <1>2, <1>3, <2>1
<1>6. ASSUME NEW i \in 1 .. k - 1
      PROVE  o.next[r[i]] = IF i < k - 1 THEN r[i + 1] ELSE NULL
  <2>1. CASE i < p
    <3>1. i \in 1 .. k /\ i # p /\ i < k /\ r[i] = q[i] /\ l.next[q[i]] = q[i + 1]
      BY <1>1, <1>2, <2>1
    <3>2. CASE i + 1 = p
      <4>1. /\ p < k <=> i < k - 1
            /\ p < k => i + 1 \in 1 .. k - 1 /\ ~(i + 1 < p) /\ (i + 1) + 1 = p + 1
        BY <3>2
      <4>2. o.next[q[i]] = IF p < k THEN q[p + 1] ELSE NULL
        BY <1>3, <3>1, <3>2
      <4>3. QED
        BY <1>1, <3>1, <4>1, <4>2
    <3>3. CASE i + 1 # p
      <4>1. i + 1 < p /\ i + 1 \in 1 .. k - 1 /\ i < k - 1
        BY <2>1, <3>3
      <4>2. QED
        BY <1>1, <1>3, <3>1, <3>3, <4>1
    <3>4. QED
      BY <3>2, <3>3
  <2>2. CASE ~(i < p)
    <3>1. i + 1 \in 1 .. k /\ i + 1 # p /\ (i + 1) + 1 # p /\ r[i] = q[i + 1]
          /\ (i + 1 < k <=> i < k - 1)
      BY <1>1, <2>2
    <3>2. o.next[q[i + 1]] = IF i < k - 1 THEN q[(i + 1) + 1] ELSE NULL
      BY <1>2, <1>3, <3>1
    <3>3. i < k - 1 => i + 1 \in 1 .. k - 1 /\ ~(i + 1 < p)
      BY <2>2
    <3>4. QED
      BY <1>1, <3>1, <3>2, <3>3
  <2>3. QED
    BY <2>1, <2>2
<1>7. ASSUME NEW i \in 1 .. k - 1
      PROVE  o.prev[r[i]] = IF i > 1 THEN r[i - 1] ELSE NULL
  <2>1. i > 1 => i - 1 \in 1 .. k - 1 /\ (i - 1) + 1 = i
    OBVIOUS
  <2>2. CASE i < p
    <3>1. i \in 1 .. k /\ i # p /\ i - 1 # p /\ (i > 1 => i - 1 < p) /\ r[i] = q[i]
      BY <1>1, <2>2
    <3>2. o.prev[q[i]] = IF i > 1 THEN q[i - 1] ELSE NULL
      BY <1>2, <1>3, <3>1
    <3>3. QED
      BY <1>1, <2>1, <3>1, <3>2
  <2>3. CASE i = p
    <3>1. i + 1 \in 1 .. k /\ i + 1 # p /\ (i + 1) - 1 = p /\ r[i] = q[i + 1] /\ (i > 1 => i - 1 < p)
      BY <1>1, <2>3
    <3>2. o.prev[q[i + 1]] = IF p > 1 THEN q[p - 1] ELSE NULL
      BY <1>3, <3>1
    <3>3. QED
      BY <1>1, <2>1, <2>3, <3>1, <3>2
  <2>4. CASE i > p
    <3>1. i + 1 \in 1 .. k /\ i + 1 # p /\ (i + 1) - 1 # p /\ (i + 1) - 1 = i /\ i + 1 > 1
          /\ r[i] = q[i + 1] /\ i > 1 /\ ~(i - 1 < p)
      BY <1>1, <2>4
    <3>2. o.prev[q[i + 1]] = q[i]
      BY <1>2, <1>3, <3>1
    <3>3. QED
      BY <1>1, <2>1, <3>1, <3>2
  <2>5. i < p \/ i = p \/ i > p
    OBVIOUS
  <2>6. QED
    BY <2>2, <2>3, <2>4, <2>5
<1>8. QED
  BY <1>4, <1>5, <1>6, <1>7 DEF Linked, Leads, r

(* Only the pointers of the timers of the row count. *)
LEMMA LinkedElsewhere ==
  ASSUME NEW l, NEW o, NEW k \in Nat, NEW q, Linked(l, k, q), o.head = l.head, o.tail = l.tail,
         \A u \in Elements(k, q) : o.next[u] = l.next[u] /\ o.prev[u] = l.prev[u]
  PROVE  Linked(o, k, q)
<1>1. \A i \in 1 .. k : q[i] \in Elements(k, q)
  BY DEF Elements
<1>2. QED
  BY <1>1 DEF Linked, Leads

(* The fields of the list after Forget, one by one. *)
LEMMA ForgetFields ==
  ASSUME NEW l \in Links, NEW live
  PROVE  /\ Forget(l, live) \in Links
         /\ Forget(l, live).head = l.head /\ Forget(l, live).tail = l.tail
         /\ \A u \in Timers :
               /\ Forget(l, live).next[u] = IF u \in live THEN l.next[u] ELSE NULL
               /\ Forget(l, live).prev[u] = IF u \in live THEN l.prev[u] ELSE NULL
  BY DEF Forget, Links

(* Clearing the pointers of deleted timers leaves the row of the others    *)
(* linked.                                                                 *)
LEMMA ForgetIsLinked ==
  ASSUME NEW l \in Links, NEW k \in Nat, NEW q \in Rows(k), Linked(l, k, q),
         NEW live, Elements(k, q) \subseteq live
  PROVE  Linked(Forget(l, live), k, q)
<1>1. Elements(k, q) \subseteq Timers
  BY DEF Elements, Rows
<1>2. QED
  BY <1>1, ForgetFields, LinkedElsewhere, ZenonT(60)

(* What the pointers of the p-th timer lead to.                            *)
LEMMA Neighbours ==
  ASSUME NEW k \in Nat, NEW q \in Rows(k), NEW p \in 1 .. k, NEW l, Linked(l, k, q)
  PROVE  /\ q[p] \in Timers /\ q[p] \in Elements(k, q)
         /\ l.next[q[p]] = IF p < k THEN q[p + 1] ELSE NULL
         /\ l.prev[q[p]] = IF p > 1 THEN q[p - 1] ELSE NULL
         /\ p < k => p + 1 \in 1 .. k /\ q[p + 1] \in Timers
         /\ p > 1 => p - 1 \in 1 .. k /\ q[p - 1] \in Timers
         /\ q[p] = l.head <=> p = 1
         /\ q[p] = l.tail <=> p = k
<1>1. q \in [1 .. k -> Timers] /\ (\A i, j \in 1 .. k : q[i] = q[j] => i = j)
  BY DEF Rows
<1>2. 1 \in 1 .. k /\ k \in 1 .. k /\ k > 0 /\ k # 0
      /\ (p < k => p + 1 \in 1 .. k) /\ (p > 1 => p - 1 \in 1 .. k)
  OBVIOUS
<1>3. l.head = q[1] /\ l.tail = q[k]
  BY <1>2 DEF Linked, Leads
<1>4. QED
  BY <1>1, <1>2, <1>3 DEF Linked, Leads, Elements

(* The four ways of the code to take the timer q[p] out.                   *)
LEMMA RemovesOnly ==
  ASSUME NEW k \in Nat, NEW q \in Rows(k), NEW p \in 1 .. k, NEW l \in Links, Linked(l, k, q),
         p = 1, p = k
  PROVE  LET o == [l EXCEPT !.head = NULL, !.tail = NULL]
         IN  o \in Links /\ Removed(o, l, k, q, p)
<1> DEFINE o == [l EXCEPT !.head = NULL, !.tail = NULL]
<1>1. o \in Links /\ o.head = NULL
  BY DEF Links
<1>2. \A i \in 1 .. k : i = p
  OBVIOUS
<1>3. QED
  BY <1>1, <1>2 DEF Removed

(* The first of several timers: head moves on. *)
LEMMA RemovesHead ==
  ASSUME NEW k \in Nat, NEW q \in Rows(k), NEW p \in 1 .. k, NEW l \in Links, Linked(l, k, q),
         p = 1, p < k
  PROVE  LET o == [l EXCEPT !.head = q[2], !.prev[q[2]] = NULL]
         IN  o \in Links /\ Removed(o, l, k, q, p)
<1> DEFINE o == [l EXCEPT !.head = q[2], !.prev[q[2]] = NULL]
<1>1. q \in [1 .. k -> Timers] /\ (\A i, j \in 1 .. k : q[i] = q[j] => i = j) /\ 2 \in 1 .. k
      /\ k > 1 /\ p # k /\ ~(p > 1)
  BY DEF Rows
<1>2. /\ o \in Links /\ o.head = q[2] /\ o.tail = l.tail
      /\ \A u \in Timers : /\ o.next[u] = l.next[u]
                           /\ o.prev[u] = IF u = q[2] THEN NULL ELSE l.prev[u]
  BY <1>1 DEF Links
<1>3. \A i \in 1 .. k : q[i] \in Timers /\ i + 1 # p /\ (i - 1 = p <=> i = 2) /\ (i = 2 <=> q[i] = q[2])
  BY <1>1
<1>4. QED
  BY <1>1, <1>2, <1>3 DEF Removed

(* The last of several timers: tail moves back. *)
LEMMA RemovesTail ==
  ASSUME NEW k \in Nat, NEW q \in Rows(k), NEW p \in 1 .. k, NEW l \in Links, Linked(l, k, q),
         p > 1, p = k
  PROVE  LET o == [l EXCEPT !.tail = q[p - 1], !.next[q[p - 1]] = NULL]
         IN  o \in Links /\ Removed(o, l, k, q, p)
<1> DEFINE o == [l EXCEPT !.tail = q[p - 1], !.next[q[p - 1]] = NULL]
<1>1. q \in [1 .. k -> Timers] /\ (\A i, j \in 1 .. k : q[i] = q[j] => i = j) /\ p - 1 \in 1 .. k
      /\ ~(p < k)
  BY DEF Rows
<1>2. /\ o \in Links /\ o.head = l.head /\ o.tail = q[p - 1]
      /\ \A u \in Timers : /\ o.next[u] = IF u = q[p - 1] THEN NULL ELSE l.next[u]
                           /\ o.prev[u] = l.prev[u]
  BY <1>1 DEF Links
<1>3. \A i \in 1 .. k : q[i] \in Timers /\ i - 1 # p /\ (i + 1 = p <=> i = p - 1) /\ (i = p - 1 <=> q[i] = q[p - 1])
  BY <1>1
<1>4. QED
  BY <1>1, <1>2, <1>3 DEF Removed

(* A timer between two others, which get linked to each other. *)
LEMMA RemovesMiddle ==
  ASSUME NEW k \in Nat, NEW q \in Rows(k), NEW p \in 1 .. k, NEW l \in Links, Linked(l, k, q),
         p > 1, p < k
  PROVE  LET o == [l EXCEPT !.next[q[p - 1]] = q[p + 1], !.prev[q[p + 1]] = q[p - 1]]
         IN  o \in Links /\ Removed(o, l, k, q, p)
<1> DEFINE o == [l EXCEPT !.next[q[p - 1]] = q[p + 1], !.prev[q[p + 1]] = q[p - 1]]
<1>1. q \in [1 .. k -> Timers] /\ (\A i, j \in 1 .. k : q[i] = q[j] => i = j) /\ p - 1 \in 1 .. k
      /\ p + 1 \in 1 .. k /\ p # k /\ k > 1
  BY DEF Rows
<1>2. /\ o \in Links /\ o.head = l.head /\ o.tail = l.tail
      /\ \A u \in Timers : /\ o.next[u] = IF u = q[p - 1] THEN q[p + 1] ELSE l.next[u]
                           /\ o.prev[u] = IF u = q[p + 1] THEN q[p - 1] ELSE l.prev[u]
  BY <1>1 DEF Links
<1>3. \A i \in 1 .. k : /\ q[i] \in Timers
                        /\ i + 1 = p <=> i = p - 1
                        /\ i = p - 1 <=> q[i] = q[p - 1]
                        /\ i - 1 = p <=> i = p + 1
                        /\ i = p + 1 <=> q[i] = q[p + 1]
  BY <1>1
<1>4. QED
  BY <1>1, <1>2, <1>3, ZenonT(60) DEF Removed

(* The timers of a row in the order in which they expire.                  *)
Ascending(k, q, left) == \A i, j \in 1 .. k : i <= j => left[q[i]] <= left[q[j]]

(* A row without one timer is still in order. *)
LEMMA WithoutAscends ==
  ASSUME NEW k \in Nat, NEW q \in Rows(k), NEW p \in 1 .. k, NEW left, Ascending(k, q, left),
         NEW after, \A i \in 1 .. k : i # p => after[q[i]] = left[q[i]]
  PROVE  Ascending(k - 1, Without(k, q, p), after)
<1> DEFINE r == Without(k, q, p)
<1>1. \A i \in 1 .. k - 1 : /\ i < p  => i \in 1 .. k /\ r[i] = q[i]
                            /\ ~(i < p) => i + 1 \in 1 .. k /\ i + 1 # p /\ r[i] = q[i + 1]
  BY WithoutIs
<1> HIDE DEF r
<1>2. ASSUME NEW i \in 1 .. k - 1, NEW j \in 1 .. k - 1, i <= j
      PROVE  after[r[i]] <= after[r[j]]
  <2>1. PICK a \in 1 .. k : a # p /\ r[i] = q[a] /\ (a = i \/ a = i + 1) /\ (j < p => a = i)
    <3>1. CASE i < p
      <4>1. i # p
        BY <3>1
      <4>2. QED
        BY <1>1, <3>1, <4>1
    <3>2. CASE ~(i < p)
      <4>1. ~(j < p)
        BY <1>2, <3>2
      <4>2. QED
        BY <1>1, <3>2, <4>1
    <3>3. QED
      BY <3>1, <3>2
  <2>2. PICK b \in 1 .. k : b # p /\ r[j] = q[b] /\ (b = j \/ b = j + 1) /\ (~(j < p) => b = j + 1)
    <3>1. CASE j < p
      <4>1. j # p
        BY <3>1
      <4>2. QED
        BY <1>1, <3>1, <4>1
    <3>2. CASE ~(j < p)
      BY <1>1, <3>2
    <3>3. QED
      BY <3>1, <3>2
  <2>3. a <= b
    BY <1>2, <2>1, <2>2
  <2>4. left[q[a]] <= left[q[b]] /\ after[q[a]] = left[q[a]] /\ after[q[b]] = left[q[b]]
    BY <2>1, <2>2, <2>3 DEF Ascending
  <2>5. QED
    BY <2>1, <2>2, <2>4
<1>3. QED
  BY <1>2 DEF Ascending, r

(* A row with a timer behind it that expires last is still in order. *)
LEMMA WithAscends ==
  ASSUME NEW k \in Nat, NEW q \in Rows(k), NEW t \in Timers, NEW left, Ascending(k, q, left),
         \A i \in 1 .. k : left[q[i]] <= left[t], left[t] <= left[t]
  PROVE  Ascending(k + 1, With(k, q, t), left)
<1> DEFINE r == With(k, q, t)
<1>1. \A i \in 1 .. k + 1 : \/ i \in 1 .. k /\ r[i] = q[i]
                            \/ i = k + 1 /\ r[i] = t
  BY DEF With
<1>2. \A i, j \in 1 .. k + 1 : i <= j => (i = k + 1 => j = k + 1)
  OBVIOUS
<1> HIDE DEF r
<1>3. QED
  BY <1>1, <1>2 DEF Ascending, r

(* tick() takes the first m timers out. *)
Dropped(k, q, m) == [i \in 1 .. k - m |-> q[i + m]]

(* The row without its first m timers is a row. *)
LEMMA DroppedIsARow ==
  ASSUME NEW k \in Nat, NEW q \in Rows(k), NEW m \in 0 .. k
  PROVE  /\ k - m \in Nat /\ Dropped(k, q, m) \in Rows(k - m)
         /\ Elements(k - m, Dropped(k, q, m)) = Elements(k, q) \ {q[i] : i \in 1 .. m}
<1> DEFINE r == Dropped(k, q, m)
<1>1. q \in [1 .. k -> Timers] /\ (\A i, j \in 1 .. k : q[i] = q[j] => i = j) /\ k - m \in Nat /\ m \in Nat
      /\ m <= k
  BY DEF Rows
<1>2. \A i \in 1 .. k - m : i + m \in 1 .. k /\ ~(i + m \in 1 .. m) /\ r[i] = q[i + m]
  BY DEF Dropped
<1>3. r \in [1 .. k - m -> Timers]
  BY <1>1, <1>2 DEF Dropped
<1> HIDE DEF r
<1>4. ASSUME NEW i \in 1 .. k - m, NEW j \in 1 .. k - m, r[i] = r[j] PROVE i = j
  <2>1. i + m = j + m
    BY <1>1, <1>2, <1>4
  <2>2. QED
    BY <1>1, <2>1
<1>5. Elements(k - m, r) = Elements(k, q) \ {q[i] : i \in 1 .. m}
  <2>0. \A i \in 1 .. m : i \in 1 .. k
    BY <1>1
  <2>1. ASSUME NEW i \in 1 .. k - m
        PROVE  r[i] \in Elements(k, q) \ {q[j] : j \in 1 .. m}
    BY <1>1, <1>2, <2>0 DEF Elements
  <2>2. ASSUME NEW i \in 1 .. k, i \notin 1 .. m PROVE \E j \in 1 .. k - m : r[j] = q[i]
    <3>1. i - m \in 1 .. k - m /\ (i - m) + m = i
      BY <1>1, <2>2
    <3>2. QED
      BY <1>2, <3>1
  <2>3. QED
    BY <2>1, <2>2 DEF Elements
<1>6. QED
  BY <1>1, <1>3, <1>4, <1>5 DEF Rows, r

(* The fields of the list after one round of the loop of tick(). *)
LEMMA HeadMoves ==
  ASSUME NEW l \in Links, NEW h \in Timers
  PROVE  LET o == [l EXCEPT !.head = h, !.prev[h] = NULL]
         IN
         /\ o \in Links /\ o.head = h /\ o.tail = l.tail
         /\ \A u \in Timers : o.next[u] = l.next[u] /\ o.prev[u] = IF u = h THEN NULL ELSE l.prev[u]
  BY DEF Links

(* After m rounds of that loop the list links the row without its first m  *)
(* timers.                                                                 *)
LEMMA DroppedIsLinked ==
  ASSUME NEW k \in Nat, NEW q \in Rows(k), NEW m \in 1 .. k, NEW l \in Links, Linked(l, k, q),
         NEW after, after = (IF m < k THEN q[m + 1] ELSE NULL),
         NEW o, o = SetPrev([l EXCEPT !.head = after], after, NULL)
  PROVE  o \in Links /\ Linked(o, k - m, Dropped(k, q, m))
<1> DEFINE r == Dropped(k, q, m)
<1>1. q \in [1 .. k -> Timers] /\ (\A i, j \in 1 .. k : q[i] = q[j] => i = j) /\ k - m \in Nat
      /\ NULL \notin Timers
  BY Constants DEF Rows
<1>2. \A i \in 1 .. k - m : i + m \in 1 .. k /\ i + m > 1 /\ r[i] = q[i + m]
                            /\ (i = 1 <=> i + m = m + 1) /\ (i < k - m <=> i + m < k)
                            /\ (i < k - m => i + 1 \in 1 .. k - m /\ (i + 1) + m = (i + m) + 1)
                            /\ (i > 1 => i - 1 \in 1 .. k - m /\ (i - 1) + m = (i + m) - 1)
  BY DEF Dropped
<1> HIDE DEF r
<1>3. CASE m = k
  <2>1. o = [l EXCEPT !.head = NULL]
    BY <1>3 DEF SetPrev
  <2>2. o \in Links /\ o.head = NULL
    BY <2>1 DEF Links
  <2>3. k - m = 0
    BY <1>3
  <2>4. QED
    BY <2>2, <2>3 DEF Linked, Leads
<1>4. CASE m # k
  <2>1. m < k /\ m + 1 \in 1 .. k /\ k - m # 0 /\ 1 \in 1 .. k - m /\ k - m \in 1 .. k - m /\ (k - m) + m = k
        /\ 1 + m = m + 1 /\ k > 0
    BY <1>4
  <2>2. after = q[m + 1] /\ after \in Timers /\ after # NULL
    BY <1>1, <2>1
  <2>3. o = [l EXCEPT !.head = after, !.prev[after] = NULL]
    BY <2>2 DEF SetPrev
  <2>4. /\ o \in Links /\ o.head = after /\ o.tail = l.tail
        /\ \A u \in Timers : o.next[u] = l.next[u] /\ o.prev[u] = IF u = after THEN NULL ELSE l.prev[u]
    <3>1. after \in Timers
      BY <2>2
    <3> DEFINE b == [l EXCEPT !.head = after, !.prev[after] = NULL]
    <3>2. /\ b \in Links /\ b.head = after /\ b.tail = l.tail
          /\ \A u \in Timers : b.next[u] = l.next[u] /\ b.prev[u] = IF u = after THEN NULL ELSE l.prev[u]
      BY <3>1, HeadMoves, Zenon
    <3>3. o = b
      BY <2>3
    <3> HIDE DEF b
    <3>4. QED
      BY <3>2, <3>3
  <2>5. o.head = r[1] /\ o.tail = r[k - m]
    <3>1. l.tail = q[k]
      BY <2>1 DEF Linked, Leads
    <3>2. r[1] = q[m + 1] /\ r[k - m] = q[k]
      BY <1>2, <2>1
    <3>3. QED
      BY <2>2, <2>4, <3>1, <3>2
  <2>6. ASSUME NEW i \in 1 .. k - m
        PROVE  /\ o.next[r[i]] = IF i < k - m THEN r[i + 1] ELSE NULL
               /\ o.prev[r[i]] = IF i > 1 THEN r[i - 1] ELSE NULL
    <3> DEFINE j == i + m
    <3>1. j \in 1 .. k /\ r[i] = q[j] /\ q[j] \in Timers /\ j > 1
          /\ (i = 1 <=> j = m + 1) /\ (j = m + 1 <=> q[j] = after)
          /\ (i < k - m <=> j < k) /\ (i < k - m => r[i + 1] = q[j + 1]) /\ (i > 1 => r[i - 1] = q[j - 1])
      BY <1>1, <1>2, <2>1, <2>2, ZenonT(60)
    <3>2. l.next[q[j]] = (IF j < k THEN q[j + 1] ELSE NULL) /\ l.prev[q[j]] = q[j - 1]
      BY <3>1 DEF Linked, Leads
    <3>3. i > 1 <=> i # 1
      OBVIOUS
    <3> HIDE DEF j
    <3>4. QED
      BY <2>4, <3>1, <3>2, <3>3
  <2>7. QED
    BY <2>1, <2>4, <2>5, <2>6 DEF Linked, Leads, r
<1>5. QED
  BY <1>3, <1>4

-------------------------------------------------------------------------------
(* The invariant                                                           *)

(* The live timers are in one row, in the order in which they expire.      *)
InRow(left) ==
    \E k \in Nat : \E q \in Rows(k) :
        allocated = Elements(k, q) /\ Linked(list, k, q) /\ Ascending(k, q, left)

Healthy ==
    /\ fault = "none"
    /\ list \in Links
    /\ \A t \in Timers \ allocated : list.next[t] = NULL /\ list.prev[t] = NULL
    /\ InRow(remaining)

Inv ==
    /\ remaining \in [Timers -> 0 .. Lifetime]
    /\ allocated \subseteq Timers
    /\ everLost \in BOOLEAN
    /\ fault \in {"none", "null pointer", "deleted timer"}
    /\ ~everLost => Healthy

(* A step that leaves a row of live timers behind. *)
LEMMA FollowLeads ==
  ASSUME NEW k \in Nat, NEW q \in Rows(k), NEW l \in Links, Linked(l, k, q),
         Ascending(k, q, remaining'),
         NEW pointers, pointers \subseteq Elements(k, q) \cup allocated,
         NEW live, live = Elements(k, q), Follow(pointers, l, live),
         fault = "none", everLost \in BOOLEAN
  PROVE  Healthy' /\ everLost' = everLost /\ allocated' = live
<1>1. /\ list' = Forget(l, live) /\ allocated' = live
      /\ everLost' = (everLost \/ ~(live \subseteq Listed(l)))
      /\ fault' = "none"
  BY DEF Follow
<1>2. Listed(l) = live
  BY ListedIs DEF Linked
<1>3. list' \in Links /\ Linked(list', k, q)
  BY <1>1, ForgetFields, ForgetIsLinked
<1>4. \A t \in Timers \ live : list'.next[t] = NULL /\ list'.prev[t] = NULL
  BY <1>1, ForgetFields
<1>5. InRow(remaining)'
  BY <1>1, <1>3 DEF InRow
<1>6. \A t \in Timers \ allocated' : list'.next[t] = NULL /\ list'.prev[t] = NULL
  BY <1>1, <1>4
<1>7. everLost' = everLost
  BY <1>1, <1>2
<1>8. Healthy'
  BY <1>1, <1>3, <1>5, <1>6, Zenon DEF Healthy, InRow
<1>9. QED
  BY <1>1, <1>7, <1>8

(* What a pointer operation can change. *)
LEMMA FollowTypes ==
  ASSUME NEW pointers, NEW l, NEW live, Follow(pointers, l, live), Inv, live \subseteq Timers
  PROVE  allocated' \subseteq Timers /\ everLost' \in BOOLEAN
         /\ fault' \in {"none", "null pointer", "deleted timer"}
         /\ (everLost => everLost')
  BY DEF Follow, Inv

(* A timer that is added or adjusted expires after all others or with them. *)
LEMMA RenewedIs ==
  ASSUME Inv, NEW t \in Timers
  PROVE  /\ Renewed(t) \in [Timers -> 0 .. Lifetime]
         /\ Renewed(t)[t] = Lifetime
         /\ \A u \in Timers : u # t => Renewed(t)[u] = remaining[u]
         /\ \A u \in Timers : Renewed(t)[u] <= Renewed(t)[t]
<1>1. Lifetime \in Nat \ {0} /\ remaining \in [Timers -> 0 .. Lifetime]
  BY Constants DEF Inv
<1>2. QED
  BY <1>1 DEF Renewed

(* add_timer() of a new timer. *)
LEMMA AddKeeps ==
  ASSUME Inv, NEW t \in Timers, AddTimer(t), ~everLost
  PROVE  Healthy' /\ everLost' = everLost /\ allocated' = allocated \cup {t}
<1> DEFINE left == Renewed(t)
           live == allocated \cup {t}
<1>1. /\ fault = "none" /\ t \notin allocated /\ remaining' = left
      /\ list \in Links /\ everLost \in BOOLEAN
      /\ list.next[t] = NULL /\ list.prev[t] = NULL
  BY DEF AddTimer, Inv, Healthy
<1>2. PICK k \in Nat : \E q \in Rows(k) :
         allocated = Elements(k, q) /\ Linked(list, k, q) /\ Ascending(k, q, remaining)
  BY DEF Inv, Healthy, InRow
<1>3. PICK q \in Rows(k) :
         allocated = Elements(k, q) /\ Linked(list, k, q) /\ Ascending(k, q, remaining)
  BY <1>2
<1> DEFINE r == With(k, q, t)
<1>4. r \in Rows(k + 1) /\ Elements(k + 1, r) = live /\ k + 1 \in Nat
  BY <1>1, <1>3, WithIsARow
<1>5. \A i \in 1 .. k : q[i] \in allocated /\ q[i] \in Timers
  BY <1>3 DEF Elements, Rows
<1>6. Ascending(k + 1, r, left)
  <2>1. \A u \in Timers : u # t => left[u] = remaining[u]
    BY RenewedIs
  <2>2. \A u \in Timers : left[u] <= left[t]
    BY RenewedIs
  <2>3. \A i \in 1 .. k : left[q[i]] = remaining[q[i]]
    BY <1>1, <1>5, <2>1
  <2>4. Ascending(k, q, left)
    BY <1>3, <2>3 DEF Ascending
  <2> HIDE DEF left
  <2>5. QED
    BY <1>5, <2>2, <2>4, WithAscends
<1>7. CASE k = 0
  <2> DEFINE o == [list EXCEPT !.head = t, !.tail = t]
  <2>1. list.head = NULL
    BY <1>3, <1>7 DEF Linked, Leads
  <2>2. Follow({}, o, live)
    BY <1>1, <2>1 DEF AddTimer
  <2>3. o \in Links /\ o.head = t /\ o.tail = t /\ o.next[t] = NULL /\ o.prev[t] = NULL
    BY <1>1 DEF Links
  <2>4. r[1] = t /\ \A i \in 1 .. 1 : i = 1
    BY <1>7 DEF With
  <2> HIDE DEF o, r, left, live
  <2>5. Linked(o, 1, r)
    BY <2>3, <2>4 DEF Linked, Leads
  <2>6. k + 1 = 1
    BY <1>7
  <2>7. Healthy' /\ everLost' = everLost /\ allocated' = live
    BY <1>1, <1>4, <1>6, <2>2, <2>3, <2>5, <2>6, FollowLeads
  <2>8. QED
    BY <2>7 DEF live
<1>8. CASE k # 0
  <2> DEFINE o == InsertAfter(list, left, t, list.head)
             pointers == {list.head} \cup WalkedOver(list, left, t)
  <2>1. k \in Nat \ {0} /\ 1 \in 1 .. k
    BY <1>8
  <2>2. list.head = q[1] /\ list.head # NULL /\ list.head \in allocated
    <3>1. list.head = q[1]
      BY <1>3, <1>8 DEF Linked, Leads
    <3>2. QED
      BY <1>5, <2>1, <3>1, Constants
  <2>3. Follow(pointers, o, live)
    BY <1>1, <2>2 DEF AddTimer
  <2>4. left \in [Timers -> Nat] /\ \A i \in 1 .. k : left[q[i]] <= left[t]
    <3>1. left \in [Timers -> 0 .. Lifetime] /\ \A u \in Timers : left[u] <= left[t]
      BY RenewedIs
    <3> HIDE DEF left
    <3>2. QED
      BY <1>5, <3>1, Constants
  <2> HIDE DEF left
  <2>5. o = AtEnd(list, q[k], t) /\ WalkedOver(list, left, t) \subseteq Elements(k, q)
    BY <1>1, <1>3, <2>1, <2>2, <2>4, InsertIsAtEnd DEF Linked
  <2> HIDE DEF o
  <2>6. o \in Links /\ Linked(o, k + 1, r)
    BY <1>1, <1>3, <2>1, <2>5, AtEndLinks DEF Linked
  <2>7. pointers \subseteq Elements(k + 1, r) \cup allocated
    BY <1>3, <2>2, <2>5
  <2> HIDE DEF r, live, pointers
  <2>8. Healthy' /\ everLost' = everLost /\ allocated' = live
    BY <1>1, <1>4, <1>6, <2>3, <2>6, <2>7, FollowLeads
  <2>9. QED
    BY <2>8 DEF live
<1>9. QED
  BY <1>7, <1>8

(* del_timer() of a live timer. *)
LEMMA DelKeeps ==
  ASSUME Inv, NEW t \in Timers, DelTimer(t), ~everLost
  PROVE  Healthy' /\ everLost' = everLost /\ allocated' = allocated \ {t}
<1> DEFINE earlier == list.prev[t]
           later   == list.next[t]
           rest    == allocated \ {t}
<1>1. /\ fault = "none" /\ t \in allocated /\ remaining' = [remaining EXCEPT ![t] = 0]
      /\ list \in Links /\ everLost \in BOOLEAN /\ remaining \in [Timers -> 0 .. Lifetime]
  BY DEF DelTimer, Inv, Healthy
<1>2. PICK k \in Nat : \E q \in Rows(k) :
         allocated = Elements(k, q) /\ Linked(list, k, q) /\ Ascending(k, q, remaining)
  BY DEF Inv, Healthy, InRow
<1>3. PICK q \in Rows(k) :
         allocated = Elements(k, q) /\ Linked(list, k, q) /\ Ascending(k, q, remaining)
  BY <1>2
<1>4. PICK p \in 1 .. k : t = q[p]
  BY <1>1, <1>3 DEF Elements
<1> DEFINE r == Without(k, q, p)
<1>5. /\ \A i, j \in 1 .. k : q[i] = q[j] => i = j
      /\ \A i \in 1 .. k : q[i] \in allocated /\ q[i] \in Timers
  BY <1>3 DEF Elements, Rows
<1>6. k - 1 \in Nat /\ r \in Rows(k - 1) /\ Elements(k - 1, r) = rest
  BY <1>3, <1>4, WithoutIsARow
<1>7. Ascending(k - 1, r, remaining')
  <2>1. \A i \in 1 .. k : i # p => remaining'[q[i]] = remaining[q[i]]
    BY <1>1, <1>4, <1>5
  <2>2. QED
    BY <1>3, <2>1, WithoutAscends
<1>8. /\ later = IF p < k THEN q[p + 1] ELSE NULL
      /\ earlier = IF p > 1 THEN q[p - 1] ELSE NULL
      /\ p < k => p + 1 \in 1 .. k /\ q[p + 1] \in Timers
      /\ p > 1 => p - 1 \in 1 .. k /\ q[p - 1] \in Timers
      /\ t = list.head <=> p = 1
      /\ t = list.tail <=> p = k
  BY <1>3, <1>4, Neighbours
<1>9. ASSUME NEW pointers, NEW l, l \in Links, Removed(l, list, k, q, p), Follow(pointers, l, rest),
             pointers \subseteq allocated
      PROVE  Healthy' /\ everLost' = everLost /\ allocated' = rest
  <2>1. Linked(l, k - 1, r)
    BY <1>3, <1>9, RemovedIsLinked
  <2>2. pointers \subseteq Elements(k - 1, r) \cup allocated
    BY <1>9
  <2> HIDE DEF r, rest
  <2>3. QED
    BY <1>1, <1>6, <1>7, <1>9, <2>1, <2>2, FollowLeads
<1>10. (p > 1 <=> p # 1) /\ (p < k <=> p # k)
  OBVIOUS
<1>11. CASE p = 1 /\ p = k
  <2>1. Follow({}, [list EXCEPT !.head = NULL, !.tail = NULL], rest)
    BY <1>8, <1>11 DEF DelTimer
  <2>2. LET o == [list EXCEPT !.head = NULL, !.tail = NULL]
        IN  o \in Links /\ Removed(o, list, k, q, p)
    BY <1>1, <1>3, <1>11, RemovesOnly
  <2> HIDE DEF rest
  <2>3. QED
    BY <1>9, <2>1, <2>2 DEF rest
<1>12. CASE p = 1 /\ p # k
  <2>1. Follow({later}, [list EXCEPT !.head = later, !.prev[later] = NULL], rest)
    BY <1>8, <1>12 DEF DelTimer
  <2>2. later = q[2] /\ later \in allocated
    BY <1>5, <1>8, <1>10, <1>12
  <2>3. LET o == [list EXCEPT !.head = q[2], !.prev[q[2]] = NULL]
        IN  o \in Links /\ Removed(o, list, k, q, p)
    BY <1>1, <1>3, <1>10, <1>12, RemovesHead
  <2> HIDE DEF rest, later
  <2>4. QED
    BY <1>9, <2>1, <2>2, <2>3 DEF rest
<1>13. CASE p # 1 /\ p = k
  <2>1. Follow({earlier}, [list EXCEPT !.tail = earlier, !.next[earlier] = NULL], rest)
    BY <1>8, <1>13 DEF DelTimer
  <2>2. earlier = q[p - 1] /\ earlier \in allocated
    BY <1>5, <1>8, <1>10, <1>13
  <2>3. LET o == [list EXCEPT !.tail = q[p - 1], !.next[q[p - 1]] = NULL]
        IN  o \in Links /\ Removed(o, list, k, q, p)
    BY <1>1, <1>3, <1>10, <1>13, RemovesTail
  <2> HIDE DEF rest, earlier
  <2>4. QED
    BY <1>9, <2>1, <2>2, <2>3 DEF rest
<1>14. CASE p # 1 /\ p # k
  <2>1. Follow({earlier, later}, [list EXCEPT !.next[earlier] = later, !.prev[later] = earlier], rest)
    BY <1>8, <1>14 DEF DelTimer
  <2>2. earlier = q[p - 1] /\ earlier \in allocated /\ later = q[p + 1] /\ later \in allocated
    BY <1>5, <1>8, <1>10, <1>14
  <2>3. LET o == [list EXCEPT !.next[q[p - 1]] = q[p + 1], !.prev[q[p + 1]] = q[p - 1]]
        IN  o \in Links /\ Removed(o, list, k, q, p)
    BY <1>1, <1>3, <1>10, <1>14, RemovesMiddle
  <2> HIDE DEF rest, earlier, later
  <2>4. QED
    BY <1>9, <2>1, <2>2, <2>3 DEF rest
<1>15. QED
  BY <1>11, <1>12, <1>13, <1>14

(* adjust_timer() of the head: afterwards the list has two timers.         *)
LEMMA HeadAdjusted ==
  ASSUME NEW l \in Links, NEW h \in Timers, NEW t \in Timers, h # t,
         NEW left \in [Timers -> Nat], left[h] <= left[t]
  PROVE  LET o == InsertAfter([l EXCEPT !.head = h, !.prev[h] = NULL, !.next[h] = NULL], left, t, h)
             r == With(1, [i \in 1 .. 1 |-> h], t)
         IN  /\ o \in Links /\ Linked(o, 2, r)
             /\ r \in Rows(2) /\ Elements(2, r) = {h, t} /\ r[1] = h /\ r[2] = t
<1> DEFINE b == [l EXCEPT !.head = h, !.prev[h] = NULL, !.next[h] = NULL]
           one == [i \in 1 .. 1 |-> h]
           o == InsertAfter(b, left, t, h)
           r == With(1, one, t)
<1>1. /\ b \in Links /\ b.head = h /\ b.next[h] = NULL /\ b.prev[h] = NULL
  BY DEF Links
<1>2. one \in [1 .. 1 -> Timers] /\ one[1] = h /\ (\A i \in 1 .. 1 : i = 1) /\ 1 \in 1 .. 1
  OBVIOUS
<1>3. r[1] = h /\ r[2] = t
  BY DEF With
<1> HIDE DEF b, one
<1>4. one \in Rows(1) /\ Elements(1, one) = {h}
  BY <1>2 DEF Rows, Elements
<1>5. Leads(b, 1, one)
  BY <1>1, <1>2 DEF Leads
<1>6. t \in Timers \ Elements(1, one) /\ \A i \in 1 .. 1 : left[one[i]] <= left[t]
  BY <1>2, <1>4
<1>7. o = AtEnd(b, one[1], t)
  <2>1. 1 \in Nat \ {0} /\ (1 = 1 => h = one[1])
    BY <1>2
  <2>2. QED
    BY <1>1, <1>4, <1>5, <1>6, <2>1, InsertIsAtEnd
<1> HIDE DEF o
<1>8. o \in Links /\ Linked(o, 1 + 1, r)
  BY <1>1, <1>4, <1>5, <1>6, <1>7, AtEndLinks
<1>9. r \in Rows(1 + 1) /\ Elements(1 + 1, r) = {h} \cup {t}
  BY <1>4, <1>6, WithIsARow
<1> HIDE DEF r
<1>10. 1 + 1 = 2 /\ {h} \cup {t} = {h, t}
  OBVIOUS
<1>11. /\ o \in Links /\ Linked(o, 2, r)
       /\ r \in Rows(2) /\ Elements(2, r) = {h, t} /\ r[1] = h /\ r[2] = t
  BY <1>3, <1>8, <1>9, <1>10
<1>12. QED
  BY <1>11 DEF o, r, b, one

(* adjust_timer() of a live timer: a row again, or timers were lost.       *)
LEMMA AdjustKeeps ==
  ASSUME Inv, NEW t \in Timers, AdjustTimer(t), ~everLost
  PROVE  /\ allocated' = allocated
         /\ \/ Healthy' /\ everLost' = everLost
            \/ everLost' = TRUE /\ Cardinality(allocated) >= 3
<1> DEFINE left    == Renewed(t)
           earlier == list.prev[t]
           later   == list.next[t]
<1>1. /\ fault = "none" /\ t \in allocated /\ remaining' = left
      /\ list \in Links /\ everLost \in BOOLEAN /\ remaining \in [Timers -> 0 .. Lifetime]
      /\ NULL \notin Timers
  BY Constants DEF AdjustTimer, Inv, Healthy
<1>2. PICK k \in Nat : \E q \in Rows(k) :
         allocated = Elements(k, q) /\ Linked(list, k, q) /\ Ascending(k, q, remaining)
  BY DEF Inv, Healthy, InRow
<1>3. PICK q \in Rows(k) :
         allocated = Elements(k, q) /\ Linked(list, k, q) /\ Ascending(k, q, remaining)
  BY <1>2
<1>4. PICK p \in 1 .. k : t = q[p]
  BY <1>1, <1>3 DEF Elements
<1>5. /\ \A i, j \in 1 .. k : q[i] = q[j] => i = j
      /\ \A i \in 1 .. k : q[i] \in allocated /\ q[i] \in Timers
  BY <1>3 DEF Elements, Rows
<1>6. /\ left \in [Timers -> Nat]
      /\ \A u \in Timers : u # t => left[u] = remaining[u]
      /\ \A u \in Timers : left[u] <= left[t] /\ ~(left[t] < left[u])
  <2>1. /\ left \in [Timers -> 0 .. Lifetime]
        /\ \A u \in Timers : u # t => left[u] = remaining[u]
        /\ \A u \in Timers : left[u] <= left[t]
    BY RenewedIs
  <2> HIDE DEF left
  <2>2. left \in [Timers -> Nat]
    BY <2>1, Constants
  <2>3. QED
    BY <2>1, <2>2
<1>7. /\ later = IF p < k THEN q[p + 1] ELSE NULL
      /\ earlier = IF p > 1 THEN q[p - 1] ELSE NULL
      /\ p < k => p + 1 \in 1 .. k /\ q[p + 1] \in Timers
      /\ p > 1 => p - 1 \in 1 .. k /\ q[p - 1] \in Timers
      /\ t = list.head <=> p = 1
  <2>1. Linked(list, k, q)
    BY <1>3
  <2>2. /\ list.next[q[p]] = IF p < k THEN q[p + 1] ELSE NULL
        /\ list.prev[q[p]] = IF p > 1 THEN q[p - 1] ELSE NULL
        /\ p < k => p + 1 \in 1 .. k /\ q[p + 1] \in Timers
        /\ p > 1 => p - 1 \in 1 .. k /\ q[p - 1] \in Timers
        /\ q[p] = list.head <=> p = 1
    BY <2>1, Neighbours
  <2>3. later = list.next[q[p]] /\ earlier = list.prev[q[p]] /\ t = q[p]
    BY <1>4
  <2>4. QED
    BY <2>2, <2>3, Zenon
<1>8. (p > 1 <=> p # 1) /\ (p < k <=> p # k)
  OBVIOUS
<1>9. CASE p = k
  <2>1. UNCHANGED <<list, allocated, fault, everLost>>
    BY <1>7, <1>8, <1>9 DEF AdjustTimer
  <2>2. Ascending(k, q, left)
    <3>1. \A i \in 1 .. k : i # k => left[q[i]] = remaining[q[i]]
      BY <1>4, <1>5, <1>6, <1>9
    <3>2. \A i \in 1 .. k : left[q[i]] <= left[q[k]]
      BY <1>4, <1>5, <1>6, <1>9
    <3>3. \A i, j \in 1 .. k : i <= j => (j = k \/ (i # k /\ j # k))
      OBVIOUS
    <3> HIDE DEF left
    <3>4. QED
      BY <1>3, <3>1, <3>2, <3>3 DEF Ascending
  <2> HIDE DEF left
  <2>3. InRow(remaining)'
    BY <1>1, <1>3, <2>1, <2>2 DEF InRow
  <2>4. Healthy'
    <3>1. Healthy
      BY DEF Inv
    <3>2. \A u \in Timers \ allocated' : list'.next[u] = NULL /\ list'.prev[u] = NULL
      BY <2>1, <3>1 DEF Healthy
    <3>3. fault' = "none" /\ list' \in Links
      BY <1>1, <2>1
    <3>4. QED
      BY <2>3, <3>2, <3>3, Zenon DEF Healthy, InRow
  <2>5. QED
    BY <2>1, <2>4
<1>10. CASE p # k
  <2>1. /\ later = q[p + 1] /\ later \in Timers /\ later # NULL /\ later \in allocated
        /\ left[t] >= left[later] /\ ~(left[t] < left[later]) /\ left[later] <= left[t]
    <3>1. later = q[p + 1] /\ later \in Timers /\ later # NULL /\ later \in allocated
      BY <1>1, <1>5, <1>7, <1>8, <1>10
    <3>2. left[later] \in Nat /\ left[t] \in Nat /\ left[later] <= left[t] /\ ~(left[t] < left[later])
      BY <1>6, <3>1
    <3> HIDE DEF left, later
    <3>3. QED
      BY <3>1, <3>2
  <2>2. CASE p = 1
    <3> DEFINE o == InsertAfter([list EXCEPT !.head = later, !.prev[later] = NULL, !.next[later] = NULL],
                                left, t, later)
               r == With(1, [i \in 1 .. 1 |-> later], t)
    <3>1. Follow({later}, o, allocated)
      BY <1>7, <2>1, <2>2 DEF AdjustTimer
    <3>2. later # t /\ later = q[2] /\ 2 \in 1 .. k /\ 1 \in 1 .. k /\ t = q[1]
      BY <1>4, <1>5, <1>7, <1>8, <1>10, <2>1, <2>2
    <3> HIDE DEF later, left
    <3>3. /\ o \in Links /\ Linked(o, 2, r)
          /\ r \in Rows(2) /\ Elements(2, r) = {later, t} /\ r[1] = later /\ r[2] = t
      BY <1>1, <1>6, <2>1, <3>2, HeadAdjusted, ZenonT(60)
    <3> HIDE DEF o, r
    <3>4. CASE k = 2
      <4>1. allocated = {later, t}
        <5>1. \A i \in 1 .. k : i = 1 \/ i = 2
          BY <3>4
        <5>2. QED
          BY <1>3, <3>2, <5>1 DEF Elements
      <4>2. Ascending(2, r, left)
        <5>1. \A i, j \in 1 .. 2 : i <= j => (i = 1 /\ j = 1) \/ (i = 1 /\ j = 2) \/ (i = 2 /\ j = 2)
          OBVIOUS
        <5>2. left[later] \in Nat /\ left[t] \in Nat
          BY <1>6, <2>1
        <5>3. left[later] <= left[later] /\ left[t] <= left[t]
          BY <5>2
        <5>4. QED
          BY <2>1, <3>3, <5>1, <5>3 DEF Ascending
      <4>3. Healthy' /\ everLost' = everLost /\ allocated' = allocated
        BY <1>1, <2>1, <3>1, <3>3, <4>1, <4>2, FollowLeads
      <4>4. QED
        BY <4>3
    <3>5. CASE k # 2
      <4>1. 3 \in 1 .. k /\ k >= 3
        BY <3>2, <3>5
      <4>2. /\ allocated' = allocated
            /\ everLost' = (everLost \/ ~(allocated \subseteq Listed(o)))
        BY <2>1, <3>1 DEF Follow
      <4>3. Listed(o) = {later, t}
        BY <3>3, ListedIs DEF Linked
      <4>4. q[3] \in allocated /\ q[3] # later /\ q[3] # t
        BY <1>5, <3>2, <4>1
      <4>5. everLost' = TRUE
        BY <4>2, <4>3, <4>4
      <4>6. Cardinality(allocated) = k
        BY <1>3, RowsAreShort
      <4>7. QED
        BY <4>1, <4>2, <4>5, <4>6
    <3>6. QED
      BY <3>4, <3>5
  <2>3. CASE p # 1
    <3> DEFINE unlink == [list EXCEPT !.next[earlier] = later, !.prev[later] = earlier]
               o == InsertAfter(unlink, left, t, later)
               pointers == {earlier, later} \cup
                            IF {earlier, later} \subseteq allocated
                            THEN {list.head} \cup WalkedOver(unlink, left, t) ELSE {}
               s == Without(k, q, p)
               r == With(k - 1, s, t)
    <3>1. Follow(pointers, o, allocated)
      BY <1>7, <2>1, <2>3 DEF AdjustTimer
    <3>2. earlier = q[p - 1] /\ earlier \in allocated /\ p > 1 /\ p < k
      BY <1>5, <1>7, <1>8, <1>10, <2>3
    <3>3. unlink \in Links /\ Removed(unlink, list, k, q, p)
      BY <1>1, <1>3, <2>1, <3>2, RemovesMiddle
    <3>4. k - 1 \in Nat /\ s \in Rows(k - 1) /\ Elements(k - 1, s) = allocated \ {t}
      BY <1>3, <1>4, WithoutIsARow
    <3>5. list.head \in allocated
      <4>1. 1 \in 1 .. k /\ k # 0
        OBVIOUS
      <4>2. list.head = q[1]
        BY <1>3, <4>1 DEF Linked, Leads
      <4>3. QED
        BY <1>5, <4>1, <4>2
    <3> HIDE DEF unlink, earlier, later, left, s
    <3>6. Linked(unlink, k - 1, s)
      BY <1>1, <1>3, <3>3, RemovedIsLinked DEF s
    <3>7. k - 1 \in Nat \ {0} /\ k - 1 # 1
      BY <3>2
    <3>8. \A i \in 1 .. k - 1 : s[i] \in Timers /\ s[i] \in allocated \ {t}
      BY <3>4 DEF Elements, Rows
    <3>9. o = AtEnd(unlink, s[k - 1], t) /\ WalkedOver(unlink, left, t) \subseteq Elements(k - 1, s)
      <4>1. \A i \in 1 .. k - 1 : left[s[i]] <= left[t]
        BY <1>6, <3>8
      <4> DEFINE m == k - 1
      <4>2. m \in Nat \ {0} /\ s \in Rows(m) /\ Leads(unlink, m, s) /\ (m = 1 => later = s[1])
            /\ \A i \in 1 .. m : left[s[i]] <= left[t]
        BY <3>4, <3>6, <3>7, <4>1 DEF Linked
      <4> HIDE DEF m
      <4>3. InsertAfter(unlink, left, t, later) = AtEnd(unlink, s[m], t)
            /\ WalkedOver(unlink, left, t) \subseteq Elements(m, s)
        BY <1>6, <3>3, <4>2, InsertIsAtEnd
      <4>4. QED
        BY <4>3 DEF m
    <3> HIDE DEF o
    <3>10. t \in Timers \ Elements(k - 1, s)
      BY <3>4
    <3>11. o \in Links /\ Linked(o, (k - 1) + 1, r)
      BY <3>3, <3>4, <3>6, <3>7, <3>9, <3>10, AtEndLinks DEF Linked
    <3>12. r \in Rows((k - 1) + 1) /\ Elements((k - 1) + 1, r) = allocated /\ (k - 1) + 1 \in Nat
      <4>1. r \in Rows((k - 1) + 1) /\ Elements((k - 1) + 1, r) = Elements(k - 1, s) \cup {t}
        BY <3>4, <3>10, WithIsARow
      <4>2. QED
        BY <1>1, <3>4, <4>1
    <3>13. Ascending((k - 1) + 1, r, left)
      <4>1. \A i \in 1 .. k : i # p => left[q[i]] = remaining[q[i]]
        BY <1>4, <1>5, <1>6
      <4>2. Ascending(k - 1, s, left)
        BY <1>3, <4>1, WithoutAscends DEF s
      <4>3. \A i \in 1 .. k - 1 : left[s[i]] <= left[t]
        BY <1>6, <3>8
      <4>4. left[t] <= left[t]
        BY <1>6
      <4>5. QED
        BY <3>4, <4>2, <4>3, <4>4, WithAscends
    <3>14. pointers \subseteq Elements((k - 1) + 1, r) \cup allocated
      BY <2>1, <3>2, <3>4, <3>5, <3>9, <3>12
    <3> HIDE DEF pointers, r
    <3>15. Healthy' /\ everLost' = everLost /\ allocated' = allocated
      <4> DEFINE m == (k - 1) + 1
      <4>1. m \in Nat /\ r \in Rows(m) /\ Linked(o, m, r) /\ Ascending(m, r, remaining')
            /\ pointers \subseteq Elements(m, r) \cup allocated /\ allocated = Elements(m, r)
        BY <1>1, <3>11, <3>12, <3>13, <3>14
      <4> HIDE DEF m
      <4>2. QED
        BY <1>1, <3>1, <3>11, <4>1, FollowLeads
    <3>16. QED
      BY <3>15
  <2>4. QED
    BY <2>2, <2>3
<1>11. QED
  BY <1>9, <1>10

(* How many timers at the front of a walk that ends have expired. *)
LEMMA FrontIs ==
  ASSUME NEW c, NEW e \in 0 .. N, c[e] = NULL
  PROVE  LET front == {i \in 0 .. N : \A j \in 0 .. i : c[j] # NULL /\ Expired(c[j])}
         IN  \E m \in 0 .. e : /\ front = 0 .. m - 1 /\ Cardinality(front) = m
                               /\ c[m] = NULL \/ ~Expired(c[m])
                               /\ \A i \in 0 .. m - 1 : c[i] # NULL /\ Expired(c[i])
<1> DEFINE Gone(i) == \A j \in 0 .. i : c[j] # NULL /\ Expired(c[j])
           front == {i \in 0 .. N : Gone(i)}
           Stops == {i \in 0 .. N : c[i] = NULL \/ ~Expired(c[i])}
<1>1. N \in Nat
  BY Constants
<1>2. PICK m \in Stops : \A i \in Stops : m <= i
  <2>1. e \in Stops
    OBVIOUS
  <2>2. Stops \in SUBSET Nat
    BY <1>1
  <2> HIDE DEF Stops
  <2>3. QED
    BY <2>1, <2>2, Smallest
<1>3. m \in 0 .. e /\ m \in 0 .. N /\ (c[m] = NULL \/ ~Expired(c[m]))
  <2>1. e \in Stops
    OBVIOUS
  <2>2. QED
    BY <1>2, <2>1
<1>4. \A i \in 0 .. m - 1 : i \in 0 .. N /\ c[i] # NULL /\ Expired(c[i])
  <2>1. \A i \in 0 .. m - 1 : i \in 0 .. N /\ ~(m <= i)
    BY <1>1, <1>3
  <2>2. \A i \in 0 .. N : ~(m <= i) => i \notin Stops
    BY <1>2
  <2>3. QED
    BY <2>1, <2>2
<1> HIDE DEF Stops
<1>5. front = 0 .. m - 1
  <2>1. ASSUME NEW i \in 0 .. N, Gone(i) PROVE i \in 0 .. m - 1
    <3>1. m <= i => m \in 0 .. i
      BY <1>3
    <3>2. ~(m <= i)
      BY <1>3, <2>1, <3>1
    <3>3. QED
      BY <1>3, <3>2
  <2>2. ASSUME NEW i \in 0 .. m - 1 PROVE i \in 0 .. N /\ Gone(i)
    <3>1. \A j \in 0 .. i : j \in 0 .. m - 1
      BY <1>3
    <3>2. QED
      BY <1>4, <3>1
  <2> HIDE DEF Gone
  <2>3. QED
    BY <2>1, <2>2
<1>6. Cardinality(0 .. m - 1) = m
  <2>1. m \in Nat /\ 0 \in Int /\ m - 1 \in Int
    BY <1>3
  <2>2. Cardinality(0 .. m - 1) = IF 0 > m - 1 THEN 0 ELSE (m - 1) - 0 + 1
    BY <2>1, FS_Interval
  <2>3. (IF 0 > m - 1 THEN 0 ELSE (m - 1) - 0 + 1) = m
    BY <2>1
  <2>4. QED
    BY <2>2, <2>3
<1>7. QED
  BY <1>3, <1>4, <1>5, <1>6

(* tick() deletes exactly the expired timers. *)
LEMMA TickKeeps ==
  ASSUME Inv, Tick, ~everLost
  PROVE  Healthy' /\ everLost' = everLost /\ allocated' = {t \in allocated : remaining[t] > 0}
<1> DEFINE c == Chain(list, list.head)
           front == {i \in 0 .. N : \A j \in 0 .. i : c[j] # NULL /\ Expired(c[j])}
           expired == {c[i] : i \in front}
<1>1. /\ fault = "none" /\ remaining' = remaining
      /\ list \in Links /\ everLost \in BOOLEAN /\ remaining \in [Timers -> 0 .. Lifetime]
      /\ NULL \notin Timers /\ N \in Nat /\ Lifetime \in Nat
  BY Constants DEF Tick, Inv, Healthy
<1>2. Follow({c[i] : i \in 0 .. Cardinality(front)} \ {NULL},
             IF expired = {} THEN list
             ELSE SetPrev([list EXCEPT !.head = c[Cardinality(front)]], c[Cardinality(front)], NULL),
             allocated \ expired)
  BY DEF Tick
<1>3. PICK k \in Nat : \E q \in Rows(k) :
         allocated = Elements(k, q) /\ Linked(list, k, q) /\ Ascending(k, q, remaining)
  BY DEF Inv, Healthy, InRow
<1>4. PICK q \in Rows(k) :
         allocated = Elements(k, q) /\ Linked(list, k, q) /\ Ascending(k, q, remaining)
  BY <1>3
<1>5. /\ k <= N /\ k \in 0 .. N /\ q \in [1 .. k -> Timers]
      /\ \A i, j \in 1 .. k : q[i] = q[j] => i = j
      /\ \A i \in 1 .. k : q[i] \in allocated /\ q[i] \in Timers /\ remaining[q[i]] \in 0 .. Lifetime
  <2>1. k <= N
    BY RowsAreShort
  <2>2. k \in 0 .. N
    BY <1>1, <2>1
  <2>3. q \in [1 .. k -> Timers] /\ \A i, j \in 1 .. k : q[i] = q[j] => i = j
    BY DEF Rows
  <2>4. \A i \in 1 .. k : q[i] \in allocated /\ q[i] \in Timers
    BY <1>4, <2>3 DEF Elements
  <2>5. \A t \in Timers : remaining[t] \in 0 .. Lifetime
    BY <1>1
  <2>6. QED
    BY <2>1, <2>2, <2>3, <2>4, <2>5, Zenon
<1>6. \A i \in 0 .. N : c[i] = IF i < k THEN q[i + 1] ELSE NULL
  <2>1. Along(list, list.head, k, q)
    BY <1>4 DEF Linked, Leads, Along
  <2>2. QED
    BY <1>5, <2>1, ChainIs
<1> HIDE DEF c
(* m timers at the front have expired, and no other. *)
<1>7. c[k] = NULL
  BY <1>5, <1>6
<1>8. PICK m \in 0 .. k : /\ front = 0 .. m - 1 /\ Cardinality(front) = m
                          /\ c[m] = NULL \/ ~Expired(c[m])
                          /\ \A i \in 0 .. m - 1 : c[i] # NULL /\ Expired(c[i])
  BY <1>5, <1>7, FrontIs, Zenon
<1>9. m \in 0 .. N /\ \A i \in 0 .. N : i < m => c[i] # NULL /\ Expired(c[i])
  <2>1. m \in 0 .. N
    <3>1. k <= N /\ m \in 0 .. k /\ N \in Nat
      BY <1>1, <1>5
    <3>2. QED
      BY <3>1
  <2>2. \A i \in 0 .. N : i < m => i \in 0 .. m - 1
    BY <1>1, <1>8
  <2>3. QED
    BY <1>8, <2>1, <2>2
<1> HIDE DEF front
<1>10. front = 0 .. m - 1
  BY <1>8
<1>11. Cardinality(front) = m
  BY <1>8
<1>12. expired = {q[i] : i \in 1 .. m}
  <2>1. \A i \in 0 .. m - 1 : i \in 0 .. N /\ i < k /\ i + 1 \in 1 .. m /\ c[i] = q[i + 1]
    <3>1. \A i \in 0 .. m - 1 : i \in 0 .. N /\ i < k /\ i + 1 \in 1 .. m
      <4>1. m <= k /\ k <= N /\ m \in Nat
        BY <1>5, <1>8
      <4>2. QED
        BY <1>1, <4>1
    <3>2. QED
      BY <1>6, <3>1
  <2>2. \A i \in 1 .. m : i - 1 \in 0 .. m - 1 /\ (i - 1) + 1 = i
    BY <1>8
  <2>3. QED
    BY <1>10, <2>1, <2>2, SMTT(60)
<1> HIDE DEF expired
<1>13. \A i \in 1 .. k : remaining[q[i]] > 0 <=> ~(i <= m)
  <2>1. ASSUME NEW i \in 1 .. k, i <= m PROVE remaining[q[i]] = 0
    <3> DEFINE j == i - 1
    <3>1. j \in 0 .. N /\ j < m /\ j < k /\ j + 1 = i
      <4>1. k \in Nat /\ N \in Nat /\ k <= N /\ i \in 1 .. k /\ m \in Nat
        BY <1>1, <1>5, <1>8
      <4>2. QED
        BY <2>1, <4>1
    <3> HIDE DEF j
    <3>2. c[j] = q[i] /\ Expired(c[j])
      BY <1>6, <1>9, <3>1
    <3>3. QED
      BY <3>2 DEF Expired
  <2>2. ASSUME NEW i \in 1 .. k, ~(i <= m) PROVE remaining[q[i]] > 0
    <3>1. m < k /\ m \in 0 .. N /\ m + 1 \in 1 .. k /\ m + 1 <= i
      BY <1>9, <2>2
    <3>2. c[m] = q[m + 1] /\ q[m + 1] # NULL
      BY <1>1, <1>5, <1>6, <3>1
    <3>3. remaining[q[m + 1]] # 0
      BY <1>8, <3>2 DEF Expired
    <3>4. remaining[q[m + 1]] <= remaining[q[i]]
      BY <1>4, <3>1 DEF Ascending
    <3>5. remaining[q[m + 1]] \in Nat /\ remaining[q[i]] \in Nat
      BY <1>1, <1>5, <3>1
    <3>6. \A x, y \in Nat : x # 0 /\ x <= y => y > 0
      OBVIOUS
    <3>7. QED
      BY <3>3, <3>4, <3>5, <3>6
  <2>3. QED
    BY <2>1, <2>2
<1> DEFINE live == allocated \ expired
<1>14. live = {t \in allocated : remaining[t] > 0}
  <2>1. ASSUME NEW t \in allocated PROVE t \notin expired <=> remaining[t] > 0
    <3>1. PICK i \in 1 .. k : t = q[i]
      BY <1>4 DEF Elements
    <3>2. t \in expired <=> i <= m
      <4>1. i <= m => i \in 1 .. m
        BY <1>8
      <4>2. \A j \in 1 .. m : j \in 1 .. k /\ j <= m
        BY <1>8
      <4>3. QED
        BY <1>5, <1>12, <3>1, <4>1, <4>2
    <3>3. QED
      BY <1>13, <3>1, <3>2
  <2>2. QED
    BY <2>1
<1> DEFINE r == Dropped(k, q, m)
<1>15. k - m \in Nat /\ r \in Rows(k - m) /\ Elements(k - m, r) = live
  BY <1>4, <1>8, <1>12, DroppedIsARow
<1>16. Ascending(k - m, r, remaining')
  <2>1. \A i \in 1 .. k - m : i + m \in 1 .. k /\ r[i] = q[i + m]
    BY <1>8 DEF Dropped
  <2>2. \A i, j \in 1 .. k - m : i <= j => i + m <= j + m
    BY <1>8
  <2> HIDE DEF r
  <2>3. QED
    BY <1>1, <1>4, <2>1, <2>2 DEF Ascending
<1> DEFINE pointers == {c[i] : i \in 0 .. m} \ {NULL}
           o == IF expired = {} THEN list ELSE SetPrev([list EXCEPT !.head = c[m]], c[m], NULL)
<1>17. Follow(pointers, o, live)
  BY <1>2, <1>11
<1>18. pointers \subseteq allocated
  <2>1. \A i \in 0 .. m : i \in 0 .. N
    BY <1>1, <1>9
  <2>2. \A i \in 0 .. N : i < k => i + 1 \in 1 .. k
    BY <1>5
  <2>3. QED
    BY <1>5, <1>6, <2>1, <2>2
<1>19. o \in Links /\ Linked(o, k - m, r)
  <2>1. CASE m = 0
    <3>1. expired = {} /\ k - m = k
      BY <1>12, <2>1
    <3>2. r = q
      <4>1. q = [i \in 1 .. k |-> q[i]]
        BY <1>5
      <4>2. \A i \in 1 .. k : i + m = i
        BY <2>1
      <4>3. QED
        BY <3>1, <4>1, <4>2 DEF Dropped
    <3> HIDE DEF r
    <3>3. QED
      BY <1>1, <1>4, <3>1, <3>2
  <2>2. CASE m # 0
    <3>1. m \in 1 .. k /\ 1 \in 1 .. m
      BY <1>8, <2>2
    <3>2. expired # {}
      BY <1>12, <3>1
    <3>3. c[m] = IF m < k THEN q[m + 1] ELSE NULL
      BY <1>6, <1>9
    <3> DEFINE d == SetPrev([list EXCEPT !.head = c[m]], c[m], NULL)
    <3>4. d \in Links /\ Linked(d, k - m, r)
      BY <1>1, <1>4, <3>1, <3>3, DroppedIsLinked
    <3>5. o = d
      BY <3>2
    <3>6. QED
      BY <3>4, <3>5
  <2>3. QED
    BY <2>1, <2>2
<1> HIDE DEF pointers, o, live, r
<1>20. Healthy' /\ everLost' = everLost /\ allocated' = live
  <2> DEFINE n == k - m
  <2>1. n \in Nat /\ r \in Rows(n) /\ Elements(n, r) = live /\ Ascending(n, r, remaining')
        /\ Linked(o, n, r) /\ pointers \subseteq Elements(n, r) \cup allocated
    BY <1>15, <1>16, <1>18, <1>19
  <2> HIDE DEF n
  <2>2. QED
    BY <1>1, <1>17, <1>19, <2>1, FollowLeads
<1>21. QED
  BY <1>14, <1>20

(* The clock changes no order. *)
LEMMA TimeKeeps ==
  ASSUME Inv, TimePasses, ~everLost
  PROVE  Healthy'
<1>1. /\ fault = "none" /\ UNCHANGED <<list, allocated, fault, everLost>>
      /\ remaining \in [Timers -> 0 .. Lifetime] /\ Lifetime \in Nat
      /\ remaining' = [t \in Timers |-> IF remaining[t] > 0 THEN remaining[t] - 1 ELSE 0]
      /\ Healthy
  BY Constants DEF TimePasses, Inv
<1>2. PICK k \in Nat : \E q \in Rows(k) :
         allocated = Elements(k, q) /\ Linked(list, k, q) /\ Ascending(k, q, remaining)
  BY <1>1 DEF Healthy, InRow
<1>3. PICK q \in Rows(k) :
         allocated = Elements(k, q) /\ Linked(list, k, q) /\ Ascending(k, q, remaining)
  BY <1>2
<1>4. \A x, y \in 0 .. Lifetime :
         x <= y => (IF x > 0 THEN x - 1 ELSE 0) <= (IF y > 0 THEN y - 1 ELSE 0)
  BY <1>1
<1>5. \A i \in 1 .. k : /\ q[i] \in Timers /\ remaining[q[i]] \in 0 .. Lifetime
                        /\ remaining'[q[i]] = IF remaining[q[i]] > 0 THEN remaining[q[i]] - 1 ELSE 0
  BY <1>1 DEF Rows
<1>6. Ascending(k, q, remaining')
  BY <1>3, <1>4, <1>5 DEF Ascending
<1>7. InRow(remaining)'
  BY <1>1, <1>3, <1>6 DEF InRow
<1>8. /\ fault' = "none" /\ list' \in Links
      /\ \A u \in Timers \ allocated' : list'.next[u] = NULL /\ list'.prev[u] = NULL
  BY <1>1 DEF Healthy
<1>9. QED
  BY <1>7, <1>8, Zenon DEF Healthy, InRow

-------------------------------------------------------------------------------
(* After a loss.  The timers no longer form one row, but no walk along     *)
(* next goes round in a circle.                                            *)

(* A number for each timer, larger than that of the timer before it. *)
Rank(l, r) ==
    /\ r \in [Timers -> Nat]
    /\ \A x \in Timers : l.prev[x] # NULL => r[l.prev[x]] < r[x]

(* The pointers from the head and from the timers in live make sense. *)
Good(l, live) ==
    /\ l \in Links /\ live \in SUBSET Timers
    /\ l.head \in live \cup {NULL}
    /\ l.head # NULL => l.prev[l.head] = NULL
    /\ \A x \in live : /\ l.next[x] \in live \cup {NULL}
                       /\ l.next[x] # NULL => l.prev[l.next[x]] = x
    /\ \E r : Rank(l, r)

Sound(l, live) ==
    /\ Good(l, live)
    /\ \A x \in Timers \ live : l.next[x] = NULL /\ l.prev[x] = NULL

(* A walk along next from start that stays in B. *)
Leading(l, start, B, r) ==
    /\ start \in B \cup {NULL}
    /\ \A x \in B : /\ l.next[x] \in B \cup {NULL}
                    /\ l.next[x] # NULL => r[x] < r[l.next[x]]

(* The recursive definition of the walk is one. *)
LEMMA WalkExists ==
  ASSUME NEW l, NEW start
  PROVE  Walks(Chain(l, start), l, start)
<1> DEFINE Part(n, w) == w = [i \in 0 .. n |-> IF i = 0 THEN start
                                               ELSE IF w[i-1] = NULL THEN NULL
                                               ELSE l.next[w[i-1]]]
           D == {n \in 0 .. N : ~ \E w : Part(n, w)}
<1>1. N \in Nat
  BY Constants
<1>2. D = {}
  <2> SUFFICES ASSUME D # {} PROVE FALSE
    OBVIOUS
  <2>1. PICK n \in D : \A j \in D : n <= j
    <3>1. D \in SUBSET Nat
      BY <1>1
    <3> HIDE DEF D
    <3>2. QED
      BY <3>1, Smallest
  <2>2. n \in 0 .. N /\ ~ \E w : Part(n, w)
    BY <2>1
  <2>3. CASE n = 0
    <3> DEFINE w == [i \in 0 .. 0 |-> start]
    <3>1. \A i \in 0 .. 0 : i = 0
      OBVIOUS
    <3>2. Part(0, w)
      BY <3>1
    <3> HIDE DEF Part
    <3>3. QED
      BY <2>2, <2>3, <3>2
  <2>4. CASE n # 0
    <3>1. n - 1 \in 0 .. N /\ ~(n <= n - 1)
      BY <1>1, <2>2, <2>4
    <3>2. n - 1 \notin D
      BY <2>1, <3>1
    <3>3. PICK w : Part(n - 1, w)
      BY <3>1, <3>2
    <3> DEFINE x == IF w[n-1] = NULL THEN NULL ELSE l.next[w[n-1]]
               v == [i \in 0 .. n |-> IF i < n THEN w[i] ELSE x]
    <3>4. \A i \in 0 .. n - 1 : w[i] = IF i = 0 THEN start ELSE IF w[i-1] = NULL THEN NULL ELSE l.next[w[i-1]]
      BY <3>3
    <3>5. \A i \in 0 .. n : v[i] = IF i < n THEN w[i] ELSE x
      OBVIOUS
    <3>6. v = [i \in 0 .. n |-> v[i]]
      OBVIOUS
    <3> HIDE DEF v
    <3>7. ASSUME NEW i \in 0 .. n
          PROVE  v[i] = IF i = 0 THEN start ELSE IF v[i-1] = NULL THEN NULL ELSE l.next[v[i-1]]
      <4>1. CASE i = n
        <5>1. i # 0 /\ ~(i < n) /\ n - 1 \in 0 .. n /\ n - 1 < n
          BY <2>2, <2>4, <4>1
        <5>2. v[i] = x /\ v[n - 1] = w[n - 1]
          BY <3>5, <5>1
        <5>3. QED
          BY <4>1, <5>1, <5>2
      <4>2. CASE i # n
        <5>1. i < n /\ i \in 0 .. n - 1 /\ (i # 0 => i - 1 \in 0 .. n /\ i - 1 < n)
          BY <2>2, <4>2
        <5>2. v[i] = w[i] /\ (i # 0 => v[i - 1] = w[i - 1])
          BY <3>5, <5>1
        <5>3. QED
          BY <3>4, <5>1, <5>2
      <4>3. QED
        BY <4>1, <4>2
    <3>8. Part(n, v)
      BY <3>6, <3>7
    <3> HIDE DEF Part
    <3>9. QED
      BY <2>2, <3>8
  <2>5. QED
    BY <2>3, <2>4
<1>3. PICK w : Part(N, w)
  <2>1. N \in 0 .. N
    BY <1>1
  <2> HIDE DEF Part
  <2>2. QED
    BY <1>2, <2>1
<1>4. Walks(w, l, start)
  BY <1>3 DEF Walks
<1>5. QED
  BY <1>4, ChainUnfolds

(* The walk c along next from start ends after e timers, all different. *)
Walked(c, l, start, B, e) ==
    /\ c[0] = start
    /\ \A i \in 1 .. N : c[i] = IF c[i-1] = NULL THEN NULL ELSE l.next[c[i-1]]
    /\ c[e] = NULL
    /\ \A i \in 0 .. e - 1 : c[i] \in B
    /\ \A i, j \in 0 .. e - 1 : c[i] = c[j] => i = j

(* Such a walk meets no timer twice, so it ends.                           *)
LEMMA WalkStops ==
  ASSUME NEW l, NEW start, NEW B \in SUBSET Timers, NEW r \in [Timers -> Nat],
         Leading(l, start, B, r)
  PROVE  \E e \in 0 .. N : Walked(Chain(l, start), l, start, B, e)
<1> DEFINE c == Chain(l, start)
<1>1. N \in Nat /\ NULL \notin Timers /\ IsFiniteSet(Timers)
  BY Constants
<1>2. Walks(c, l, start)
  BY WalkExists
<1> HIDE DEF c
<1>3. c[0] = start /\ \A i \in 1 .. N : c[i] = IF c[i-1] = NULL THEN NULL ELSE l.next[c[i-1]]
  BY <1>1, <1>2 DEF Walks
<1>4. \A i \in 0 .. N : c[i] \in B \cup {NULL}
  <2> DEFINE D == {i \in 0 .. N : c[i] \notin B \cup {NULL}}
  <2> SUFFICES ASSUME D # {} PROVE FALSE
    OBVIOUS
  <2>1. PICK i \in D : \A j \in D : i <= j
    <3>1. D \in SUBSET Nat
      BY <1>1
    <3> HIDE DEF D
    <3>2. QED
      BY <3>1, Smallest
  <2>2. i \in 0 .. N /\ c[i] \notin B \cup {NULL}
    BY <2>1
  <2>3. i # 0 /\ i \in 1 .. N /\ i - 1 \in 0 .. N /\ ~(i <= i - 1)
    BY <1>1, <1>3, <2>2 DEF Leading
  <2>4. c[i - 1] \in B \cup {NULL}
    BY <2>1, <2>3
  <2>5. QED
    BY <1>3, <2>2, <2>3, <2>4 DEF Leading
<1>5. ASSUME NEW i \in 0 .. N, NEW j \in 0 .. N, i < j, c[j] # NULL
      PROVE  c[i] # NULL /\ r[c[i]] < r[c[j]]
  <2> DEFINE Bad(n) == i < n /\ c[n] # NULL /\ ~(c[i] # NULL /\ r[c[i]] < r[c[n]])
             D == {n \in 0 .. N : Bad(n)}
  <2> SUFFICES ASSUME D # {} PROVE FALSE
    BY <1>5
  <2>1. PICK n \in D : \A m \in D : n <= m
    <3>1. D \in SUBSET Nat
      BY <1>1
    <3> HIDE DEF D
    <3>2. QED
      BY <3>1, Smallest
  <2>2. n \in 0 .. N /\ Bad(n)
    BY <2>1
  <2>3. n \in 1 .. N /\ n - 1 \in 0 .. N /\ ~(n <= n - 1) /\ (i = n - 1 \/ i < n - 1)
    BY <1>1, <2>2
  <2>4. c[n - 1] # NULL /\ c[n] = l.next[c[n - 1]]
    BY <1>3, <2>2, <2>3
  <2>5. c[n - 1] \in B /\ c[n] \in B /\ r[c[n - 1]] < r[c[n]]
    BY <1>4, <2>2, <2>3, <2>4 DEF Leading
  <2>6. ~Bad(n - 1)
    BY <2>1, <2>3
  <2>7. CASE i = n - 1
    BY <2>2, <2>4, <2>5, <2>7
  <2>8. CASE i < n - 1
    <3>1. c[i] # NULL /\ r[c[i]] < r[c[n - 1]]
      BY <2>4, <2>6, <2>8
    <3>2. c[i] \in B
      BY <1>4, <3>1
    <3>3. r[c[i]] \in Nat /\ r[c[n - 1]] \in Nat /\ r[c[n]] \in Nat
      BY <2>5, <3>2
    <3>4. r[c[i]] < r[c[n]]
      BY <2>5, <3>1, <3>3
    <3>5. QED
      BY <2>2, <3>1, <3>4
  <2>9. QED
    BY <2>3, <2>7, <2>8
<1>6. \A i, j \in 0 .. N : c[i] # NULL /\ c[i] = c[j] => i = j
  <2> SUFFICES ASSUME NEW i \in 0 .. N, NEW j \in 0 .. N, c[i] # NULL, c[i] = c[j], i # j
               PROVE  FALSE
    OBVIOUS
  <2>1. c[i] \in B
    BY <1>4
  <2>2. r[c[i]] \in Nat
    BY <2>1
  <2>3. i < j \/ j < i
    BY <1>1
  <2>4. r[c[i]] < r[c[i]]
    BY <1>5, <2>3
  <2>5. QED
    BY <2>2, <2>4
<1>7. \E i \in 0 .. N : c[i] = NULL
  <2> SUFFICES ASSUME \A i \in 0 .. N : c[i] # NULL PROVE FALSE
    OBVIOUS
  <2> DEFINE f == [i \in 0 .. N |-> c[i]]
  <2>1. f \in Injection(0 .. N, Timers)
    BY <1>4, <1>6 DEF Injection, IsInjective
  <2>2. IsFiniteSet(0 .. N) /\ Cardinality(0 .. N) = N + 1
    BY <1>1, FS_Interval
  <2>3. Cardinality(0 .. N) <= Cardinality(Timers)
    BY <1>1, <2>1, FS_Injection
  <2>4. QED
    BY <1>1, <2>2, <2>3 DEF N
<1>8. PICK e \in 0 .. N : c[e] = NULL /\ \A i \in 0 .. N : c[i] = NULL => e <= i
  <2> DEFINE D == {i \in 0 .. N : c[i] = NULL}
  <2>1. D \in SUBSET Nat /\ D # {}
    BY <1>1, <1>7
  <2> HIDE DEF D
  <2>2. PICK e \in D : \A i \in D : e <= i
    BY <2>1, Smallest
  <2>3. QED
    BY <2>2 DEF D
<1>9. \A i \in 0 .. e - 1 : i \in 0 .. N /\ ~(e <= i)
  BY <1>1
<1>10. \A i \in 0 .. e - 1 : c[i] \in B /\ c[i] # NULL
  BY <1>4, <1>8, <1>9
<1>11. \A i, j \in 0 .. e - 1 : c[i] = c[j] => i = j
  BY <1>6, <1>9, <1>10
<1>12. QED
  BY <1>3, <1>8, <1>10, <1>11 DEF c, Walked

(* Every timer before x, x included, and t not among them. *)
Above(l, x, t) ==
    \E P \in SUBSET Timers : x \in P /\ t \notin P /\ \A y \in P : l.prev[y] \in P \cup {NULL}

(* The list while t is out of it. *)
Bare(l, live, t) ==
    /\ l \in Links
    /\ l.head \in live \ {t}
    /\ l.prev[l.head] = NULL
    /\ \A x \in live \ {t} : /\ l.next[x] \in (live \ {t}) \cup {NULL}
                             /\ l.next[x] # NULL => l.prev[l.next[x]] = x
    /\ \E r : Rank(l, r)

(* A timer can be put behind any other, what it cuts off is only lost.     *)
LEMMA EndIsGood ==
  ASSUME NEW live \in SUBSET Timers, NEW t \in live, NEW l, Bare(l, live, t),
         NEW before \in live \ {t}, Above(l, before, t)
  PROVE  Good(AtEnd(l, before, t), live)
<1> DEFINE o == AtEnd(l, before, t)
<1>1. /\ l \in Links /\ l.head \in live \ {t} /\ l.prev[l.head] = NULL
      /\ t \in Timers /\ before \in Timers /\ before # t /\ NULL \notin Timers
      /\ \A x \in live \ {t} : /\ l.next[x] \in (live \ {t}) \cup {NULL}
                               /\ l.next[x] # NULL => l.prev[l.next[x]] = x
  BY Constants DEF Bare
<1>2. /\ o \in Links /\ o.head = l.head
      /\ \A u \in Timers :
            /\ o.next[u] = IF u = t THEN NULL ELSE IF u = before THEN t ELSE l.next[u]
            /\ o.prev[u] = IF u = t THEN before ELSE l.prev[u]
  BY <1>1, AtEndFields
<1> HIDE DEF o
<1>3. \E r : Rank(o, r)
  <2>1. PICK r : Rank(l, r)
    BY DEF Bare
  <2>2. PICK P \in SUBSET Timers :
           before \in P /\ t \notin P /\ \A y \in P : l.prev[y] \in P \cup {NULL}
    BY DEF Above
  <2> DEFINE s == [x \in Timers |-> IF x \in P THEN r[x] ELSE r[x] + r[before] + 1]
  <2>3. r \in [Timers -> Nat] /\ \A x \in Timers : l.prev[x] # NULL => r[l.prev[x]] < r[x]
    BY <2>1 DEF Rank
  <2>4. s \in [Timers -> Nat] /\ \A x \in Timers : s[x] = IF x \in P THEN r[x] ELSE r[x] + r[before] + 1
    BY <1>1, <2>3
  <2> HIDE DEF s
  <2>5. ASSUME NEW x \in Timers, o.prev[x] # NULL PROVE s[o.prev[x]] < s[x]
    <3>1. CASE x = t
      <4>1. o.prev[x] = before /\ s[before] = r[before] /\ s[x] = r[x] + r[before] + 1
        BY <1>1, <1>2, <2>2, <2>4, <3>1
      <4>2. r[before] \in Nat /\ r[x] \in Nat
        BY <1>1, <2>3
      <4>3. QED
        BY <4>1, <4>2
    <3>2. CASE x # t
      <4> DEFINE y == l.prev[x]
      <4>1. o.prev[x] = y /\ y # NULL
        BY <1>2, <2>5, <3>2
      <4>2. y \in Timers
        BY <1>1, <4>1 DEF Links
      <4> HIDE DEF y
      <4>3. r[y] < r[x] /\ r[y] \in Nat /\ r[x] \in Nat /\ r[before] \in Nat
        BY <1>1, <2>3, <4>1, <4>2 DEF y
      <4>4. x \in P => y \in P
        BY <2>2, <4>1 DEF y
      <4>5. (s[y] = r[y] \/ s[y] = r[y] + r[before] + 1) /\ (s[x] = r[x] + r[before] + 1 \/ (s[x] = r[x] /\ s[y] = r[y]))
        BY <2>4, <4>2, <4>4
      <4>6. s[y] < s[x]
        BY <4>3, <4>5
      <4>7. QED
        BY <4>1, <4>6
    <3>3. QED
      BY <3>1, <3>2
  <2>6. QED
    BY <2>4, <2>5 DEF Rank
<1>4. ASSUME NEW x \in live
      PROVE  o.next[x] \in live \cup {NULL} /\ (o.next[x] # NULL => o.prev[o.next[x]] = x)
  <2>1. x \in Timers
    OBVIOUS
  <2>2. CASE x = t
    BY <1>2, <2>1, <2>2
  <2>3. CASE x = before
    BY <1>1, <1>2, <2>1, <2>3
  <2>4. CASE x # t /\ x # before
    <3>1. o.next[x] = l.next[x] /\ x \in live \ {t}
      BY <1>2, <2>1, <2>4
    <3>2. l.next[x] # NULL => l.next[x] \in Timers /\ l.next[x] # t /\ l.next[x] \in live
      BY <1>1, <3>1
    <3>3. QED
      BY <1>1, <1>2, <3>1, <3>2
  <2>5. QED
    BY <2>2, <2>3, <2>4
<1>5. o.head \in live /\ o.prev[o.head] = NULL
  BY <1>1, <1>2
<1>6. QED
  BY <1>2, <1>3, <1>4, <1>5 DEF Good, o

(* add_timer(timer, lst_head) of a timer that expires last, in any list.   *)
LEMMA InsertIsGood ==
  ASSUME NEW live \in SUBSET Timers, NEW t \in live, NEW l, Bare(l, live, t),
         NEW left \in [Timers -> Nat], \A u \in Timers : left[u] <= left[t],
         NEW lst_head \in live \ {t}, l.next[l.head] = NULL => Above(l, lst_head, t)
  PROVE  Good(InsertAfter(l, left, t, lst_head), live)
<1> DEFINE start == l.next[l.head]
           c == Chain(l, start)
           B == live \ {t}
<1>1. /\ l \in Links /\ l.head \in B /\ l.prev[l.head] = NULL /\ NULL \notin Timers /\ N \in Nat
      /\ \A x \in B : l.next[x] \in B \cup {NULL} /\ (l.next[x] # NULL => l.prev[l.next[x]] = x)
  BY Constants DEF Bare
<1>2. PICK r : Rank(l, r)
  BY DEF Bare
<1>3. Leading(l, start, B, r) /\ r \in [Timers -> Nat] /\ B \in SUBSET Timers
  <2>1. \A x \in B : l.next[x] # NULL => l.next[x] \in Timers /\ l.prev[l.next[x]] = x /\ x # NULL
    BY <1>1
  <2>2. r \in [Timers -> Nat] /\ \A x \in Timers : l.prev[x] # NULL => r[l.prev[x]] < r[x]
    BY <1>2 DEF Rank
  <2>3. \A x \in B : l.next[x] # NULL => r[x] < r[l.next[x]]
    BY <2>1, <2>2
  <2> HIDE DEF B
  <2>4. Leading(l, start, B, r)
    BY <1>1, <2>3 DEF Leading
  <2>5. QED
    BY <2>2, <2>4 DEF B
<1> HIDE DEF c, B
<1>4. PICK e \in 0 .. N : Walked(c, l, start, B, e)
  BY <1>3, WalkStops DEF c
<1>5. /\ c[0] = start
      /\ \A i \in 1 .. N : c[i] = IF c[i-1] = NULL THEN NULL ELSE l.next[c[i-1]]
      /\ c[e] = NULL /\ \A i \in 0 .. e - 1 : c[i] \in B
  BY <1>4 DEF Walked
<1>6. \A i \in 0 .. e - 1 : i \in 0 .. N /\ c[i] \in Timers /\ c[i] # NULL
                            /\ ~(left[t] < left[c[i]]) /\ left[t] >= left[c[i]]
  <2>1. \A u \in Timers : left[u] \in Nat /\ left[u] <= left[t] /\ left[t] \in Nat
    OBVIOUS
  <2>2. \A u \in Timers : ~(left[t] < left[u]) /\ left[t] >= left[u]
    BY <2>1
  <2>3. \A i \in 0 .. e - 1 : i \in 0 .. N
    BY <1>1, <1>5
  <2>4. \A i \in 0 .. e - 1 : c[i] \in Timers
    BY <1>3, <1>5
  <2>5. QED
    BY <1>1, <2>2, <2>3, <2>4
<1>7. WalkEnd(l, left, t) = e
  <2> DEFINE Q(i) == /\ c[i] = NULL \/ left[t] < left[c[i]]
                     /\ \A j \in 0 .. i - 1 : c[j] # NULL /\ left[t] >= left[c[j]]
  <2>1. WalkEnd(l, left, t) = CHOOSE i \in 0 .. N : Q(i)
    BY DEF WalkEnd, c
  <2>2. Q(e)
    BY <1>5, <1>6
  <2>3. ASSUME NEW i \in 0 .. N, Q(i) PROVE i = e
    <3>1. ~(i < e)
      <4>1. i < e => i \in 0 .. e - 1
        BY <1>1
      <4>2. QED
        BY <1>6, <2>3, <4>1
    <3>2. ~(e < i)
      <4>1. e < i => e \in 0 .. i - 1
        BY <1>1
      <4>2. QED
        BY <1>5, <2>3, <4>1
    <3>3. QED
      BY <1>1, <3>1, <3>2
  <2> HIDE DEF Q
  <2>4. QED
    BY <2>1, <2>2, <2>3
<1> DEFINE before == IF e = 0 THEN lst_head ELSE c[e - 1]
<1>8. InsertAfter(l, left, t, lst_head) = AtEnd(l, before, t)
  <2>1. InsertAfter(l, left, t, lst_head) =
         SetPrev([l EXCEPT !.next[before] = t, !.next[t] = NULL, !.prev[t] = before, !.tail = t], NULL, t)
    BY <1>5, <1>7 DEF InsertAfter, c
  <2>2. QED
    BY <2>1 DEF SetPrev, AtEnd
<1>9. before \in B /\ Above(l, before, t)
  <2>1. CASE e = 0
    <3>1. start = NULL
      BY <1>5, <2>1
    <3>2. before = lst_head
      BY <2>1
    <3>3. QED
      BY <3>1, <3>2 DEF B
  <2>2. CASE e # 0
    <3>1. before = c[e - 1] /\ e - 1 \in 0 .. e - 1
      BY <1>5, <2>2
    <3> DEFINE P == {l.head} \cup {c[i] : i \in 0 .. e - 1}
    <3>2. P \subseteq B
      BY <1>1, <1>5
    <3>3. ASSUME NEW i \in 0 .. e - 1 PROVE l.prev[c[i]] \in P
      <4>1. CASE i = 0
        <5>1. c[i] = l.next[l.head] /\ c[i] # NULL
          BY <1>5, <1>6, <4>1
        <5>2. QED
          BY <1>1, <5>1
      <4>2. CASE i # 0
        <5>1. i \in 1 .. N /\ i - 1 \in 0 .. e - 1
          BY <1>1, <1>5, <4>2
        <5>2. c[i - 1] # NULL /\ c[i] # NULL /\ c[i - 1] \in B
          BY <1>5, <1>6, <5>1
        <5>3. c[i] = l.next[c[i - 1]]
          BY <1>5, <5>1, <5>2
        <5>4. l.prev[c[i]] = c[i - 1]
          BY <1>1, <5>2, <5>3
        <5>5. QED
          BY <5>1, <5>4
      <4>3. QED
        BY <4>1, <4>2
    <3>4. \A y \in P : l.prev[y] \in P \cup {NULL}
      BY <1>1, <3>3
    <3>5. before \in P
      BY <3>1
    <3> HIDE DEF P
    <3>6. t \notin P /\ P \in SUBSET Timers
      BY <1>3, <3>2 DEF B
    <3>7. Above(l, before, t)
      BY <3>4, <3>5, <3>6, Zenon DEF Above
    <3>8. QED
      BY <3>2, <3>5, <3>7
  <2>3. QED
    BY <2>1, <2>2
<1> HIDE DEF before
<1>10. QED
  BY <1>8, <1>9, EndIsGood DEF B

(* Fewer prev pointers do no harm to the numbers. *)
LEMMA RankStays ==
  ASSUME NEW l, NEW o, NEW r, Rank(l, r),
         \A x \in Timers : o.prev[x] = NULL \/ o.prev[x] = l.prev[x]
  PROVE  Rank(o, r)
  BY DEF Rank

(* Clearing the pointers of deleted timers keeps a list sound. *)
LEMMA GoodForgets ==
  ASSUME NEW live, NEW l, Good(l, live)
  PROVE  Sound(Forget(l, live), live)
<1> DEFINE o == Forget(l, live)
<1>1. l \in Links /\ NULL \notin Timers /\ live \in SUBSET Timers
  BY Constants DEF Good
<1>2. /\ o \in Links /\ o.head = l.head
      /\ \A u \in Timers : /\ o.next[u] = IF u \in live THEN l.next[u] ELSE NULL
                           /\ o.prev[u] = IF u \in live THEN l.prev[u] ELSE NULL
  BY <1>1, ForgetFields
<1> HIDE DEF o
<1>3. \E r : Rank(o, r)
  <2>1. PICK r : Rank(l, r)
    BY DEF Good
  <2>2. Rank(o, r)
    BY <1>2, <2>1, RankStays
  <2>3. QED
    BY <2>2
<1>4. \A x \in live : /\ o.next[x] \in live \cup {NULL}
                      /\ o.next[x] # NULL => o.prev[o.next[x]] = x
  <2>1. ASSUME NEW x \in live
        PROVE  o.next[x] \in live \cup {NULL} /\ (o.next[x] # NULL => o.prev[o.next[x]] = x)
    <3> DEFINE y == l.next[x]
    <3>1. o.next[x] = y /\ y \in live \cup {NULL} /\ (y # NULL => l.prev[y] = x)
      BY <1>2 DEF Good
    <3> HIDE DEF y
    <3>2. y # NULL => o.prev[y] = l.prev[y]
      BY <1>1, <1>2, <3>1
    <3>3. QED
      BY <3>1, <3>2
  <2>2. QED
    BY <2>1
<1>5. o.head \in live \cup {NULL} /\ (o.head # NULL => o.prev[o.head] = NULL)
  BY <1>2 DEF Good
<1>6. QED
  BY <1>2, <1>3, <1>4, <1>5 DEF Sound, Good, o

(* An operation that ends in Follow need only be looked at where it follows*)
(* no bad pointer.                                                         *)
LEMMA FollowSound ==
  ASSUME NEW pointers, NEW l, NEW live, Follow(pointers, l, live),
         Sound(list, allocated),
         pointers \subseteq live \cup allocated => Good(l, live)
  PROVE  Sound(list', allocated')
<1>1. CASE pointers \subseteq live \cup allocated
  <2>1. list' = Forget(l, live) /\ allocated' = live
    BY <1>1 DEF Follow
  <2>2. QED
    BY <1>1, <2>1, GoodForgets
<1>2. CASE ~(pointers \subseteq live \cup allocated)
  BY <1>2 DEF Follow
<1>3. QED
  BY <1>1, <1>2

(* What Sound says of one timer and its neighbours. *)
LEMMA SoundNeighbours ==
  ASSUME NEW live, NEW l, Sound(l, live), NEW t \in live
  PROVE  /\ l \in Links /\ t # NULL
         /\ l.next[t] # t /\ l.prev[t] # t
         /\ l.next[t] \in live \cup {NULL} /\ l.prev[t] \in Timers \cup {NULL}
         /\ l.next[t] # NULL => /\ l.prev[l.next[t]] = t
                                /\ l.next[t] # l.prev[t] /\ l.next[t] # l.head
         /\ \A x \in live : l.next[x] = t => x = l.prev[t]
         /\ \A x \in live : l.next[x] = l.next[t] /\ l.next[t] # NULL => x = t
         /\ t = l.head => l.prev[t] = NULL
<1>1. /\ l \in Links /\ NULL \notin Timers /\ t \in Timers
      /\ l.head # NULL => l.prev[l.head] = NULL
      /\ \A x \in live : l.next[x] \in live \cup {NULL} /\ (l.next[x] # NULL => l.prev[l.next[x]] = x)
  BY Constants DEF Sound, Good
<1>2. PICK r : Rank(l, r)
  BY DEF Sound, Good
<1>3. r \in [Timers -> Nat] /\ \A x \in Timers : l.prev[x] # NULL => r[l.prev[x]] < r[x]
  BY <1>2 DEF Rank
<1>4. l.prev[t] \in Timers \cup {NULL} /\ l.next[t] \in Timers \cup {NULL}
  BY <1>1 DEF Links
<1>5. l.prev[t] # t
  <2>1. r[t] \in Nat
    BY <1>1, <1>3
  <2>2. ~(r[t] < r[t])
    BY <2>1
  <2>3. QED
    BY <1>1, <1>3, <2>2
<1>6. ASSUME l.next[t] # NULL
      PROVE  l.prev[l.next[t]] = t /\ l.next[t] # l.prev[t] /\ l.next[t] # l.head
  <2> DEFINE y == l.next[t]
             x == l.prev[t]
  <2>1. y \in Timers /\ l.prev[y] = t /\ t # NULL
    BY <1>1, <1>4, <1>6
  <2>2. r[t] < r[y] /\ r[t] \in Nat /\ r[y] \in Nat
    BY <1>1, <1>3, <2>1
  <2>3. x # NULL => x \in Timers /\ r[x] < r[t] /\ r[x] \in Nat
    BY <1>1, <1>3, <1>4
  <2>4. x # NULL => x # y
    <3> HIDE DEF x, y
    <3>1. QED
      BY <2>2, <2>3
  <2>5. QED
    BY <1>1, <1>6, <2>1, <2>4
<1>7. \A x \in live : l.next[x] = t => x = l.prev[t]
  BY <1>1
<1>8. QED
  BY <1>1, <1>4, <1>5, <1>6, <1>7

(* add_timer() keeps the list sound. *)
LEMMA AddSound ==
  ASSUME Inv, Sound(list, allocated), NEW t \in Timers, AddTimer(t)
  PROVE  Sound(list', allocated')
<1> DEFINE left == Renewed(t)
           live == allocated \cup {t}
<1>1. /\ t \notin allocated /\ list \in Links /\ live \in SUBSET Timers /\ t \in live
      /\ list.next[t] = NULL /\ list.prev[t] = NULL /\ NULL \notin Timers
  BY Constants DEF AddTimer, Inv, Sound, Good
<1>2. /\ list.head \in allocated \cup {NULL}
      /\ list.head # NULL => list.prev[list.head] = NULL
      /\ \A x \in allocated : /\ list.next[x] \in allocated \cup {NULL}
                              /\ list.next[x] # NULL => list.prev[list.next[x]] = x
  BY DEF Sound, Good
<1>3. PICK r : Rank(list, r)
  BY DEF Sound, Good
<1>4. CASE list.head = NULL
  <2> DEFINE o == [list EXCEPT !.head = t, !.tail = t]
  <2>1. Follow({}, o, live)
    BY <1>4 DEF AddTimer
  <2>2. o \in Links /\ o.head = t /\ o.next = list.next /\ o.prev = list.prev
    BY <1>1 DEF Links
  <2> HIDE DEF o
  <2>3. Rank(o, r)
    BY <1>3, <2>2, RankStays
  <2>4. Good(o, live)
    BY <1>1, <1>2, <2>2, <2>3 DEF Good
  <2> HIDE DEF live
  <2>5. QED
    BY <1>1, <2>1, <2>4, FollowSound
<1>5. CASE list.head # NULL
  <2> DEFINE o == InsertAfter(list, left, t, list.head)
             pointers == {list.head} \cup WalkedOver(list, left, t)
  <2>1. Follow(pointers, o, live)
    BY <1>5 DEF AddTimer
  <2>2. live \ {t} = allocated
    BY <1>1
  <2>3. Bare(list, live, t)
    BY <1>1, <1>2, <1>3, <1>5, <2>2 DEF Bare
  <2>4. list.head \in live \ {t}
    BY <1>2, <1>5, <2>2
  <2>5. Above(list, list.head, t)
    <3> DEFINE P == {list.head}
    <3>1. P \in SUBSET Timers /\ list.head \in P /\ t \notin P /\ \A y \in P : list.prev[y] \in P \cup {NULL}
      BY <1>1, <1>2, <1>5, <2>4
    <3> HIDE DEF P
    <3>2. QED
      BY <3>1 DEF Above
  <2>6. left \in [Timers -> Nat] /\ \A u \in Timers : left[u] <= left[t]
    <3>1. left \in [Timers -> 0 .. Lifetime] /\ \A u \in Timers : left[u] <= left[t]
      BY RenewedIs
    <3> HIDE DEF left
    <3>2. QED
      BY <3>1, Constants
  <2> HIDE DEF left, live
  <2>7. Good(o, live)
    BY <1>1, <2>3, <2>4, <2>5, <2>6, InsertIsGood
  <2> HIDE DEF o, pointers
  <2>8. QED
    BY <1>1, <2>1, <2>7, FollowSound
<1>6. QED
  BY <1>4, <1>5

(* A timer between two others, linked past: the numbers stay. *)
LEMMA UnlinkRank ==
  ASSUME NEW l, NEW r, Rank(l, r), NEW t \in Timers, NEW a \in Timers, NEW b \in Timers,
         l.prev[t] = a, l.prev[b] = t, NULL \notin Timers,
         NEW o, \A u \in Timers : o.prev[u] = IF u = b THEN a ELSE l.prev[u]
  PROVE  Rank(o, r) /\ r[a] < r[t] /\ r[t] < r[b]
<1>1. r \in [Timers -> Nat] /\ \A x \in Timers : l.prev[x] # NULL => r[l.prev[x]] < r[x]
  BY DEF Rank
<1>2. r[a] < r[t] /\ r[t] < r[b] /\ r[a] \in Nat /\ r[t] \in Nat /\ r[b] \in Nat
  BY <1>1
<1>3. r[a] < r[b]
  BY <1>2
<1>4. QED
  BY <1>1, <1>2, <1>3 DEF Rank

(* The unlinking of a timer between two others, in any list. *)
LEMMA UnlinkIsBare ==
  ASSUME NEW live \in SUBSET Timers, NEW l, Sound(l, live), NEW t \in live, t # l.head,
         l.prev[t] \in live, l.next[t] \in live
  PROVE  LET o == [l EXCEPT !.next[l.prev[t]] = l.next[t], !.prev[l.next[t]] = l.prev[t]]
         IN  /\ o \in Links /\ o.head = l.head
             /\ o.head # NULL => o.prev[o.head] = NULL
             /\ \A x \in live \ {t} : /\ o.next[x] \in (live \ {t}) \cup {NULL}
                                      /\ o.next[x] # NULL => o.prev[o.next[x]] = x
             /\ \E r : Rank(o, r)
             /\ Above(o, l.next[t], t)
<1> DEFINE a == l.prev[t]
           b == l.next[t]
           o == [l EXCEPT !.next[a] = b, !.prev[b] = a]
<1>1. /\ l \in Links /\ NULL \notin Timers /\ a \in Timers /\ b \in Timers /\ t \in Timers
      /\ a \in live /\ b \in live
      /\ a # t /\ b # t /\ a # b /\ b # l.head /\ l.prev[t] = a /\ l.prev[b] = t /\ b # NULL
  <2>1. a \in Timers /\ b \in Timers /\ t \in Timers /\ NULL \notin Timers
    BY Constants
  <2>2. b # NULL
    BY <2>1
  <2>3. l \in Links /\ b # t /\ a # t /\ (b # NULL => l.prev[b] = t /\ b # a /\ b # l.head)
    BY SoundNeighbours
  <2>4. QED
    BY <2>1, <2>2, <2>3
<1> HIDE DEF b
<1>2. /\ \A x \in live : l.next[x] = t => x = a
      /\ \A x \in live : l.next[x] = b => x = t
  BY <1>1, SoundNeighbours DEF b
<1> HIDE DEF a
<1>3. /\ l.head \in live \cup {NULL}
      /\ l.head # NULL => l.prev[l.head] = NULL
      /\ \A x \in live : l.next[x] \in live \cup {NULL} /\ (l.next[x] # NULL => l.prev[l.next[x]] = x)
  BY DEF Sound, Good
<1>4. PICK r : Rank(l, r)
  BY DEF Sound, Good
<1>5. /\ o \in Links /\ o.head = l.head
      /\ \A u \in Timers : /\ o.next[u] = IF u = a THEN b ELSE l.next[u]
                           /\ o.prev[u] = IF u = b THEN a ELSE l.prev[u]
  <2>1. l \in Links /\ a \in Timers /\ b \in Timers
    BY <1>1
  <2>2. QED
    BY <2>1 DEF Links
<1> HIDE DEF o
<1>6. Rank(o, r) /\ r[a] < r[t] /\ r[t] < r[b]
  <2>1. \A u \in Timers : o.prev[u] = IF u = b THEN a ELSE l.prev[u]
    BY <1>5
  <2>2. l.prev[t] = a /\ l.prev[b] = t /\ a \in Timers /\ b \in Timers /\ t \in Timers /\ NULL \notin Timers
    BY <1>1
  <2>3. QED
    BY <1>4, <2>1, <2>2, UnlinkRank
<1>7. ASSUME NEW x \in live \ {t}
      PROVE  o.next[x] \in (live \ {t}) \cup {NULL} /\ (o.next[x] # NULL => o.prev[o.next[x]] = x)
  <2>1. CASE x = a
    BY <1>1, <1>5, <2>1
  <2>2. CASE x # a
    <3> DEFINE y == l.next[x]
    <3>1. o.next[x] = y /\ y \in live \cup {NULL} /\ y # t /\ y # b /\ (y # NULL => l.prev[y] = x)
      BY <1>1, <1>2, <1>3, <1>5, <2>2
    <3> HIDE DEF y
    <3>2. QED
      BY <1>5, <3>1
  <2>3. QED
    BY <2>1, <2>2
<1>8. Above(o, b, t)
  <2> DEFINE P == {x \in Timers : r[x] <= r[a]} \cup {b}
  <2>1. r \in [Timers -> Nat] /\ \A x \in Timers : o.prev[x] # NULL => r[o.prev[x]] < r[x]
    BY <1>6 DEF Rank
  <2>2. t \notin P
    <3>1. r[t] \in Nat /\ r[a] \in Nat
      BY <1>1, <2>1
    <3>2. ~(r[t] <= r[a])
      BY <1>6, <3>1
    <3>3. QED
      BY <1>1, <3>2
  <2>3. ASSUME NEW y \in P PROVE o.prev[y] \in P \cup {NULL}
    <3>1. CASE y = b
      <4>1. o.prev[y] = a /\ r[a] \in Nat
        BY <1>1, <1>5, <2>1, <3>1
      <4>2. r[a] <= r[a]
        BY <4>1
      <4>3. QED
        BY <1>1, <4>1, <4>2
    <3>2. CASE y # b
      <4> DEFINE x == o.prev[y]
      <4>1. y \in Timers /\ r[y] <= r[a] /\ r[y] \in Nat /\ r[a] \in Nat
        BY <1>1, <2>1, <3>2
      <4>2. x \in Timers \cup {NULL}
        BY <1>5, <4>1 DEF Links
      <4>3. x # NULL => r[x] < r[y] /\ r[x] \in Nat
        BY <2>1, <4>1, <4>2
      <4> HIDE DEF x
      <4>4. x # NULL => r[x] <= r[a]
        BY <4>1, <4>3
      <4>5. QED
        BY <4>2, <4>4 DEF x
    <3>3. QED
      BY <3>1, <3>2
  <2>4. P \in SUBSET Timers /\ b \in P
    BY <1>1
  <2> HIDE DEF P
  <2>5. QED
    BY <2>2, <2>3, <2>4 DEF Above
<1>9. o.head # NULL => o.prev[o.head] = NULL
  BY <1>1, <1>3, <1>5
<1>10. QED
  BY <1>5, <1>6, <1>7, <1>8, <1>9 DEF o, a, b

(* adjust_timer() keeps the list sound, in its branch that loses timers as *)
(* well.                                                                   *)
LEMMA AdjustSound ==
  ASSUME Inv, Sound(list, allocated), NEW t \in Timers, AdjustTimer(t)
  PROVE  Sound(list', allocated')
<1> DEFINE left    == Renewed(t)
           earlier == list.prev[t]
           later   == list.next[t]
           behead  == [list EXCEPT !.head = later, !.prev[later] = NULL, !.next[later] = NULL]
           unlink  == [list EXCEPT !.next[earlier] = later, !.prev[later] = earlier]
<1>1. t \in allocated /\ list \in Links /\ allocated \in SUBSET Timers /\ NULL \notin Timers
  BY Constants DEF AdjustTimer, Inv, Sound, Good
<1>2. /\ list.head \in allocated \cup {NULL}
      /\ list.head # NULL => list.prev[list.head] = NULL
      /\ \A x \in allocated : /\ list.next[x] \in allocated \cup {NULL}
                              /\ list.next[x] # NULL => list.prev[list.next[x]] = x
  BY DEF Sound, Good
<1>3. /\ later # t /\ earlier # t
      /\ later # NULL => list.prev[later] = t /\ later # earlier /\ later # list.head
      /\ \A x \in allocated : list.next[x] = t => x = earlier
      /\ \A x \in allocated : list.next[x] = later /\ later # NULL => x = t
      /\ t = list.head => earlier = NULL
  BY <1>1, SoundNeighbours
<1>4. left \in [Timers -> Nat] /\ \A u \in Timers : left[u] <= left[t]
  <2>1. left \in [Timers -> 0 .. Lifetime] /\ \A u \in Timers : left[u] <= left[t]
    BY RenewedIs
  <2> HIDE DEF left
  <2>2. QED
    BY <2>1, Constants
<1>5. CASE UNCHANGED <<list, allocated, fault, everLost>>
  BY <1>5
<1>6. CASE /\ later # NULL /\ t = list.head
           /\ Follow({later}, InsertAfter(behead, left, t, later), allocated)
  <2> DEFINE o == InsertAfter(behead, left, t, later)
  <2>1. SUFFICES ASSUME later \in allocated PROVE Good(o, allocated)
    <3> HIDE DEF o, later
    <3>1. {later} \subseteq allocated \cup allocated => later \in allocated
      OBVIOUS
    <3>2. QED
      BY <1>6, <2>1, <3>1, FollowSound DEF o
  <2>2. PICK r : Rank(list, r)
    BY DEF Sound, Good
  <2> HIDE DEF later, earlier
  <2>3. later \in Timers /\ later # NULL
    BY <1>1, <2>1
  <2>4. /\ behead \in Links /\ behead.head = later
        /\ \A u \in Timers : /\ behead.next[u] = IF u = later THEN NULL ELSE list.next[u]
                             /\ behead.prev[u] = IF u = later THEN NULL ELSE list.prev[u]
    BY <1>1, <2>3 DEF Links
  <2> HIDE DEF behead
  <2>5. Rank(behead, r)
    BY <2>2, <2>4, RankStays
  <2>6. ASSUME NEW x \in allocated \ {t}
        PROVE  /\ behead.next[x] \in (allocated \ {t}) \cup {NULL}
               /\ behead.next[x] # NULL => behead.prev[behead.next[x]] = x
    <3>1. x \in Timers /\ x # t /\ x \in allocated
      BY <1>1
    <3>2. CASE x = later
      BY <2>3, <2>4, <3>2
    <3>3. CASE x # later
      <4> DEFINE y == list.next[x]
      <4>1. behead.next[x] = y /\ y \in allocated \cup {NULL} /\ (y # NULL => list.prev[y] = x)
        BY <1>2, <2>4, <3>1, <3>3
      <4>2. y # later
        BY <1>3, <2>3, <3>1
      <4>3. y # t
        BY <1>3, <1>6, <3>1, <1>1
      <4> HIDE DEF y
      <4>4. y # NULL => y \in Timers
        BY <1>1, <4>1
      <4>5. y # NULL => behead.prev[y] = x
        BY <2>4, <4>1, <4>2, <4>4
      <4>6. QED
        BY <4>1, <4>3, <4>5
    <3>4. QED
      BY <3>2, <3>3
  <2>7. Bare(behead, allocated, t)
    BY <1>3, <2>1, <2>3, <2>4, <2>5, <2>6 DEF Bare
  <2>8. Above(behead, later, t)
    <3> DEFINE P == {later}
    <3>1. P \in SUBSET Timers /\ later \in P /\ t \notin P /\ \A y \in P : behead.prev[y] \in P \cup {NULL}
      BY <1>3, <2>3, <2>4
    <3> HIDE DEF P
    <3>2. QED
      BY <3>1 DEF Above
  <2>9. later \in allocated \ {t}
    BY <1>3, <2>1
  <2> HIDE DEF left
  <2>10. QED
    BY <1>1, <1>4, <2>7, <2>8, <2>9, InsertIsGood
<1>7. CASE /\ later # NULL /\ t # list.head
           /\ Follow({earlier, later} \cup
                            IF {earlier, later} \subseteq allocated
                            THEN {list.head} \cup WalkedOver(unlink, left, t) ELSE {},
                        InsertAfter(unlink, left, t, later), allocated)
  <2> DEFINE o == InsertAfter(unlink, left, t, later)
             pointers == {earlier, later} \cup
                            IF {earlier, later} \subseteq allocated
                            THEN {list.head} \cup WalkedOver(unlink, left, t) ELSE {}
  <2>1. SUFFICES ASSUME earlier \in allocated, later \in allocated, list.head \in allocated
                 PROVE  Good(o, allocated)
    <3>1. Follow(pointers, o, allocated)
      BY <1>7
    <3>2. pointers \subseteq allocated \cup allocated =>
             earlier \in allocated /\ later \in allocated /\ list.head \in allocated
      <4> HIDE DEF earlier, later, unlink, left
      <4>1. pointers \subseteq allocated => {earlier, later} \subseteq allocated
        OBVIOUS
      <4>2. QED
        BY <4>1
    <3> HIDE DEF o, pointers, earlier, later
    <3>3. pointers \subseteq allocated \cup allocated => Good(o, allocated)
      BY <2>1, <3>2
    <3>4. QED
      BY <3>1, <3>3, FollowSound
  <2>2. /\ unlink \in Links /\ unlink.head = list.head
        /\ unlink.head # NULL => unlink.prev[unlink.head] = NULL
        /\ \A x \in allocated \ {t} : /\ unlink.next[x] \in (allocated \ {t}) \cup {NULL}
                                      /\ unlink.next[x] # NULL => unlink.prev[unlink.next[x]] = x
        /\ \E r : Rank(unlink, r)
        /\ Above(unlink, later, t)
    BY <1>1, <1>7, <2>1, UnlinkIsBare
  <2> HIDE DEF unlink, later, left, earlier
  <2>3. Bare(unlink, allocated, t)
    BY <1>1, <1>7, <2>1, <2>2 DEF Bare
  <2>4. later \in allocated \ {t}
    BY <1>3, <2>1
  <2>5. QED
    BY <1>1, <1>4, <2>2, <2>3, <2>4, InsertIsGood
<1>8. QED
  BY <1>5, <1>6, <1>7 DEF AdjustTimer

(* del_timer() keeps the list sound. *)
LEMMA DelSound ==
  ASSUME Sound(list, allocated), NEW t \in Timers, DelTimer(t)
  PROVE  Sound(list', allocated')
<1> DEFINE earlier == list.prev[t]
           later   == list.next[t]
           rest    == allocated \ {t}
<1>1. t \in allocated /\ list \in Links /\ allocated \in SUBSET Timers /\ NULL \notin Timers
  BY Constants DEF DelTimer, Sound, Good
<1>2. /\ list.head \in allocated \cup {NULL}
      /\ list.head # NULL => list.prev[list.head] = NULL
      /\ \A x \in allocated : /\ list.next[x] \in allocated \cup {NULL}
                              /\ list.next[x] # NULL => list.prev[list.next[x]] = x
  BY DEF Sound, Good
<1>3. /\ later # t /\ earlier # t /\ later \in allocated \cup {NULL}
      /\ later # NULL => list.prev[later] = t /\ later # earlier /\ later # list.head
      /\ \A x \in allocated : list.next[x] = t => x = earlier
      /\ \A x \in allocated : list.next[x] = later /\ later # NULL => x = t
      /\ t = list.head => earlier = NULL
  BY <1>1, SoundNeighbours
<1>4. PICK r : Rank(list, r)
  BY DEF Sound, Good
<1>5. CASE /\ t = list.head
           /\ Follow({}, [list EXCEPT !.head = NULL, !.tail = NULL], rest)
  <2> DEFINE o == [list EXCEPT !.head = NULL, !.tail = NULL]
  <2>1. o \in Links /\ o.head = NULL /\ o.next = list.next /\ o.prev = list.prev
    BY <1>1 DEF Links
  <2> HIDE DEF o, later, earlier
  <2>2. Rank(o, r)
    BY <1>4, <2>1, RankStays
  <2>3. \A x \in rest : o.next[x] \in rest \cup {NULL} /\ (o.next[x] # NULL => o.prev[o.next[x]] = x)
    BY <1>1, <1>2, <1>3, <1>5, <2>1
  <2>4. Good(o, rest)
    BY <1>1, <2>1, <2>2, <2>3 DEF Good
  <2> HIDE DEF rest
  <2>5. QED
    BY <1>5, <2>4, FollowSound DEF o
<1>6. CASE /\ t = list.head
           /\ Follow({later}, [list EXCEPT !.head = later, !.prev[later] = NULL], rest)
  <2> DEFINE o == [list EXCEPT !.head = later, !.prev[later] = NULL]
  <2>1. SUFFICES ASSUME later # NULL PROVE Good(o, rest)
    <3>1. {later} \subseteq rest \cup allocated => later # NULL
      BY <1>1
    <3> HIDE DEF o, later, rest
    <3>2. QED
      BY <1>6, <2>1, <3>1, FollowSound DEF o
  <2> HIDE DEF later, earlier
  <2>2. later \in rest /\ later \in Timers
    BY <1>1, <1>3, <2>1
  <2>3. /\ o \in Links /\ o.head = later /\ o.next = list.next
        /\ \A u \in Timers : o.prev[u] = IF u = later THEN NULL ELSE list.prev[u]
    BY <1>1, <2>2 DEF Links
  <2> HIDE DEF o
  <2>4. Rank(o, r)
    BY <1>4, <2>3, RankStays
  <2>5. ASSUME NEW x \in rest
        PROVE  o.next[x] \in rest \cup {NULL} /\ (o.next[x] # NULL => o.prev[o.next[x]] = x)
    <3> DEFINE y == list.next[x]
    <3>1. o.next[x] = y /\ y \in allocated \cup {NULL} /\ (y # NULL => list.prev[y] = x)
      BY <1>2, <2>3
    <3>2. y # later /\ y # t
      BY <1>1, <1>3, <1>6, <2>1
    <3> HIDE DEF y
    <3>3. y # NULL => y \in Timers
      BY <1>1, <3>1
    <3>4. QED
      BY <2>3, <3>1, <3>2, <3>3
  <2>6. o.prev[o.head] = NULL
    BY <2>2, <2>3
  <2>7. QED
    BY <1>1, <2>2, <2>3, <2>4, <2>5, <2>6 DEF Good
<1>7. CASE /\ t # list.head
           /\ Follow({earlier}, [list EXCEPT !.tail = earlier, !.next[earlier] = NULL], rest)
  <2> DEFINE o == [list EXCEPT !.tail = earlier, !.next[earlier] = NULL]
  <2>1. SUFFICES ASSUME earlier \in allocated PROVE Good(o, rest)
    <3>1. {earlier} \subseteq rest \cup allocated => earlier \in allocated
      OBVIOUS
    <3> HIDE DEF o, earlier, rest
    <3>2. QED
      BY <1>7, <2>1, <3>1, FollowSound DEF o
  <2> HIDE DEF later, earlier
  <2>2. earlier \in Timers
    BY <1>1, <2>1
  <2>3. /\ o \in Links /\ o.head = list.head /\ o.prev = list.prev
        /\ \A u \in Timers : o.next[u] = IF u = earlier THEN NULL ELSE list.next[u]
    BY <1>1, <2>2 DEF Links
  <2> HIDE DEF o
  <2>4. Rank(o, r)
    BY <1>4, <2>3, RankStays
  <2>5. ASSUME NEW x \in rest
        PROVE  o.next[x] \in rest \cup {NULL} /\ (o.next[x] # NULL => o.prev[o.next[x]] = x)
    <3>1. x \in Timers /\ x \in allocated
      BY <1>1
    <3>2. CASE x = earlier
      BY <2>3, <3>1, <3>2
    <3>3. CASE x # earlier
      BY <1>1, <1>2, <1>3, <2>3, <3>1, <3>3
    <3>4. QED
      BY <3>2, <3>3
  <2>6. o.head \in rest \cup {NULL} /\ (o.head # NULL => o.prev[o.head] = NULL)
    BY <1>2, <1>7, <2>3
  <2>7. QED
    BY <1>1, <2>3, <2>4, <2>5, <2>6 DEF Good
<1>8. CASE /\ t # list.head
           /\ Follow({earlier, later},
                     [list EXCEPT !.next[earlier] = later, !.prev[later] = earlier], rest)
  <2> DEFINE o == [list EXCEPT !.next[earlier] = later, !.prev[later] = earlier]
  <2>1. SUFFICES ASSUME earlier \in allocated, later \in allocated PROVE Good(o, rest)
    <3>1. {earlier, later} \subseteq rest \cup allocated => earlier \in allocated /\ later \in allocated
      BY <1>1
    <3> HIDE DEF o, earlier, later, rest
    <3>2. QED
      BY <1>8, <2>1, <3>1, FollowSound DEF o
  <2>2. /\ o \in Links /\ o.head = list.head
        /\ o.head # NULL => o.prev[o.head] = NULL
        /\ \A x \in allocated \ {t} : /\ o.next[x] \in (allocated \ {t}) \cup {NULL}
                                      /\ o.next[x] # NULL => o.prev[o.next[x]] = x
        /\ \E s : Rank(o, s)
        /\ Above(o, later, t)
    BY <1>1, <1>8, <2>1, UnlinkIsBare
  <2> HIDE DEF o
  <2>3. QED
    BY <1>1, <1>2, <1>8, <2>2 DEF Good
<1>9. QED
  BY <1>5, <1>6, <1>7, <1>8 DEF DelTimer

(* tick() keeps the list sound. *)
LEMMA TickSound ==
  ASSUME Sound(list, allocated), Tick
  PROVE  Sound(list', allocated')
<1> DEFINE c == Chain(list, list.head)
           front == {i \in 0 .. N : \A j \in 0 .. i : c[j] # NULL /\ Expired(c[j])}
           expired == {c[i] : i \in front}
           live == allocated \ expired
<1>1. /\ list \in Links /\ allocated \in SUBSET Timers /\ NULL \notin Timers /\ N \in Nat
      /\ list.head \in allocated \cup {NULL}
      /\ list.head # NULL => list.prev[list.head] = NULL
      /\ \A x \in allocated : /\ list.next[x] \in allocated \cup {NULL}
                              /\ list.next[x] # NULL => list.prev[list.next[x]] = x
  BY Constants DEF Sound, Good
<1>2. PICK r : Rank(list, r)
  BY DEF Sound, Good
<1>3. r \in [Timers -> Nat] /\ Leading(list, list.head, allocated, r)
  <2>1. r \in [Timers -> Nat] /\ \A x \in Timers : list.prev[x] # NULL => r[list.prev[x]] < r[x]
    BY <1>2 DEF Rank
  <2>2. \A x \in allocated : list.next[x] # NULL => list.next[x] \in Timers /\ x # NULL
    BY <1>1
  <2>3. \A x \in allocated : list.next[x] # NULL => r[x] < r[list.next[x]]
    BY <1>1, <2>1, <2>2
  <2>4. QED
    BY <1>1, <2>1, <2>3 DEF Leading
<1>4. PICK e \in 0 .. N : Walked(c, list, list.head, allocated, e)
  <2> HIDE DEF c
  <2>1. QED
    BY <1>1, <1>3, WalkStops DEF c
<1> HIDE DEF c
<1>5. /\ c[0] = list.head
      /\ \A i \in 1 .. N : c[i] = IF c[i-1] = NULL THEN NULL ELSE list.next[c[i-1]]
      /\ c[e] = NULL /\ \A i \in 0 .. e - 1 : c[i] \in allocated
      /\ \A i, j \in 0 .. e - 1 : c[i] = c[j] => i = j
  BY <1>4 DEF Walked
<1>6. PICK m \in 0 .. e : /\ front = 0 .. m - 1 /\ Cardinality(front) = m
                          /\ c[m] = NULL \/ ~Expired(c[m])
                          /\ \A i \in 0 .. m - 1 : c[i] # NULL /\ Expired(c[i])
  BY <1>5, FrontIs, Zenon
<1> HIDE DEF front
<1>7. expired = {c[i] : i \in 0 .. m - 1}
  BY <1>6
<1> DEFINE pointers == {c[i] : i \in 0 .. Cardinality(front)} \ {NULL}
           o == IF expired = {} THEN list
                ELSE SetPrev([list EXCEPT !.head = c[m]], c[m], NULL)
<1>8. Follow(pointers, o, live)
  BY <1>6 DEF Tick, c, front
<1> HIDE DEF expired, pointers
<1>9. \A i \in 0 .. m - 1 : i \in 0 .. e - 1 /\ i \in 0 .. N /\ c[i] \in allocated
  <2>1. \A i \in 0 .. m - 1 : i \in 0 .. e - 1 /\ i \in 0 .. N
    BY <1>1
  <2>2. QED
    BY <1>5, <2>1
(* Only an expired timer, or none, is before an expired one. *)
<1>10. ASSUME NEW i \in 0 .. m, c[i] # NULL
       PROVE  \/ i = 0 /\ list.prev[c[i]] = NULL
              \/ list.prev[c[i]] \in expired
  <2>1. CASE i = 0
    BY <1>1, <1>5, <1>10, <2>1
  <2>2. CASE i # 0
    <3>1. i \in 1 .. N /\ i - 1 \in 0 .. m - 1
      BY <1>1, <2>2
    <3>2. c[i - 1] # NULL /\ c[i - 1] \in allocated
      BY <1>6, <1>9, <3>1
    <3>3. c[i] = list.next[c[i - 1]]
      BY <1>5, <3>1, <3>2
    <3>4. list.prev[c[i]] = c[i - 1]
      BY <1>1, <1>10, <3>2, <3>3
    <3>5. QED
      BY <1>7, <3>1, <3>4
  <2>3. QED
    BY <2>1, <2>2
<1>11. \A x \in live : x # NULL /\ x \in allocated /\ x \notin expired
  BY <1>1
<1>12. ASSUME NEW x \in live, NEW i \in 0 .. m, c[i] # NULL PROVE list.next[x] # c[i]
  <2>1. list.next[x] # NULL => list.prev[list.next[x]] = x
    BY <1>1, <1>11
  <2>2. QED
    BY <1>10, <1>11, <1>12, <2>1
<1>13. \A x \in live : /\ list.next[x] \in live \cup {NULL}
                       /\ list.next[x] # NULL => list.prev[list.next[x]] = x
  <2>1. ASSUME NEW x \in live, list.next[x] # NULL PROVE list.next[x] \notin expired
    <3>1. \A i \in 0 .. m - 1 : i \in 0 .. m
      OBVIOUS
    <3>2. QED
      BY <1>6, <1>7, <1>12, <3>1
  <2>2. QED
    BY <1>1, <1>11, <2>1
<1>14. Good(o, live)
  <2>1. CASE m = 0
    <3>1. expired = {}
      BY <1>7, <2>1
    <3>2. live = allocated /\ o = list
      BY <3>1
    <3>3. QED
      BY <3>2 DEF Sound
  <2>2. CASE m # 0
    <3>1. expired # {}
      <4>1. 0 \in 0 .. m - 1
        BY <2>2
      <4>2. QED
        BY <1>7, <4>1
    <3>2. o = SetPrev([list EXCEPT !.head = c[m]], c[m], NULL)
      BY <3>1
    <3> HIDE DEF live
    <3>3. CASE c[m] = NULL
      <4>1. o = [list EXCEPT !.head = NULL]
        BY <3>2, <3>3 DEF SetPrev
      <4> HIDE DEF o
      <4>2. o \in Links /\ o.head = NULL /\ o.next = list.next /\ o.prev = list.prev
        BY <1>1, <4>1 DEF Links
      <4>3. Rank(o, r)
        BY <1>2, <4>2, RankStays
      <4>4. live \in SUBSET Timers
        BY <1>1 DEF live
      <4>5. QED
        BY <1>13, <4>2, <4>3, <4>4 DEF Good
    <3>4. CASE c[m] # NULL
      <4> DEFINE h == c[m]
      <4>1. m \in 0 .. e - 1
        BY <1>5, <3>4
      <4>2. h \in allocated /\ h \in Timers /\ h # NULL
        BY <1>1, <1>5, <3>4, <4>1
      <4>3. h \notin expired
        <5>1. ASSUME NEW i \in 0 .. m - 1 PROVE c[i] # c[m]
          <6>1. i \in 0 .. e - 1 /\ i # m
            BY <1>9
          <6>2. QED
            BY <1>5, <4>1, <6>1
        <5>2. QED
          BY <1>7, <5>1
      <4>4. o = [list EXCEPT !.head = h, !.prev[h] = NULL]
        BY <3>2, <3>4 DEF SetPrev
      <4>5. m \in 0 .. m /\ live \in SUBSET Timers /\ h \in live
        BY <1>1, <4>2, <4>3 DEF live
      <4>6. \A x \in live : list.next[x] # h
        BY <1>12, <3>4, <4>5
      <4> HIDE DEF o, h
      <4>7. /\ o \in Links /\ o.head = h /\ o.next = list.next
            /\ \A u \in Timers : o.prev[u] = IF u = h THEN NULL ELSE list.prev[u]
        BY <1>1, <4>2, <4>4 DEF Links
      <4>8. Rank(o, r)
        BY <1>2, <4>7, RankStays
      <4>9. \A x \in live : /\ o.next[x] \in live \cup {NULL}
                            /\ o.next[x] # NULL => o.prev[o.next[x]] = x
        BY <1>13, <4>5, <4>6, <4>7
      <4>10. o.prev[o.head] = NULL
        BY <4>2, <4>7
      <4>11. QED
        BY <4>5, <4>7, <4>8, <4>9, <4>10 DEF Good
    <3>5. QED
      BY <3>3, <3>4
  <2>3. QED
    BY <2>1, <2>2
<1> HIDE DEF o, live
<1>15. QED
  BY <1>8, <1>14, FollowSound

-------------------------------------------------------------------------------
(* The theorems                                                            *)

(* The empty list is an empty row. *)
LEMMA InitInv == Init => Inv
<1> SUFFICES ASSUME Init PROVE Inv
  OBVIOUS
<1>1. Lifetime \in Nat
  BY Constants
<1>2. list \in Links /\ list.head = NULL /\ \A t \in Timers : list.next[t] = NULL /\ list.prev[t] = NULL
  BY DEF Init, Links
<1> DEFINE q == [i \in 1 .. 0 |-> NULL]
<1>3. q \in Rows(0) /\ Elements(0, q) = {} /\ Linked(list, 0, q) /\ Ascending(0, q, remaining)
  <2>1. 1 .. 0 = {}
    OBVIOUS
  <2>2. q \in [1 .. 0 -> Timers]
    BY <2>1
  <2> HIDE DEF q
  <2>3. QED
    BY <1>2, <2>1, <2>2 DEF Rows, Elements, Linked, Leads, Ascending
<1> HIDE DEF q
<1>4. InRow(remaining)
  <2>1. 0 \in Nat /\ allocated = Elements(0, q)
    BY <1>3 DEF Init
  <2>2. QED
    BY <1>3, <2>1, Zenon DEF InRow
<1>5. remaining \in [Timers -> 0 .. Lifetime]
  BY <1>1 DEF Init
<1>6. Healthy
  BY <1>2, <1>4 DEF Init, Healthy
<1>7. QED
  BY <1>5, <1>6 DEF Init, Inv

(* Every step keeps what holds without the list, also after a loss.        *)
LEMMA TypesNext ==
  ASSUME Inv, [Next]_vars
  PROVE  /\ remaining' \in [Timers -> 0 .. Lifetime]
         /\ allocated' \subseteq Timers
         /\ everLost' \in BOOLEAN
         /\ fault' \in {"none", "null pointer", "deleted timer"}
         /\ everLost => everLost'
<1>1. remaining \in [Timers -> 0 .. Lifetime] /\ allocated \subseteq Timers /\ Lifetime \in Nat
  BY Constants DEF Inv
<1>2. ASSUME NEW t \in Timers, AddTimer(t)
      PROVE  /\ remaining' = Renewed(t)
             /\ \E pointers, l : Follow(pointers, l, allocated \cup {t})
  BY <1>2 DEF AddTimer
<1>3. ASSUME NEW t \in Timers, AdjustTimer(t)
      PROVE  /\ remaining' = Renewed(t)
             /\ \/ UNCHANGED <<list, allocated, fault, everLost>>
                \/ \E pointers, l : Follow(pointers, l, allocated)
  BY <1>3, Zenon DEF AdjustTimer
<1>4. ASSUME NEW t \in Timers, DelTimer(t)
      PROVE  /\ remaining' = [remaining EXCEPT ![t] = 0]
             /\ \E pointers, l : Follow(pointers, l, allocated \ {t})
  BY <1>4 DEF DelTimer
<1>5. ASSUME Tick
      PROVE  remaining' = remaining /\ \E pointers, l, gone : Follow(pointers, l, allocated \ gone)
  BY <1>5, Zenon DEF Tick
<1>6. ASSUME NEW pointers, NEW l, NEW live, live \subseteq Timers, Follow(pointers, l, live)
      PROVE  /\ allocated' \subseteq Timers /\ everLost' \in BOOLEAN
             /\ fault' \in {"none", "null pointer", "deleted timer"}
             /\ everLost => everLost'
  BY <1>6, FollowTypes
<1>7. CASE \E t \in Timers : AddTimer(t)
  <2>1. PICK t \in Timers : AddTimer(t)
    BY <1>7
  <2>2. Renewed(t) \in [Timers -> 0 .. Lifetime] /\ allocated \cup {t} \subseteq Timers
    BY <1>1, RenewedIs
  <2>3. QED
    BY <1>2, <1>6, <2>1, <2>2
<1>8. CASE \E t \in Timers : AdjustTimer(t)
  <2>1. PICK t \in Timers : AdjustTimer(t)
    BY <1>8
  <2>2. Renewed(t) \in [Timers -> 0 .. Lifetime]
    BY RenewedIs
  <2>3. QED
    BY <1>1, <1>3, <1>6, <2>1, <2>2 DEF Inv
<1>9. CASE \E t \in Timers : DelTimer(t)
  <2>1. PICK t \in Timers : DelTimer(t)
    BY <1>9
  <2>2. remaining' \in [Timers -> 0 .. Lifetime] /\ allocated \ {t} \subseteq Timers
    <3>1. remaining' = [remaining EXCEPT ![t] = 0]
      BY <1>4, <2>1, Zenon
    <3>2. 0 \in 0 .. Lifetime
      BY <1>1
    <3>3. QED
      BY <1>1, <3>1, <3>2
  <2>3. PICK pointers, l : Follow(pointers, l, allocated \ {t})
    BY <1>4, <2>1, Zenon
  <2>4. QED
    BY <1>6, <2>2, <2>3, Zenon
<1>10. CASE Tick
  <2>1. \A gone : allocated \ gone \subseteq Timers
    BY <1>1
  <2>2. QED
    BY <1>1, <1>5, <1>6, <1>10, <2>1
<1>11. CASE TimePasses
  <2>1. \A x \in 0 .. Lifetime : (IF x > 0 THEN x - 1 ELSE 0) \in 0 .. Lifetime
    BY <1>1
  <2>2. remaining' \in [Timers -> 0 .. Lifetime]
    BY <1>1, <1>11, <2>1 DEF TimePasses
  <2>3. QED
    BY <1>11, <2>2 DEF TimePasses, Inv
<1>12. CASE UNCHANGED vars
  BY <1>12 DEF vars, Inv
<1>13. QED
  BY <1>7, <1>8, <1>9, <1>10, <1>11, <1>12 DEF Next

(* Each operation keeps the invariant. *)
LEMMA NextInv == Inv /\ [Next]_vars => Inv'
<1> SUFFICES ASSUME Inv, [Next]_vars PROVE Inv'
  OBVIOUS
<1>1. ASSUME ~everLost' PROVE Healthy'
  <2>1. ~everLost
    BY <1>1, TypesNext
  <2>2. CASE \E t \in Timers : AddTimer(t)
    BY <2>1, <2>2, AddKeeps
  <2>3. CASE \E t \in Timers : AdjustTimer(t)
    BY <1>1, <2>1, <2>3, AdjustKeeps
  <2>4. CASE \E t \in Timers : DelTimer(t)
    BY <2>1, <2>4, DelKeeps
  <2>5. CASE Tick
    BY <2>1, <2>5, TickKeeps
  <2>6. CASE TimePasses
    BY <2>1, <2>6, TimeKeeps
  <2>7. CASE UNCHANGED vars
    <3>1. Healthy
      BY <2>1 DEF Inv
    <3>2. QED
      BY <2>7, <3>1 DEF Healthy, InRow, vars
  <2>8. QED
    BY <2>2, <2>3, <2>4, <2>5, <2>6, <2>7 DEF Next
<1>2. QED
  BY <1>1, TypesNext DEF Inv

(* Until a timer is lost, the live timers are in one row from head to tail *)
(* and back, in the order in which they expire.                            *)
THEOREM Invariance == Spec => []Inv
<1>1. Inv /\ [Next]_vars => Inv'
  BY NextInv
<1>2. QED
  BY InitInv, <1>1, PTL DEF Spec

(* A list that links a row in order is well formed as TimerList says it. *)
LEMMA RowIsWellFormed ==
  ASSUME Inv
  PROVE  WellFormedUntilLoss
<1> SUFFICES ASSUME ~everLost PROVE WellFormedList
  BY DEF WellFormedUntilLoss
<1>1. Healthy
  BY DEF Inv
<1>2. PICK k \in Nat : \E q \in Rows(k) :
         allocated = Elements(k, q) /\ Linked(list, k, q) /\ Ascending(k, q, remaining)
  BY <1>1 DEF Healthy, InRow
<1>3. PICK q \in Rows(k) :
         allocated = Elements(k, q) /\ Linked(list, k, q) /\ Ascending(k, q, remaining)
  BY <1>2
<1>4. Listed(list) = allocated
  BY <1>3, ListedIs DEF Linked
<1>5. /\ NULL \notin Timers
      /\ \A i \in 1 .. k : q[i] \in Timers /\ q[i] \in allocated
  BY <1>3, Constants DEF Rows, Elements
<1>6. list.head = NULL <=> allocated = {}
  <2>1. CASE k = 0
    BY <1>3, <2>1 DEF Linked, Leads, Elements
  <2>2. CASE k # 0
    <3>1. 1 \in 1 .. k
      BY <2>2
    <3>2. QED
      BY <1>3, <1>5, <2>2, <3>1 DEF Linked, Leads
  <2>3. QED
    BY <2>1, <2>2
<1>7. ASSUME list.head # NULL PROVE list.prev[list.head] = NULL /\ list.next[list.tail] = NULL
  <2>1. k # 0
    BY <1>3, <1>7 DEF Linked, Leads
  <2>2. 1 \in 1 .. k /\ k \in 1 .. k /\ k > 0 /\ ~(1 > 1) /\ ~(k < k)
    BY <2>1
  <2>3. list.head = q[1] /\ list.tail = q[k]
    BY <1>3, <2>1, <2>2 DEF Linked, Leads
  <2>4. list.prev[q[1]] = NULL /\ list.next[q[k]] = NULL
    BY <1>3, <2>2 DEF Linked, Leads
  <2>5. QED
    BY <2>3, <2>4
<1>8. ASSUME NEW t \in Listed(list), list.next[t] # NULL
      PROVE  list.prev[list.next[t]] = t /\ remaining[t] <= remaining[list.next[t]]
  <2>1. PICK i \in 1 .. k : t = q[i]
    BY <1>3, <1>4 DEF Elements
  <2>2. i < k /\ list.next[t] = q[i + 1]
    BY <1>3, <1>8, <2>1 DEF Linked, Leads
  <2>3. i + 1 \in 1 .. k /\ i + 1 > 1 /\ (i + 1) - 1 = i /\ i <= i + 1
    BY <2>2
  <2>4. list.prev[q[i + 1]] = q[i]
    BY <1>3, <2>3 DEF Linked, Leads
  <2>5. remaining[q[i]] <= remaining[q[i + 1]]
    BY <1>3, <2>3 DEF Ascending
  <2>6. QED
    BY <2>1, <2>2, <2>4, <2>5
<1>9. QED
  BY <1>1, <1>4, <1>6, <1>7, <1>8 DEF WellFormedList, Healthy

(* As long as adjust_timer() lost no timer, the list of lst_timer.h is     *)
(* well formed and no operation on it follows a bad pointer.               *)
THEOREM StaysWellFormed == Spec => []WellFormedUntilLoss
<1>1. Inv => WellFormedUntilLoss
  BY RowIsWellFormed
<1>2. QED
  BY Invariance, <1>1, PTL

(* Each step is a step of the abstract set of timers, or changes nothing   *)
(* of it.                                                                  *)
LEMMA StepIsAStep ==
  ASSUME Inv, [Next]_vars
  PROVE  [Abstract!Next]_(Abstract!vars)
<1>1. (everLost => everLost') /\ everLost \in BOOLEAN
  BY TypesNext DEF Inv
<1>2. CASE everLost
  BY <1>1, <1>2 DEF Abstract!Next
<1>3. CASE ~everLost
  <2>1. ASSUME NEW t \in Timers, AddTimer(t) PROVE Abstract!Next
    <3>1. t \notin allocated /\ remaining' = Renewed(t)
      BY <2>1 DEF AddTimer
    <3>2. QED
      BY <1>3, <2>1, <3>1, AddKeeps DEF Abstract!Next, Abstract!Keep, Abstract!Add, Renewed
  <2>2. ASSUME NEW t \in Timers, AdjustTimer(t) PROVE Abstract!Next
    <3>1. t \in allocated /\ remaining' = Renewed(t)
      BY <2>2 DEF AdjustTimer
    <3>2. Abstract!Adjust(t)
      BY <1>3, <2>2, <3>1, AdjustKeeps DEF Abstract!Adjust, Renewed
    <3>3. CASE everLost' = everLost
      BY <1>3, <3>2, <3>3 DEF Abstract!Next, Abstract!Keep
    <3>4. CASE everLost' = TRUE /\ Cardinality(allocated) >= 3
      <4>1. Abstract!Cardinality(allocated) >= 3
        BY <3>4 DEF Cardinality, Abstract!Cardinality, IsFiniteSet, Abstract!IsFiniteSet
      <4>2. QED
        BY <1>3, <3>1, <3>2, <3>4, <4>1 DEF Abstract!Next, Abstract!Break
    <3>5. QED
      BY <1>3, <2>2, <3>3, <3>4, AdjustKeeps
  <2>3. ASSUME NEW t \in Timers, DelTimer(t) PROVE Abstract!Next
    <3>1. t \in allocated /\ remaining' = [remaining EXCEPT ![t] = 0]
      BY <2>3 DEF DelTimer
    <3>2. QED
      BY <1>3, <2>3, <3>1, DelKeeps DEF Abstract!Next, Abstract!Keep, Abstract!Delete
  <2>4. ASSUME Tick PROVE Abstract!Next
    <3>1. remaining' = remaining
      BY <2>4 DEF Tick
    <3>2. QED
      BY <1>3, <2>4, <3>1, TickKeeps DEF Abstract!Next, Abstract!Keep, Abstract!Tick
  <2>5. ASSUME TimePasses PROVE Abstract!Next
    BY <1>3, <2>5 DEF TimePasses, Abstract!Next, Abstract!Keep, Abstract!TimePasses
  <2>6. CASE UNCHANGED vars
    BY <2>6 DEF vars, Abstract!vars
  <2>7. QED
    BY <2>1, <2>2, <2>3, <2>4, <2>5, <2>6 DEF Next
<1>4. QED
  BY <1>2, <1>3

(* The safety part of ImplementsTimerSet: the pointers of lst_timer.h do   *)
(* to the live timers what TimerSet allows.  Adding, adjusting and         *)
(* deleting touch one timer, tick() removes the expired timers and no      *)
(* other, and timers are lost only by an adjustment among three or more.   *)
THEOREM StepsOfTimerSet == Spec => Abstract!Init /\ [][Abstract!Next]_(Abstract!vars)
<1>1. Init => Abstract!Init
  BY DEF Init, Abstract!Init
<1>2. Inv /\ [Next]_vars => [Abstract!Next]_(Abstract!vars)
  BY StepIsAStep
<1>3. QED
  BY Invariance, <1>1, <1>2, PTL DEF Spec

(* The empty list is sound. *)
LEMMA InitSound == Init => Sound(list, allocated)
<1> SUFFICES ASSUME Init PROVE Sound(list, allocated)
  OBVIOUS
<1>1. list \in Links /\ list.head = NULL /\ \A t \in Timers : list.next[t] = NULL /\ list.prev[t] = NULL
  BY DEF Init, Links
<1> DEFINE r == [x \in Timers |-> 0]
<1>2. Rank(list, r)
  BY <1>1 DEF Rank
<1> HIDE DEF r
<1>3. QED
  BY <1>1, <1>2 DEF Init, Sound, Good

(* Each operation keeps the list sound. *)
LEMMA NextSound == Inv /\ Sound(list, allocated) /\ [Next]_vars => Sound(list, allocated)'
<1> SUFFICES ASSUME Inv, Sound(list, allocated), [Next]_vars PROVE Sound(list', allocated')
  BY DEF Sound, Good, Rank, Links
<1>1. CASE \E t \in Timers : AddTimer(t)
  BY <1>1, AddSound
<1>2. CASE \E t \in Timers : AdjustTimer(t)
  BY <1>2, AdjustSound
<1>3. CASE \E t \in Timers : DelTimer(t)
  BY <1>3, DelSound
<1>4. CASE Tick
  BY <1>4, TickSound
<1>5. CASE TimePasses
  BY <1>5 DEF TimePasses
<1>6. CASE UNCHANGED vars
  BY <1>6 DEF vars
<1>7. QED
  BY <1>1, <1>2, <1>3, <1>4, <1>5, <1>6 DEF Next

(* Whatever was lost, the pointers of the list stay pointers to timers     *)
(* that are not deleted, and lead in no circle.                            *)
THEOREM Soundness == Spec => []Sound(list, allocated)
<1>1. Inv /\ Sound(list, allocated) /\ [Next]_vars => Sound(list, allocated)'
  BY NextSound
<1>2. Init => Sound(list, allocated)
  BY InitSound
<1>3. QED
  BY Invariance, <1>1, <1>2, PTL DEF Spec

(* The list has its type in every reachable state, after a loss as well.   *)
THEOREM TypesAreKept == Spec => []TypeOK
<1>1. Inv /\ Sound(list, allocated) => TypeOK
  BY DEF Inv, Sound, Good, TypeOK
<1>2. QED
  BY Invariance, Soundness, <1>1, PTL

(* From the head, next leads to NULL after at most as many timers as there *)
(* are.                                                                    *)
NoCircle == \E e \in 0 .. N : Chain(list, list.head)[e] = NULL

(* The loops of tick() and add_timer() end, after a loss as well.          *)
THEOREM LoopsEnd == Spec => []NoCircle
<1>1. ASSUME Sound(list, allocated) PROVE NoCircle
  <2>1. PICK r : Rank(list, r)
    BY <1>1 DEF Sound, Good
  <2>2. /\ list \in Links /\ allocated \in SUBSET Timers /\ NULL \notin Timers
        /\ list.head \in allocated \cup {NULL}
        /\ \A x \in allocated : /\ list.next[x] \in allocated \cup {NULL}
                                /\ list.next[x] # NULL => list.prev[list.next[x]] = x
    BY <1>1, Constants DEF Sound, Good
  <2>3. r \in [Timers -> Nat] /\ \A x \in Timers : list.prev[x] # NULL => r[list.prev[x]] < r[x]
    BY <2>1 DEF Rank
  <2>4. \A x \in allocated : list.next[x] # NULL => list.next[x] \in Timers /\ x # NULL
    BY <2>2
  <2>5. \A x \in allocated : list.next[x] # NULL => r[x] < r[list.next[x]]
    BY <2>2, <2>3, <2>4
  <2>6. Leading(list, list.head, allocated, r)
    BY <2>2, <2>5 DEF Leading
  <2>7. \E e \in 0 .. N : Walked(Chain(list, list.head), list, list.head, allocated, e)
    BY <2>2, <2>3, <2>6, WalkStops
  <2>8. QED
    BY <2>7 DEF Walked, NoCircle
<1>2. QED
  BY Soundness, <1>1, PTL

===============================================================================
