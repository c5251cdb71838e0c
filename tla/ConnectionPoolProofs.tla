------------------------- MODULE ConnectionPoolProofs -------------------------
(***************************************************************************)
(* Theorems about ConnectionPool, for any finite set of callers and of     *)
(* connections.  EachHasOneUser counts the connections in the list and the *)
(* callers on their way to it; that a step of GetConnection() or           *)
(* ReleaseConnection() keeps the counts needs to know where the callers    *)
(* stand and that the list holds no connection twice.                      *)
(***************************************************************************)
EXTENDS ConnectionPool, FiniteSetTheorems, SequenceTheorems, TLAPS

Distinct(s)   == \A i, j \in 1 .. Len(s) : i # j => s[i] # s[j]
ElementsOf(s) == {s[i] : i \in DOMAIN s}

(* The list has no connection twice, and only a caller between its two     *)
(* calls has one.                                                          *)
Shape ==
    /\ connList \in Seq(Connections)
    /\ Distinct(connList)
    /\ FreeConn \in Nat /\ CurConn \in Nat /\ reserve \in Nat
    /\ at \in [Callers -> {"out", "wait", "take", "in use", "post"}]
    /\ con \in [Callers -> Connections \cup {NoConnection}]
    /\ \A c \in Callers : con[c] # NoConnection => at[c] = "in use"

Inv == Shape /\ EachHasOneUser

-------------------------------------------------------------------------------
(* Sets of callers and of connections *)

Users == {c \in Callers : con[c] # NoConnection}

(* What is in the list is finite, and so are the callers anywhere. *)
LEMMA CountsAreNumbers ==
  ASSUME ConnectionAssumption, Shape
  PROVE  /\ IsFiniteSet(InList) /\ Cardinality(InList) \in Nat
         /\ \A where : IsFiniteSet(At(where)) /\ Cardinality(At(where)) \in Nat
         /\ IsFiniteSet(Users) /\ Cardinality(Users) \in Nat
<1>1. IsFiniteSet(InList)
  <2>1. DOMAIN connList = 1 .. Len(connList)
    BY LenProperties DEF Shape
  <2>2. \A i \in 1 .. Len(connList) : connList[i] \in Connections
    BY ElementOfSeq DEF Shape
  <2>3. InList \in SUBSET Connections
    BY <2>1, <2>2 DEF InList
  <2>4. QED
    BY <2>3, FS_Subset DEF ConnectionAssumption
<1>2. ASSUME NEW where
      PROVE  IsFiniteSet(At(where)) /\ Cardinality(At(where)) \in Nat
  <2>1. At(where) \in SUBSET Callers
    BY DEF At
  <2>2. QED
    BY <2>1, FS_Subset, FS_CardinalityType DEF ConnectionAssumption
<1>3. IsFiniteSet(Users)
  <2>1. Users \in SUBSET Callers
    BY DEF Users
  <2>2. QED
    BY <2>1, FS_Subset DEF ConnectionAssumption
<1>4. QED
  BY <1>1, <1>2, <1>3, FS_CardinalityType

(* Without its first element, a list without repetitions holds the others. *)
LEMMA WithoutFirst ==
  ASSUME NEW S, NEW s \in Seq(S), s # <<>>, Distinct(s)
  PROVE  /\ Tail(s) \in Seq(S) /\ Len(Tail(s)) = Len(s) - 1
         /\ Distinct(Tail(s))
         /\ Head(s) \in S /\ Head(s) \in ElementsOf(s)
         /\ ElementsOf(Tail(s)) = ElementsOf(s) \ {Head(s)}
<1>1. /\ Tail(s) \in Seq(S) /\ Len(Tail(s)) = Len(s) - 1
      /\ Len(s) \in Nat \ {0} /\ DOMAIN s = 1 .. Len(s)
      /\ \A i \in 1 .. Len(Tail(s)) : Tail(s)[i] = s[i + 1]
      /\ Head(s) = s[1] /\ Head(s) \in S
  BY HeadTailProperties, LenProperties, EmptySeq
<1>2. DOMAIN Tail(s) = 1 .. Len(s) - 1
  BY <1>1, LenProperties
<1>3. Distinct(Tail(s))
  BY <1>1 DEF Distinct
<1>4. ASSUME NEW x PROVE x \in ElementsOf(Tail(s)) <=> x \in ElementsOf(s) \ {Head(s)}
  <2>1. ASSUME NEW i \in 1 .. Len(s) - 1 PROVE Tail(s)[i] = s[i + 1] /\ s[i + 1] # s[1]
    BY <1>1 DEF Distinct
  <2>2. ASSUME NEW i \in 1 .. Len(s), s[i] # s[1]
        PROVE  i - 1 \in 1 .. Len(s) - 1 /\ Tail(s)[i - 1] = s[i]
    BY <1>1, <2>2
  <2>3. ASSUME x \in ElementsOf(Tail(s)) PROVE x \in ElementsOf(s) \ {Head(s)}
    <3>1. PICK i \in 1 .. Len(s) - 1 : x = Tail(s)[i]
      BY <1>2, <2>3 DEF ElementsOf
    <3>2. i + 1 \in DOMAIN s /\ x = s[i + 1] /\ x # Head(s)
      BY <1>1, <2>1, <3>1
    <3>3. QED
      BY <3>2 DEF ElementsOf
  <2>4. ASSUME x \in ElementsOf(s) \ {Head(s)} PROVE x \in ElementsOf(Tail(s))
    <3>1. PICK i \in 1 .. Len(s) : x = s[i]
      BY <1>1, <2>4 DEF ElementsOf
    <3>2. i - 1 \in DOMAIN Tail(s) /\ x = Tail(s)[i - 1]
      BY <1>1, <1>2, <2>2, <2>4, <3>1
    <3>3. QED
      BY <3>2 DEF ElementsOf
  <2>5. QED
    BY <2>3, <2>4
<1>5. Head(s) \in ElementsOf(s)
  BY <1>1 DEF ElementsOf
<1>6. QED
  BY <1>1, <1>3, <1>4, <1>5

(* A new element at the end of a list without repetitions.                 *)
LEMMA WithAnother ==
  ASSUME NEW S, NEW s \in Seq(S), Distinct(s), NEW e \in S, e \notin ElementsOf(s)
  PROVE  /\ Append(s, e) \in Seq(S) /\ Len(Append(s, e)) = Len(s) + 1
         /\ Distinct(Append(s, e))
         /\ ElementsOf(Append(s, e)) = ElementsOf(s) \cup {e}
<1>1. /\ Append(s, e) \in Seq(S) /\ Len(Append(s, e)) = Len(s) + 1
      /\ Len(s) \in Nat /\ DOMAIN s = 1 .. Len(s)
      /\ \A i \in 1 .. Len(s) : Append(s, e)[i] = s[i]
      /\ Append(s, e)[Len(s) + 1] = e
  BY AppendProperties, LenProperties
<1>2. DOMAIN Append(s, e) = 1 .. Len(s) + 1
  BY <1>1, LenProperties
<1>3. \A i \in 1 .. Len(s) : s[i] # e
  BY <1>1 DEF ElementsOf
<1>4. Distinct(Append(s, e))
  BY <1>1, <1>3 DEF Distinct
<1>5. ASSUME NEW x PROVE x \in ElementsOf(Append(s, e)) <=> x \in ElementsOf(s) \cup {e}
  <2>1. x \in ElementsOf(Append(s, e)) <=> \E i \in 1 .. Len(s) + 1 : x = Append(s, e)[i]
    BY <1>2 DEF ElementsOf
  <2>2. x \in ElementsOf(s) <=> \E i \in 1 .. Len(s) : x = s[i]
    BY <1>1 DEF ElementsOf
  <2>3. \A i \in 1 .. Len(s) + 1 : i \in 1 .. Len(s) \/ i = Len(s) + 1
    BY <1>1
  <2>4. 1 .. Len(s) \subseteq 1 .. Len(s) + 1 /\ Len(s) + 1 \in 1 .. Len(s) + 1
    BY <1>1
  <2>5. QED
    BY <1>1, <2>1, <2>2, <2>3, <2>4
<1>6. QED
  BY <1>1, <1>4, <1>5

(* A list without repetitions is as long as the set of its elements.       *)
LEMMA DistinctListIsAsLong ==
  ASSUME NEW S, NEW n \in Nat, NEW s \in [1 .. n -> S],
         \A i, j \in 1 .. n : i # j => s[i] # s[j]
  PROVE  /\ IsFiniteSet({s[i] : i \in 1 .. n})
         /\ Cardinality({s[i] : i \in 1 .. n}) = n
<1> DEFINE T == {s[i] : i \in 1 .. n}
<1>1. s \in Bijection(1 .. n, T)
  BY DEF Bijection, Injection, Surjection, IsInjective
<1>2. IsFiniteSet(1 .. n) /\ Cardinality(1 .. n) = n
  BY FS_Interval
<1>3. QED
  BY <1>1, <1>2, FS_Bijection DEF ExistsBijection

-------------------------------------------------------------------------------
(* init() of the pool: all connections are in the list. *)
LEMMA InvInit == ConnectionAssumption /\ Init => Inv
<1> SUFFICES ASSUME ConnectionAssumption, Init PROVE Inv
  OBVIOUS
<1> DEFINE n == Cardinality(Connections)
<1>1. n \in Nat
  BY FS_CardinalityType DEF ConnectionAssumption
<1>2. /\ connList \in [1 .. n -> Connections]
      /\ \A i, j \in 1 .. n : i # j => connList[i] # connList[j]
  BY DEF Init
<1>3. connList \in Seq(Connections) /\ Len(connList) = n /\ DOMAIN connList = 1 .. n
  BY <1>1, <1>2
<1>4. Shape
  BY <1>1, <1>2, <1>3 DEF Init, Shape, Distinct
<1>5. Cardinality(InList) = n /\ InList \subseteq Connections
  <2>1. InList = {connList[i] : i \in 1 .. n}
    BY <1>3 DEF InList
  <2>2. Cardinality({connList[i] : i \in 1 .. n}) = n
    BY <1>1, <1>2, DistinctListIsAsLong, ZenonT(60)
  <2>3. InList \subseteq Connections
    BY <1>2, <2>1
  <2>4. QED
    BY <2>1, <2>2, <2>3
<1>6. InList = Connections
  BY <1>5, FS_Subset DEF ConnectionAssumption
<1>7. At("take") = {} /\ At("post") = {} /\ Users = {}
  BY DEF Init, At, Users
<1>8. Cardinality(At("take")) = 0 /\ Cardinality(At("post")) = 0 /\ Cardinality(Users) = 0
  BY <1>7, FS_EmptySet
<1>9. EachHasOneUser
  BY <1>1, <1>3, <1>5, <1>6, <1>8 DEF Init, EachHasOneUser, Users, ConnectionAssumption
<1>10. QED
  BY <1>4, <1>9 DEF Inv

(* A step that only moves a caller, with or without a unit of reserve.     *)
LEMMA CallerStep ==
  ASSUME ConnectionAssumption, Inv, NEW c \in Callers,
         TestEmpty(c) \/ Wait(c) \/ ReleaseNull(c) \/ Post(c)
  PROVE  Inv'
<1>1. Shape'
  <2>1. connList' = connList /\ con' = con /\ FreeConn' = FreeConn /\ CurConn' = CurConn
    BY DEF TestEmpty, Wait, ReleaseNull, Post
  <2>2. reserve' \in Nat
    <3>1. \/ reserve' = reserve \/ reserve' = reserve + 1
          \/ reserve > 0 /\ reserve' = reserve - 1
      BY DEF TestEmpty, Wait, ReleaseNull, Post
    <3>2. reserve \in Nat
      BY DEF Inv, Shape
    <3>3. QED
      BY <3>1, <3>2
  <2>3. /\ at' \in [Callers -> {"out", "wait", "take", "in use", "post"}]
        /\ \A d \in Callers : con[d] # NoConnection => at'[d] = "in use"
    BY DEF Inv, Shape, TestEmpty, Wait, ReleaseNull, Post
  <2>4. QED
    BY <2>1, <2>2, <2>3 DEF Inv, Shape, Distinct
<1>2. /\ connList' = connList /\ con' = con /\ FreeConn' = FreeConn /\ CurConn' = CurConn
      /\ InList' = InList
  BY DEF TestEmpty, Wait, ReleaseNull, Post, InList
<1>3. /\ IsFiniteSet(At("take")) /\ Cardinality(At("take")) \in Nat
      /\ IsFiniteSet(At("post")) /\ Cardinality(At("post")) \in Nat
      /\ reserve \in Nat
  BY CountsAreNumbers DEF Inv, Shape
<1>4. (reserve + Cardinality(At("take")) + Cardinality(At("post")))'
         = reserve + Cardinality(At("take")) + Cardinality(At("post"))
  <2>1. CASE TestEmpty(c)
    <3>1. At("take")' = At("take") /\ At("post")' = At("post") /\ reserve' = reserve
      BY <2>1 DEF TestEmpty, At, Inv, Shape
    <3>2. QED
      BY <3>1
  <2>2. CASE Wait(c)
    <3>1. /\ At("take")' = At("take") \cup {c} /\ c \notin At("take")
          /\ At("post")' = At("post") /\ reserve' = reserve - 1
      BY <2>2 DEF Wait, At, Inv, Shape
    <3>2. Cardinality(At("take")') = Cardinality(At("take")) + 1
      BY <3>1, <1>3, FS_AddElement
    <3>3. QED
      BY <3>1, <3>2, <1>3
  <2>3. CASE ReleaseNull(c)
    <3>1. At("take")' = At("take") /\ At("post")' = At("post") /\ reserve' = reserve
      BY <2>3 DEF ReleaseNull, At, Inv, Shape
    <3>2. QED
      BY <3>1
  <2>4. CASE Post(c)
    <3>1. /\ At("post")' = At("post") \ {c} /\ c \in At("post")
          /\ At("take")' = At("take") /\ reserve' = reserve + 1
      BY <2>4 DEF Post, At, Inv, Shape
    <3>2. Cardinality(At("post")') = Cardinality(At("post")) - 1
      BY <3>1, <1>3, FS_RemoveElement
    <3>3. QED
      BY <3>1, <3>2, <1>3
  <2>5. QED
    BY <2>1, <2>2, <2>3, <2>4
<1>5. QED
  BY <1>1, <1>2, <1>4 DEF Inv, EachHasOneUser

(* The caller that takes the first connection finds one, since its unit of *)
(* reserve stands for it.                                                  *)
LEMMA ListIsNotEmpty ==
  ASSUME ConnectionAssumption, Inv, NEW c \in Callers, at[c] = "take"
  PROVE  connList # <<>>
<1>1. /\ IsFiniteSet(At("take")) /\ Cardinality(At("take")) \in Nat
      /\ Cardinality(At("post")) \in Nat /\ reserve \in Nat
  BY CountsAreNumbers DEF Inv, Shape
<1>2. Cardinality(At("take")) # 0
  BY <1>1, FS_EmptySet DEF At
<1>3. reserve + Cardinality(At("take")) + Cardinality(At("post")) = Len(connList)
  BY DEF Inv, EachHasOneUser
<1>4. Len(connList) # 0
  BY <1>1, <1>2, <1>3
<1>5. QED
  BY <1>4

(* Taking a connection moves it from the list to a caller that had none.   *)
LEMMA TakeStep ==
  ASSUME ConnectionAssumption, Inv, NEW c \in Callers, TakeFront(c)
  PROVE  Inv'
<1> DEFINE first == Head(connList)
<1>a. Shape /\ EachHasOneUser
  BY DEF Inv
<1>b. connList # <<>>
  BY ListIsNotEmpty DEF TakeFront
<1>1. /\ con' = [con EXCEPT ![c] = first] /\ connList' = Tail(connList)
      /\ at' = [at EXCEPT ![c] = "in use"] /\ at[c] = "take" /\ con[c] = NoConnection
      /\ FreeConn' = FreeConn - 1 /\ CurConn' = CurConn + 1 /\ reserve' = reserve
  BY <1>a, <1>b DEF TakeFront, Shape
<1>2. connList \in Seq(Connections) /\ Distinct(connList)
  BY <1>a DEF Shape
<1>3. /\ Tail(connList) \in Seq(Connections) /\ Distinct(Tail(connList))
      /\ Len(Tail(connList)) = Len(connList) - 1
      /\ first \in Connections /\ first \in ElementsOf(connList)
      /\ ElementsOf(Tail(connList)) = ElementsOf(connList) \ {first}
  BY <1>b, <1>2, WithoutFirst
<1>4. Len(connList) \in Nat /\ Len(connList') \in Nat /\ Len(connList') = Len(connList) - 1
  BY <1>1, <1>2, <1>3, LenProperties
<1>5. InList' = InList \ {first} /\ first \in InList /\ first \in Connections
  BY <1>1, <1>3 DEF InList, ElementsOf
<1>6. Shape'
  <2>1. connList' \in Seq(Connections) /\ Distinct(connList)'
    BY <1>1, <1>3 DEF Distinct
  <2>2. FreeConn' \in Nat /\ CurConn' \in Nat /\ reserve' \in Nat
    <3>1. FreeConn = Len(connList) /\ CurConn \in Nat /\ reserve \in Nat
      BY <1>a DEF EachHasOneUser, Shape
    <3>2. FreeConn' = FreeConn - 1 /\ CurConn' = CurConn + 1 /\ reserve' = reserve
      BY <1>1
    <3>3. QED
      BY <1>4, <3>1, <3>2
  <2>3. /\ at' \in [Callers -> {"out", "wait", "take", "in use", "post"}]
        /\ con' \in [Callers -> Connections \cup {NoConnection}]
        /\ \A d \in Callers : con'[d] # NoConnection => at'[d] = "in use"
    BY <1>a, <1>1, <1>5 DEF Shape
  <2>4. QED
    BY <2>1, <2>2, <2>3 DEF Shape
<1>7. Cardinality(InList') = Len(connList')
  <2>1. IsFiniteSet(InList) /\ Cardinality(InList) = Len(connList)
    BY <1>a, CountsAreNumbers DEF EachHasOneUser
  <2>2. QED
    BY <1>4, <1>5, <2>1, FS_RemoveElement
<1>8. CurConn' = Cardinality(Users')
  <2>1. Users' = Users \cup {c} /\ c \notin Users
    BY <1>a, <1>1, <1>5 DEF Users, Shape, ConnectionAssumption
  <2>2. QED
    BY <1>a, <1>1, <2>1, CountsAreNumbers, FS_AddElement, ZenonT(60) DEF EachHasOneUser, Users
<1>9. (reserve + Cardinality(At("take")) + Cardinality(At("post")))' = Len(connList')
  <2>1. /\ At("take")' = At("take") \ {c} /\ c \in At("take")
        /\ At("post")' = At("post")
    BY <1>a, <1>1 DEF At, Shape
  <2>2. /\ IsFiniteSet(At("take")) /\ Cardinality(At("take")) \in Nat
        /\ Cardinality(At("post")) \in Nat /\ reserve \in Nat
    BY <1>a, CountsAreNumbers DEF Shape
  <2>3. Cardinality(At("take")') = Cardinality(At("take")) - 1
    BY <2>1, <2>2, FS_RemoveElement
  <2>4. reserve + Cardinality(At("take")) + Cardinality(At("post")) = Len(connList)
    BY <1>a DEF EachHasOneUser
  <2>5. reserve' = reserve
    BY <1>1
  <2>6. QED
    BY <1>4, <2>1, <2>2, <2>3, <2>4, <2>5
<1>10. EachHasOneUser'
  <2>1. \A d \in Callers : con'[d] = IF d = c THEN first ELSE con[d]
    BY <1>a, <1>1 DEF Shape
  <2>2. \A d \in Callers : con'[d] \notin InList'
    BY <1>a, <1>5, <2>1 DEF EachHasOneUser
  <2>3. \A d, e \in Callers : con'[d] = con'[e] /\ d # e => con'[d] = NoConnection
    BY <1>a, <1>5, <2>1 DEF EachHasOneUser
  <2>4. InList' \cup {con'[d] : d \in Callers} \cup {NoConnection}
           = Connections \cup {NoConnection}
    <3>1. ASSUME NEW x
          PROVE  x \in {con'[d] : d \in Callers} \cup {NoConnection}
                    <=> x \in {con[d] : d \in Callers} \cup {NoConnection, first}
      BY <1>1, <2>1
    <3>2. QED
      BY <1>a, <1>5, <3>1 DEF EachHasOneUser
  <2>5. FreeConn' = Len(connList')
    BY <1>a, <1>1, <1>4 DEF EachHasOneUser
  <2>6. QED
    BY <1>7, <1>8, <1>9, <2>2, <2>3, <2>4, <2>5 DEF EachHasOneUser, Users
<1>11. QED
  BY <1>6, <1>10 DEF Inv

(* Giving a connection back moves it from its caller to the list, and the  *)
(* caller will post a unit of reserve for it.                              *)
LEMMA ReleaseStep ==
  ASSUME ConnectionAssumption, Inv, NEW c \in Callers, Release(c)
  PROVE  Inv'
<1> DEFINE mine == con[c]
<1>a. Shape /\ EachHasOneUser
  BY DEF Inv
<1>1. /\ con' = [con EXCEPT ![c] = NoConnection] /\ connList' = Append(connList, mine)
      /\ at' = [at EXCEPT ![c] = "post"] /\ at[c] = "in use" /\ mine # NoConnection
      /\ FreeConn' = FreeConn + 1 /\ CurConn' = CurConn - 1 /\ reserve' = reserve
  BY DEF Release
<1>2. /\ connList \in Seq(Connections) /\ Distinct(connList)
      /\ mine \in Connections /\ mine \notin ElementsOf(connList)
  BY <1>a, <1>1 DEF Shape, EachHasOneUser, InList, ElementsOf
<1>3. /\ Append(connList, mine) \in Seq(Connections) /\ Distinct(Append(connList, mine))
      /\ Len(Append(connList, mine)) = Len(connList) + 1
      /\ ElementsOf(Append(connList, mine)) = ElementsOf(connList) \cup {mine}
  BY <1>2, WithAnother
<1>4. Len(connList) \in Nat /\ Len(connList') \in Nat /\ Len(connList') = Len(connList) + 1
  BY <1>1, <1>2, <1>3, LenProperties
<1>5. InList' = InList \cup {mine} /\ mine \notin InList /\ mine \in Connections
  BY <1>1, <1>2, <1>3 DEF InList, ElementsOf
<1>6. IsFiniteSet(Users) /\ Cardinality(Users) = CurConn /\ Users' = Users \ {c} /\ c \in Users
  <2>1. Cardinality(Users) = CurConn
    BY <1>a DEF EachHasOneUser, Users
  <2>2. Users' = Users \ {c} /\ c \in Users
    BY <1>a, <1>1 DEF Users, Shape
  <2>3. QED
    BY <1>a, <2>1, <2>2, CountsAreNumbers
<1>7. CurConn' = Cardinality(Users') /\ CurConn' \in Nat
  <2>1. Cardinality(Users') = CurConn - 1
    BY <1>6, FS_RemoveElement
  <2>2. IsFiniteSet(Users')
    BY <1>6, FS_RemoveElement
  <2>3. QED
    BY <1>1, <2>1, <2>2, FS_CardinalityType
<1>8. Shape'
  <2>1. connList' \in Seq(Connections) /\ Distinct(connList)'
    BY <1>1, <1>3 DEF Distinct
  <2>2. FreeConn' \in Nat /\ reserve' \in Nat
    <3>1. FreeConn = Len(connList) /\ reserve \in Nat
      BY <1>a DEF EachHasOneUser, Shape
    <3>2. FreeConn' = FreeConn + 1 /\ reserve' = reserve
      BY <1>1
    <3>3. QED
      BY <1>4, <3>1, <3>2
  <2>3. /\ at' \in [Callers -> {"out", "wait", "take", "in use", "post"}]
        /\ con' \in [Callers -> Connections \cup {NoConnection}]
        /\ \A d \in Callers : con'[d] # NoConnection => at'[d] = "in use"
    BY <1>a, <1>1 DEF Shape
  <2>4. QED
    BY <1>7, <2>1, <2>2, <2>3 DEF Shape
<1>9. Cardinality(InList') = Len(connList')
  <2>1. IsFiniteSet(InList) /\ Cardinality(InList) = Len(connList)
    BY <1>a, CountsAreNumbers DEF EachHasOneUser
  <2>2. QED
    BY <1>4, <1>5, <2>1, FS_AddElement
<1>10. (reserve + Cardinality(At("take")) + Cardinality(At("post")))' = Len(connList')
  <2>1. /\ At("post")' = At("post") \cup {c} /\ c \notin At("post")
        /\ At("take")' = At("take")
    BY <1>a, <1>1 DEF At, Shape
  <2>2. /\ IsFiniteSet(At("post")) /\ Cardinality(At("post")) \in Nat
        /\ Cardinality(At("take")) \in Nat /\ reserve \in Nat
    BY <1>a, CountsAreNumbers DEF Shape
  <2>3. Cardinality(At("post")') = Cardinality(At("post")) + 1
    BY <2>1, <2>2, FS_AddElement
  <2>4. reserve + Cardinality(At("take")) + Cardinality(At("post")) = Len(connList)
    BY <1>a DEF EachHasOneUser
  <2>5. reserve' = reserve
    BY <1>1
  <2>6. QED
    BY <1>4, <2>1, <2>2, <2>3, <2>4, <2>5
<1>11. EachHasOneUser'
  <2>1. \A d \in Callers : con'[d] = IF d = c THEN NoConnection ELSE con[d]
    BY <1>a, <1>1 DEF Shape
  <2>2. \A d \in Callers : con'[d] \notin InList'
    <3>1. \A d \in Callers : con[d] \notin InList /\ (d # c => con[d] # mine)
      BY <1>a, <1>1 DEF EachHasOneUser
    <3>2. NoConnection \notin InList'
      <4>1. InList \subseteq Connections
        BY <1>2, ElementOfSeq, LenProperties DEF InList
      <4>2. QED
        BY <1>1, <1>5, <4>1 DEF ConnectionAssumption
    <3>3. QED
      BY <1>5, <2>1, <3>1, <3>2
  <2>3. \A d, e \in Callers : con'[d] = con'[e] /\ d # e => con'[d] = NoConnection
    BY <1>a, <2>1 DEF EachHasOneUser
  <2>4. InList' \cup {con'[d] : d \in Callers} \cup {NoConnection}
           = Connections \cup {NoConnection}
    <3>1. ASSUME NEW x
          PROVE  x \in {con'[d] : d \in Callers} \cup {NoConnection, mine}
                    <=> x \in {con[d] : d \in Callers} \cup {NoConnection}
      BY <2>1
    <3>2. QED
      BY <1>a, <1>5, <3>1 DEF EachHasOneUser
  <2>5. FreeConn' = Len(connList')
    BY <1>a, <1>1, <1>4 DEF EachHasOneUser
  <2>6. QED
    BY <1>7, <1>9, <1>10, <2>2, <2>3, <2>4, <2>5 DEF EachHasOneUser, Users
<1>12. QED
  BY <1>8, <1>11 DEF Inv

(* Every step of a caller keeps the invariant. *)
LEMMA InvStep == ConnectionAssumption /\ Inv /\ [Next]_vars => Inv'
<1> SUFFICES ASSUME ConnectionAssumption, Inv, [Next]_vars PROVE Inv'
  OBVIOUS
<1>1. ASSUME NEW c \in Callers,
             TestEmpty(c) \/ Wait(c) \/ TakeFront(c) \/ Release(c) \/ ReleaseNull(c) \/ Post(c)
      PROVE  Inv'
  BY <1>1, CallerStep, TakeStep, ReleaseStep
<1>2. CASE UNCHANGED vars
  BY <1>2, ZenonT(60) DEF vars, Inv, Shape, Distinct, EachHasOneUser, InList, At
<1>3. QED
  BY <1>1, <1>2 DEF Next

-------------------------------------------------------------------------------
(* Whatever the callers' order, a connection has one user or is in the     *)
(* list, none is lost, and the semaphore never lets a caller into an empty *)
(* list.                                                                   *)
THEOREM ConnectionsHaveOneUser ==
  ASSUME ConnectionAssumption
  PROVE  Spec => []EachHasOneUser
<1>1. Init => Inv
  BY InvInit
<1>2. Inv /\ [Next]_vars => Inv'
  BY InvStep
<1>3. Inv => EachHasOneUser
  BY DEF Inv
<1>4. QED
  BY <1>1, <1>2, <1>3, PTL DEF Spec
===============================================================================
