----------------------------- MODULE HttpConnProofs ----------------------------
(***************************************************************************)
(* Theorems about HttpConn, for any requests, registered users and files,  *)
(* any size of the read buffer and any lengths of the answers.             *)
(***************************************************************************)
EXTENDS HttpConn, SequenceTheorems, WellFoundedInduction, TLAPS

-------------------------------------------------------------------------------
(* The parser stays inside its buffer                                      *)

(* What the read buffer holds.  (The provers do not know of any string in  *)
(* particular that it is in STRING.)                                       *)
Bytes == STRING \cup {"NUL"}

(* content_length is whatever the header says; nothing here depends on it. *)
ParserType(length) ==
    [read_buf : Seq(Bytes), checked_idx : Nat, start_line : Nat,
     check_state : {"CHECK_REQUESTINE", "CHECK_STATE_HEADER", "CHECK_STATE_CONTENT"},
     content_length : {length}, linger : BOOLEAN, url : Addresses \cup {"none"}, cgi : {0, 1},
     TRIGMode : TRIGModes]

(* What m_read_idx, m_checked_idx and m_start_line never violate. *)
IndicesOK(p) ==
    /\ Len(p.read_buf) <= BufferSize
    /\ p.start_line <= p.checked_idx /\ p.checked_idx <= Len(p.read_buf)

ParserOK(p) == (\E length : p \in ParserType(length)) /\ IndicesOK(p)

OutputType ==
    [write_idx : Nat, to_send : Nat, have_send : Nat, iv_count : 0 .. 2,
     head : [base : Nat, len : Nat], file : [base : Int, len : Nat]]

OutputOK == output \in OutputType

Shape ==
    /\ pc \in {"closed", "in", "parse", "answer", "out", "ended"}
    /\ wire \in Seq(Bytes) /\ meant \in Requests \cup {NoText}
    /\ ParserOK(parser) /\ OutputOK
    /\ line_status \in {"LINE_OK", "LINE_OPEN", "LINE_BAD"}
    /\ code \in Codes

(* Shape says all that TypeOK does. *)
LEMMA ShapeIsTyped == Shape => TypeOK
  BY DEF Shape, TypeOK, ParserOK, ParserType, IndicesOK, OutputOK, OutputType

(* The smallest member of a set of numbers. *)
LEMMA Smallest ==
  ASSUME NEW S \in SUBSET Nat, S # {}
  PROVE  \E x \in S : \A y \in S : x <= y
<1> DEFINE less == OpToRel(<, Nat)
<1>1. IsWellFoundedOn(less, Nat)
  BY NatLessThanWellFounded
<1>2. \E x \in S : \A y \in S : <<y, x>> \notin less
  BY <1>1, WFMin
<1>3. \A x, y \in Nat : <<y, x>> \notin less => x <= y
  <2>1. \A x, y \in Nat : y < x => <<y, x>> \in less
    BY DEF OpToRel
  <2>2. \A x, y \in Nat : y < x \/ x <= y
    OBVIOUS
  <2>3. QED
    BY <2>1, <2>2, Zenon
<1> HIDE DEF less
<1>4. QED
  BY <1>2, <1>3

(* Where parse_line() stops: at the first CR or LF, or at the end. *)
Stop == CHOOSE i \in parser.checked_idx .. Len(parser.read_buf) :
           /\ i < Len(parser.read_buf) => Byte(i) \in {"CR", "LF"}
           /\ \A j \in parser.checked_idx .. i - 1 : Byte(j) \notin {"CR", "LF"}

(* parse_line() stops at the end of the buffer if not before. *)
LEMMA StopExists ==
  ASSUME ParserOK(parser)
  PROVE  /\ Stop \in parser.checked_idx .. Len(parser.read_buf)
         /\ Stop < Len(parser.read_buf) => Byte(Stop) \in {"CR", "LF"}
         /\ \A j \in parser.checked_idx .. Stop - 1 : Byte(j) \notin {"CR", "LF"}
<1> DEFINE size == Len(parser.read_buf)
           start == parser.checked_idx
           P(i) == i < size => Byte(i) \in {"CR", "LF"}
           S == {i \in start .. size : P(i)}
<1>1. start \in Nat /\ size \in Nat /\ start <= size
  BY LenProperties DEF ParserOK, ParserType, IndicesOK
<1> HIDE DEF start, size
<1>2. size \in S /\ S \in SUBSET Nat
  BY <1>1
<1>3. PICK i \in S : \A j \in S : i <= j
  BY <1>2, Smallest
<1>4. \A j \in start .. i - 1 : Byte(j) \notin {"CR", "LF"}
  <2> SUFFICES ASSUME NEW j \in start .. i - 1, P(j) PROVE FALSE
    OBVIOUS
  <2>1. i \in start .. size
    BY <1>3
  <2>2. j \in start .. size /\ j < i /\ j \in Int /\ i \in Int
    BY <1>1, <2>1
  <2>3. j \in S
    BY <2>2
  <2>4. i <= j
    BY <1>3, <2>3
  <2>5. QED
    BY <2>2, <2>4
<1>5. i \in start .. size /\ P(i)
  BY <1>3
<1> HIDE DEF P, S
<1>6. Stop = CHOOSE x \in start .. size : P(x) /\ \A j \in start .. x - 1 : Byte(j) \notin {"CR", "LF"}
  BY DEF Stop, P, start, size
<1>7. /\ Stop \in start .. size /\ P(Stop)
      /\ \A j \in start .. Stop - 1 : Byte(j) \notin {"CR", "LF"}
  BY <1>4, <1>5, <1>6
<1>8. QED
  BY <1>7 DEF P, start, size

(* parse_line() in terms of Stop. *)
After(status, cr) ==
    [status |-> status,
     parser |-> IF status = "LINE_OK"
                THEN [parser EXCEPT !.checked_idx = cr + 2,
                                    !.read_buf[cr + 1] = "NUL",
                                    !.read_buf[cr + 2] = "NUL"]
                ELSE [parser EXCEPT !.checked_idx = Stop]]

(* What parse_line() makes of the place where it stops. *)
LEMMA LineCases ==
  Line = IF Stop = Len(parser.read_buf) THEN After("LINE_OPEN", Stop)
         ELSE IF Byte(Stop) = "LF"
              THEN IF Stop > 1 /\ Byte(Stop - 1) = "CR"
                   THEN After("LINE_OK", Stop - 1) ELSE After("LINE_BAD", Stop)
         ELSE IF Stop + 1 = Len(parser.read_buf) THEN After("LINE_OPEN", Stop)
         ELSE IF Byte(Stop + 1) = "LF" THEN After("LINE_OK", Stop)
         ELSE After("LINE_BAD", Stop)
  BY DEF Line, Stop, After

(* A line that ends behind cr lies in the buffer, and m_checked_idx moves  *)
(* on.                                                                     *)
LEMMA LineEffect ==
  ASSUME ParserOK(parser)
  PROVE  \/ Line.status \in {"LINE_OPEN", "LINE_BAD"} /\ Line.parser = [parser EXCEPT !.checked_idx = Stop]
         \/ /\ Line.status = "LINE_OK"
            /\ \E cr \in Nat : /\ parser.checked_idx <= cr + 2 /\ cr + 2 <= Len(parser.read_buf)
                               /\ Line.parser = [parser EXCEPT !.checked_idx = cr + 2,
                                                               !.read_buf[cr + 1] = "NUL",
                                                               !.read_buf[cr + 2] = "NUL"]
<1> DEFINE size == Len(parser.read_buf)
<1>1. size \in Nat /\ parser.checked_idx \in Nat
  BY LenProperties DEF ParserOK, ParserType
<1>2. Stop \in parser.checked_idx .. size
  BY StopExists
<1> HIDE DEF size
<1>3. Stop \in Nat /\ parser.checked_idx <= Stop /\ Stop <= size
  BY <1>1, <1>2
<1>4. CASE Line = After("LINE_OPEN", Stop) \/ Line = After("LINE_BAD", Stop)
  <2>1. ASSUME NEW status \in {"LINE_OPEN", "LINE_BAD"}, Line = After(status, Stop)
        PROVE  Line.status = status /\ Line.parser = [parser EXCEPT !.checked_idx = Stop]
    <3>1. status # "LINE_OK"
      OBVIOUS
    <3>2. After(status, Stop) = [status |-> status, parser |-> [parser EXCEPT !.checked_idx = Stop]]
      BY <3>1, Zenon DEF After
    <3>3. QED
      BY <2>1, <3>2
  <2>2. QED
    BY <1>4, <2>1
<1>5. ASSUME NEW cr \in Nat, Line = After("LINE_OK", cr), parser.checked_idx <= cr + 2, cr + 2 <= size
      PROVE  /\ Line.status = "LINE_OK"
             /\ \E c \in Nat : /\ parser.checked_idx <= c + 2 /\ c + 2 <= Len(parser.read_buf)
                               /\ Line.parser = [parser EXCEPT !.checked_idx = c + 2,
                                                               !.read_buf[c + 1] = "NUL",
                                                               !.read_buf[c + 2] = "NUL"]
  BY <1>5 DEF After, size
<1>6. CASE Line = After("LINE_OK", Stop - 1) /\ Stop # size /\ Stop > 1
  <2>1. Stop - 1 \in Nat /\ parser.checked_idx <= (Stop - 1) + 2 /\ (Stop - 1) + 2 <= size
    BY <1>1, <1>3, <1>6
  <2>2. QED
    BY <1>5, <1>6, <2>1
<1>7. CASE Line = After("LINE_OK", Stop) /\ Stop # size /\ Stop + 1 # size
  <2>1. parser.checked_idx <= Stop + 2 /\ Stop + 2 <= size
    BY <1>1, <1>3, <1>7
  <2>2. QED
    BY <1>3, <1>5, <1>7, <2>1
<1>8. QED
  BY <1>4, <1>6, <1>7, LineCases DEF size

(* parse_line() keeps the parser inside its buffer, and so does get_line() *)
(* with the next start.                                                    *)
LEMMA LineOK ==
  ASSUME ParserOK(parser)
  PROVE  /\ Line.status \in {"LINE_OK", "LINE_OPEN", "LINE_BAD"}
         /\ ParserOK(Line.parser) /\ ParserOK(Advanced)
         /\ Line.parser.start_line = parser.start_line
<1> DEFINE b == parser.read_buf
<1>1. PICK length : parser \in ParserType(length)
  BY DEF ParserOK
<1>2. b \in Seq(Bytes) /\ Len(b) \in Nat /\ DOMAIN b = 1 .. Len(b)
  BY <1>1, LenProperties DEF ParserType
<1>3. parser.start_line \in Nat /\ parser.checked_idx \in Nat /\ BufferSize \in Nat
      /\ IndicesOK(parser)
  BY <1>1, HttpAssumption DEF ParserType, ParserOK
<1>4. ASSUME NEW i \in Nat, NEW c \in Seq(Bytes), parser.checked_idx <= i, i <= Len(c), Len(c) = Len(b),
             NEW p, p = [parser EXCEPT !.checked_idx = i, !.read_buf = c]
      PROVE  /\ ParserOK(p) /\ ParserOK([p EXCEPT !.start_line = p.checked_idx])
             /\ p.start_line = parser.start_line
  <2>1. p \in ParserType(length) /\ [p EXCEPT !.start_line = p.checked_idx] \in ParserType(length)
    BY <1>1, <1>4 DEF ParserType
  <2>2. /\ p.checked_idx = i /\ p.read_buf = c /\ p.start_line = parser.start_line
        /\ [p EXCEPT !.start_line = p.checked_idx].checked_idx = i
        /\ [p EXCEPT !.start_line = p.checked_idx].start_line = i
        /\ [p EXCEPT !.start_line = p.checked_idx].read_buf = c
    BY <1>1, <1>4 DEF ParserType
  <2>3. IndicesOK(p) /\ IndicesOK([p EXCEPT !.start_line = p.checked_idx])
    BY <1>2, <1>3, <1>4, <2>2 DEF IndicesOK
  <2>4. QED
    BY <2>1, <2>2, <2>3 DEF ParserOK
<1>5. CASE Line.status \in {"LINE_OPEN", "LINE_BAD"} /\ Line.parser = [parser EXCEPT !.checked_idx = Stop]
  <2>1. Stop \in Nat /\ parser.checked_idx <= Stop /\ Stop <= Len(b)
    BY <1>2, <1>3, StopExists
  <2>2. Line.parser = [parser EXCEPT !.checked_idx = Stop, !.read_buf = b]
    BY <1>1, <1>5 DEF ParserType
  <2>3. ParserOK(Line.parser) /\ Line.parser.start_line = parser.start_line
        /\ ParserOK([Line.parser EXCEPT !.start_line = Line.parser.checked_idx])
    BY <1>2, <1>4, <2>1, <2>2, ZenonT(60)
  <2>4. QED
    BY <1>5, <2>3 DEF Advanced
<1>6. CASE /\ Line.status = "LINE_OK"
           /\ \E cr \in Nat : /\ parser.checked_idx <= cr + 2 /\ cr + 2 <= Len(parser.read_buf)
                              /\ Line.parser = [parser EXCEPT !.checked_idx = cr + 2,
                                                              !.read_buf[cr + 1] = "NUL",
                                                              !.read_buf[cr + 2] = "NUL"]
  <2>1. PICK cr \in Nat : /\ parser.checked_idx <= cr + 2 /\ cr + 2 <= Len(b)
                          /\ Line.parser = [parser EXCEPT !.checked_idx = cr + 2,
                                                          !.read_buf[cr + 1] = "NUL",
                                                          !.read_buf[cr + 2] = "NUL"]
    BY <1>6
  <2>a. parser.checked_idx <= cr + 2 /\ cr + 2 <= Len(b)
    BY <2>1
  <2> DEFINE c == [[b EXCEPT ![cr + 1] = "NUL"] EXCEPT ![cr + 2] = "NUL"]
  <2>2. Line.parser = [parser EXCEPT !.checked_idx = cr + 2, !.read_buf = c]
    BY <1>1, <2>1 DEF ParserType
  <2>3. c \in Seq(Bytes) /\ Len(c) = Len(b)
    <3>1. \A f \in Seq(Bytes) : DOMAIN f = 1 .. Len(f) => f \in [1 .. Len(f) -> Bytes]
      OBVIOUS
    <3>2. b \in [1 .. Len(b) -> Bytes]
      BY <1>2, <3>1
    <3> HIDE DEF b
    <3>3. c \in [1 .. Len(b) -> Bytes]
      <4>1. \A S, T : \A f \in [S -> T], x \in S, v \in T : [f EXCEPT ![x] = v] \in [S -> T]
        OBVIOUS
      <4>2. "NUL" \in Bytes /\ cr + 1 \in 1 .. Len(b) /\ cr + 2 \in 1 .. Len(b)
        <5>1. "NUL" \in Bytes
          BY DEF Bytes
        <5>2. Len(b) \in Nat /\ cr + 2 <= Len(b)
          BY <1>2, <2>a
        <5>3. cr + 1 \in 1 .. Len(b) /\ cr + 2 \in 1 .. Len(b)
          BY <5>2
        <5>4. QED
          BY <5>1, <5>3
      <4>3. [b EXCEPT ![cr + 1] = "NUL"] \in [1 .. Len(b) -> Bytes]
        BY <3>2, <4>1, <4>2, Zenon
      <4>4. QED
        BY <4>1, <4>2, <4>3, Zenon
    <3>4. \A n \in Nat : \A f \in [1 .. n -> Bytes] : f \in Seq(Bytes) /\ Len(f) = n
      OBVIOUS
    <3> HIDE DEF c
    <3>5. QED
      BY <1>2, <3>3, <3>4
  <2>4. cr + 2 \in Nat
    OBVIOUS
  <2> HIDE DEF c, b
  <2>5. ParserOK(Line.parser) /\ Line.parser.start_line = parser.start_line
        /\ ParserOK([Line.parser EXCEPT !.start_line = Line.parser.checked_idx])
    BY <1>4, <2>a, <2>2, <2>3, <2>4, Zenon
  <2>6. QED
    BY <1>6, <2>5 DEF Advanced
<1>7. QED
  BY <1>5, <1>6, LineEffect

-------------------------------------------------------------------------------
(* Every step keeps the shape of the state                                 *)

(* A parser without a byte is inside its buffer. *)
LEMMA FreshParser ==
  ASSUME NEW mode \in TRIGModes
  PROVE  ParserOK(Parser(mode))
<1>1. Parser(mode) \in ParserType(0)
  BY DEF Parser, ParserType
<1>2. IndicesOK(Parser(mode))
  BY HttpAssumption DEF IndicesOK, Parser
<1>3. QED
  BY <1>1, <1>2 DEF ParserOK

(* init() keeps m_TRIGMode. *)
LEMMA ResetOK == ParserOK(parser) => ParserOK(Reset)
<1>1. ParserOK(parser) => parser.TRIGMode \in TRIGModes
  BY DEF ParserOK, ParserType
<1>2. QED
  BY <1>1, FreshParser DEF Reset

(* What parse_request_line() and parse_headers() set besides the indices.  *)
LEMMA MembersOK ==
  ASSUME NEW p, ParserOK(p)
  PROVE  /\ ParserOK([p EXCEPT !.linger = TRUE])
         /\ \A length : ParserOK([p EXCEPT !.content_length = length])
         /\ ParserOK([p EXCEPT !.check_state = "CHECK_STATE_CONTENT"])
         /\ \A a \in Addresses :
               /\ ParserOK([p EXCEPT !.check_state = "CHECK_STATE_HEADER", !.url = a, !.cgi = 1])
               /\ ParserOK([p EXCEPT !.check_state = "CHECK_STATE_HEADER", !.url = a, !.cgi = p.cgi])
<1>1. PICK length : p \in ParserType(length)
  BY DEF ParserOK
<1>2. IndicesOK(p)
  BY DEF ParserOK
<1>3. ParserOK([p EXCEPT !.linger = TRUE])
  <2>1. [p EXCEPT !.linger = TRUE] \in ParserType(length) /\ IndicesOK([p EXCEPT !.linger = TRUE])
    BY <1>1, <1>2 DEF ParserType, IndicesOK
  <2>2. QED
    BY <2>1 DEF ParserOK
<1>4. ASSUME NEW l PROVE ParserOK([p EXCEPT !.content_length = l])
  <2>1. [p EXCEPT !.content_length = l] \in ParserType(l) /\ IndicesOK([p EXCEPT !.content_length = l])
    BY <1>1, <1>2 DEF ParserType, IndicesOK
  <2>2. QED
    BY <2>1 DEF ParserOK
<1>5. ParserOK([p EXCEPT !.check_state = "CHECK_STATE_CONTENT"])
  <2>1. /\ [p EXCEPT !.check_state = "CHECK_STATE_CONTENT"] \in ParserType(length)
        /\ IndicesOK([p EXCEPT !.check_state = "CHECK_STATE_CONTENT"])
    BY <1>1, <1>2 DEF ParserType, IndicesOK
  <2>2. QED
    BY <2>1 DEF ParserOK
<1>6. ASSUME NEW a \in Addresses, NEW c \in {0, 1}
      PROVE  ParserOK([p EXCEPT !.check_state = "CHECK_STATE_HEADER", !.url = a, !.cgi = c])
  <2> DEFINE q == [p EXCEPT !.check_state = "CHECK_STATE_HEADER", !.url = a, !.cgi = c]
  <2>1. q \in ParserType(length) /\ IndicesOK(q)
    BY <1>1, <1>2 DEF ParserType, IndicesOK
  <2>2. QED
    BY <2>1 DEF ParserOK
<1>7. p.cgi \in {0, 1}
  BY <1>1 DEF ParserType
<1>8. QED
  BY <1>3, <1>4, <1>5, <1>6, <1>7

(* What clients send goes into the buffer. *)
LEMMA TextsAreBytes ==
  /\ \A s \in Seq(STRING) : s \in Seq(Bytes)
  /\ <<>> \in Seq(Bytes)
  /\ \A r \in Requests \cup {NoText} : r.text \in Seq(Bytes)
<1>1. \A s \in Seq(STRING) : s \in Seq(Bytes)
  BY SeqMonotonic DEF Bytes
<1>2. <<>> \in Seq(Bytes)
  OBVIOUS
<1>3. \A r \in Requests : r.text \in Seq(Bytes)
  BY <1>1, HttpAssumption
<1>4. NoText.text \in Seq(Bytes)
  BY <1>2 DEF NoText
<1>5. QED
  BY <1>1, <1>2, <1>3, <1>4

(* read() appends to the buffer what there is room for. *)
LEMMA ReadOK ==
  ASSUME ParserOK(parser), wire \in Seq(Bytes), NEW k \in 1 .. Len(wire), k <= Space
  PROVE  /\ ParserOK([parser EXCEPT !.read_buf = @ \o SubSeq(wire, 1, k)])
         /\ SubSeq(wire, k + 1, Len(wire)) \in Seq(Bytes)
<1> DEFINE b == parser.read_buf \o SubSeq(wire, 1, k)
           p == [parser EXCEPT !.read_buf = b]
<1>1. PICK length : parser \in ParserType(length)
  BY DEF ParserOK
<1>2. parser.read_buf \in Seq(Bytes) /\ IndicesOK(parser) /\ BufferSize \in Nat
      /\ parser.checked_idx \in Nat /\ parser.start_line \in Nat
  BY <1>1, HttpAssumption DEF ParserOK, ParserType
<1>a. Len(wire) \in Nat /\ \A i \in 1 .. Len(wire) : wire[i] \in Bytes
  BY ElementOfSeq, LenProperties
<1>3. SubSeq(wire, 1, k) \in Seq(Bytes) /\ Len(SubSeq(wire, 1, k)) = k
  <2>1. 1 \in Int /\ k \in Int /\ (1 <= k) /\ k - 1 + 1 = k /\ \A i \in 1 .. k : i \in 1 .. Len(wire)
    BY <1>a
  <2>2. QED
    BY <1>a, <2>1, SubSeqProperties
<1>4. b \in Seq(Bytes) /\ Len(b) = Len(parser.read_buf) + k
  BY <1>2, <1>3, ConcatProperties
<1>5. Len(parser.read_buf) \in Nat /\ k \in Nat
  BY <1>2, LenProperties
<1>6. Len(b) <= BufferSize /\ Len(parser.read_buf) <= Len(b)
  BY <1>2, <1>4, <1>5 DEF Space
<1>7. SubSeq(wire, k + 1, Len(wire)) \in Seq(Bytes)
  <2>1. k + 1 \in Int /\ Len(wire) \in Int /\ \A i \in k + 1 .. Len(wire) : i \in 1 .. Len(wire)
    BY <1>a
  <2>2. QED
    BY <1>a, <2>1, SubSeqProperties
<1> HIDE DEF b
<1>8. p \in ParserType(length)
  BY <1>1, <1>4 DEF ParserType
<1>9. p.read_buf = b /\ p.checked_idx = parser.checked_idx /\ p.start_line = parser.start_line
  BY <1>1 DEF ParserType
<1>10. IndicesOK(p)
  BY <1>2, <1>5, <1>4, <1>6, <1>9 DEF IndicesOK
<1>11. QED
  BY <1>7, <1>8, <1>10 DEF ParserOK, b

(* process_write() and the loop of write() keep the types of the members,  *)
(* whatever writev() takes.                                                *)
LEMMA OutputIsFresh == Output \in OutputType
  BY DEF Output, OutputType, NoBlock

(* The loop of write() keeps the types, whatever writev() takes. *)
LEMMA MovedOK ==
  ASSUME OutputOK, NEW have \in Nat, NEW rest \in Nat
  PROVE  Moved(have, rest) \in OutputType
<1>1. output.head.len \in Nat /\ output.write_idx \in Nat /\ output.head.base \in Nat
  BY DEF OutputOK, OutputType
<1>2. have - output.write_idx \in Int
  BY <1>1
<1>3. ~(have >= output.head.len) => output.head.len - have \in Nat
  BY <1>1
<1>4. QED
  BY <1>1, <1>2, <1>3 DEF OutputOK, OutputType, Moved

(* An http_conn object that was not used yet. *)
LEMMA ShapeInit == Init => Shape
<1> SUFFICES ASSUME Init PROVE Shape
  OBVIOUS
<1>1. ParserOK(parser)
  BY FreshParser DEF Init
<1>2. OutputOK
  BY OutputIsFresh DEF Init, OutputOK
<1>3. QED
  BY <1>1, <1>2, TextsAreBytes DEF Init, Shape, Codes

(* The connection is new, used again or closed.                            *)
LEMMA ShapeClosed ==
  ASSUME Shape, pc' = "closed", wire' = <<>>, meant' = NoText,
         UNCHANGED <<parser, line_status, code, output>>
  PROVE  Shape'
  BY TextsAreBytes DEF Shape, ParserOK, IndicesOK, OutputOK

(* The connection is kept, with a fresh object. *)
LEMMA ShapeReset ==
  ASSUME Shape, pc' = "in", wire' = <<>>, meant' = NoText, parser' = Reset, output' = Output,
         UNCHANGED <<line_status, code>>
  PROVE  Shape'
<1>1. ParserOK(parser)' 
  BY ResetOK DEF Shape, ParserOK, IndicesOK
<1>2. OutputOK'
  BY OutputIsFresh DEF OutputOK
<1>3. QED
  BY <1>1, <1>2, TextsAreBytes DEF Shape

(* process_read() changes the parser, and none of the bytes on the wire. *)
LEMMA ShapeParse ==
  ASSUME Shape, ParserOK(parser'), pc' \in {"in", "parse", "answer"},
         line_status' \in {"LINE_OK", "LINE_OPEN", "LINE_BAD"}, code' \in Codes,
         UNCHANGED <<wire, meant, output>>
  PROVE  Shape'
<1>1. ParserOK(parser)'
  BY DEF ParserOK, IndicesOK
<1>2. OutputOK'
  BY DEF Shape, OutputOK
<1>3. QED
  BY <1>1, <1>2 DEF Shape

(* process_write() and write() change none of what the parser has. *)
LEMMA ShapeWrite ==
  ASSUME Shape, OutputOK', pc' \in {"out", "ended"},
         UNCHANGED <<wire, meant, parser, line_status, code>>
  PROVE  Shape'
<1>1. ParserOK(parser)'
  BY DEF Shape, ParserOK, IndicesOK
<1>2. QED
  BY <1>1 DEF Shape

(* Every step keeps the shape. *)
LEMMA ShapeStep == Shape /\ [Next]_vars => Shape'
<1> SUFFICES ASSUME Shape, [Next]_vars PROVE Shape'
  OBVIOUS
<1> USE DEF histories
<1>0. ParserOK(parser) /\ ParserOK(Line.parser) /\ ParserOK(Advanced)
      /\ Line.status \in {"LINE_OK", "LINE_OPEN", "LINE_BAD"}
  BY LineOK DEF Shape
<1>1. CASE UNCHANGED vars
  BY <1>1 DEF Shape, ParserOK, IndicesOK, OutputOK, vars
<1>2. CASE Connect
  BY <1>2, ShapeReset DEF Connect
<1>3. CASE HangUp \/ ReadFails \/ ProcessWriteFails
  BY <1>3, ShapeClosed DEF HangUp, ReadFails, ProcessWriteFails, CloseConn, Closed
<1>4. ASSUME NEW r \in Requests, Send(r) PROVE Shape'
  <2>1. wire' \in Seq(Bytes) /\ meant' \in Requests
    BY <1>4, TextsAreBytes DEF Send
  <2>2. ParserOK(parser)' /\ OutputOK'
    BY <1>4 DEF Send, Shape, ParserOK, IndicesOK, OutputOK
  <2>3. QED
    BY <1>4, <2>1, <2>2 DEF Send, Shape
<1>5. ASSUME NEW k \in 1 .. Len(wire), Read(k) PROVE Shape'
  <2>1. ParserOK(parser') /\ wire' \in Seq(Bytes)
    BY <1>0, <1>5, ReadOK DEF Read, Shape
  <2>2. ParserOK(parser)' /\ OutputOK'
    BY <1>5, <2>1 DEF Read, Shape, ParserOK, IndicesOK, OutputOK
  <2>3. QED
    BY <1>5, <2>1, <2>2 DEF Read, Shape
<1>6. CASE ParseRequestLine
  <2> DEFINE good == \E method \in {"GET", "POST"}, a \in Addresses : Text = <<method, a>>
  <2>1. good => Text[2] \in Addresses
    BY Zenon, SMT
  <2> HIDE DEF good
  <2>2. parser' = IF good THEN [Advanced EXCEPT !.check_state = "CHECK_STATE_HEADER", !.url = Text[2],
                                                !.cgi = IF Text[1] = "POST" THEN 1 ELSE Advanced.cgi]
                          ELSE Advanced
    BY <1>6 DEF ParseRequestLine, good
  <2>3. ParserOK(parser')
    BY <1>0, <2>1, <2>2, MembersOK
  <2>4. /\ pc' \in {"parse", "answer"} /\ code' \in Codes
        /\ line_status' = "LINE_OK" /\ UNCHANGED <<wire, meant, output>>
    BY <1>6 DEF ParseRequestLine, TakeLine, Codes
  <2>5. QED
    BY <2>3, <2>4, ShapeParse
<1>7. CASE ParseHeader
  <2>1. ParserOK(parser')
    BY <1>0, <1>7, MembersOK DEF ParseHeader
  <2>2. QED
    BY <1>7, <2>1, ShapeParse DEF ParseHeader, TakeLine, Shape
<1>8. CASE ParseEmptyLine
  <2>1. ParserOK(parser')
    BY <1>0, <1>8, MembersOK DEF ParseEmptyLine
  <2>2. QED
    BY <1>8, <2>1, ShapeParse DEF ParseEmptyLine, TakeLine, Shape, Codes
<1>9. CASE ParseContent
  <2> DEFINE p == IF line_status = "LINE_OK" THEN parser ELSE Line.parser
  <2>1. ParserOK(p)
    BY <1>0
  <2>2. parser' = [p EXCEPT !.start_line = p.checked_idx]
    BY <1>9 DEF ParseContent
  <2> HIDE DEF p
  <2>3. PICK length : p \in ParserType(length)
    BY <2>1 DEF ParserOK
  <2>4. parser' \in ParserType(length) /\ IndicesOK(parser')
    <3>1. IndicesOK(p) /\ p.read_buf \in Seq(Bytes) /\ p.checked_idx \in Nat
      BY <2>1, <2>3 DEF ParserOK, ParserType
    <3>2. parser' \in ParserType(length) /\ parser'.checked_idx = p.checked_idx
          /\ parser'.start_line = p.checked_idx /\ parser'.read_buf = p.read_buf
      BY <2>2, <2>3 DEF ParserType
    <3>3. QED
      BY <3>1, <3>2 DEF IndicesOK
  <2>5. ParserOK(parser')
    BY <2>4 DEF ParserOK
  <2>6. /\ pc' \in {"parse", "answer"} /\ code' \in Codes
        /\ line_status' \in {"LINE_OK", "LINE_OPEN", "LINE_BAD"} /\ UNCHANGED <<wire, meant, output>>
    BY <1>9 DEF ParseContent, Codes, Shape
  <2>7. QED
    BY <2>5, <2>6, ShapeParse
<1>10. CASE Incomplete
  BY <1>0, <1>10, ShapeParse DEF Incomplete, Codes
<1>11. CASE RegisterNew \/ StringIsLost
  BY <1>11, ShapeWrite DEF RegisterNew, StringIsLost, Shape, OutputOK
<1>12. CASE ProcessWrite
  <2>1. ASSUME NEW length \in Nat, NEW blocks \in {1, 2}
        PROVE  [output EXCEPT !.write_idx = length, !.iv_count = blocks,
                              !.to_send = IF blocks = 2 THEN length + FileLength ELSE length,
                              !.head = [base |-> 0, len |-> length],
                              !.file = IF blocks = 2 THEN [base |-> 0, len |-> FileLength] ELSE @]
                 \in OutputType
    <3>1. ASSUME NEW rest \in Nat, NEW head \in [base : Nat, len : Nat], NEW file \in [base : Int, len : Nat]
          PROVE  [output EXCEPT !.write_idx = length, !.iv_count = blocks, !.to_send = rest,
                                !.head = head, !.file = file]
                   \in OutputType
      <4>1. blocks \in 0 .. 2
        OBVIOUS
      <4>2. \A S, T, U : \A o \in [write_idx : Nat, to_send : Nat, have_send : Nat, iv_count : S, head : T, file : U] :
              /\ \A w \in Nat : [o EXCEPT !.write_idx = w] \in [write_idx : Nat, to_send : Nat, have_send : Nat, iv_count : S, head : T, file : U]
              /\ \A b \in S : [o EXCEPT !.iv_count = b] \in [write_idx : Nat, to_send : Nat, have_send : Nat, iv_count : S, head : T, file : U]
              /\ \A r \in Nat : [o EXCEPT !.to_send = r] \in [write_idx : Nat, to_send : Nat, have_send : Nat, iv_count : S, head : T, file : U]
              /\ \A h \in T : [o EXCEPT !.head = h] \in [write_idx : Nat, to_send : Nat, have_send : Nat, iv_count : S, head : T, file : U]
              /\ \A f \in U : [o EXCEPT !.file = f] \in [write_idx : Nat, to_send : Nat, have_send : Nat, iv_count : S, head : T, file : U]
        OBVIOUS
      <4>3. OutputOK
        BY DEF Shape
      <4>4. QED
        BY <4>1, <4>2, <4>3, Zenon DEF OutputOK, OutputType
    <3>2. length + FileLength \in Nat /\ FileLength \in Nat
      BY HttpAssumption
    <3>3. (IF blocks = 2 THEN length + FileLength ELSE length) \in Nat
      BY <3>2
    <3>4. [base |-> 0, len |-> length] \in [base : Nat, len : Nat]
      OBVIOUS
    <3>5. (IF blocks = 2 THEN [base |-> 0, len |-> FileLength] ELSE output.file) \in [base : Int, len : Nat]
      BY <3>2 DEF Shape, OutputOK, OutputType
    <3>6. QED
      BY <3>1, <3>3, <3>4, <3>5, Zenon
  <2>2. OutputOK'
    <3>1. PICK file \in Files :
             LET length == IF Result(file) = "FILE__REQUEST" THEN HeaderLength
                           ELSE HeaderLength + ErrorLength
                 blocks == IF Result(file) = "FILE__REQUEST" THEN 2 ELSE 1
             IN  output' = [output EXCEPT
                     !.write_idx = length, !.iv_count = blocks,
                     !.to_send = IF blocks = 2 THEN length + FileLength ELSE length,
                     !.head = [base |-> 0, len |-> length],
                     !.file = IF blocks = 2 THEN [base |-> 0, len |-> FileLength] ELSE @]
      BY <1>12, Zenon DEF ProcessWrite
    <3> DEFINE length == IF Result(file) = "FILE__REQUEST" THEN HeaderLength
                         ELSE HeaderLength + ErrorLength
               blocks == IF Result(file) = "FILE__REQUEST" THEN 2 ELSE 1
    <3>2. length \in Nat /\ blocks \in {1, 2}
      BY HttpAssumption
    <3> HIDE DEF length, blocks
    <3>3. output' = [output EXCEPT
                     !.write_idx = length, !.iv_count = blocks,
                     !.to_send = IF blocks = 2 THEN length + FileLength ELSE length,
                     !.head = [base |-> 0, len |-> length],
                     !.file = IF blocks = 2 THEN [base |-> 0, len |-> FileLength] ELSE @]
      BY <3>1 DEF length, blocks
    <3>4. QED
      BY <2>1, <3>2, <3>3 DEF OutputOK
  <2>3. QED
    BY <1>12, <2>2, ShapeWrite DEF ProcessWrite
<1>13. ASSUME NEW n \in WriteSizes, WritevPart(n) PROVE Shape'
  <2>1. n \in Nat
    BY DEF WriteSizes
  <2>2. output.have_send + n \in Nat /\ output.to_send - n \in Nat
    BY <1>13, <2>1 DEF WritevPart, Shape, OutputOK, OutputType
  <2>3. output' = Moved(output.have_send + n, output.to_send - n)
    BY <1>13 DEF WritevPart
  <2>4. OutputOK'
    BY <2>2, <2>3, MovedOK DEF Shape, OutputOK
  <2>5. QED
    BY <1>13, <2>4, ShapeWrite DEF WritevPart
<1>14. ASSUME NEW n \in WriteSizes, WritevAll(n) PROVE Shape'
  BY <1>14, ShapeReset, ShapeClosed DEF WritevAll, CloseConn, Closed
<1>15. QED
  BY <1>1, <1>2, <1>3, <1>4, <1>5, <1>6, <1>7, <1>8, <1>9, <1>10, <1>11, <1>12, <1>13, <1>14
     DEF Next, Work

(* Whatever clients send and wherever the network cuts it, the read buffer *)
(* never holds more than READ_BUFFER_SIZE bytes, and m_start_line <=       *)
(* m_checked_idx <= m_read_idx: process_read() looks at no byte that was   *)
(* not read.                                                               *)
THEOREM TypesAreKept == Spec => []TypeOK
<1>1. Spec => []Shape
  BY ShapeInit, ShapeStep, PTL DEF Spec, SafeSpec
<1>2. QED
  BY <1>1, ShapeIsTyped, PTL

-------------------------------------------------------------------------------
(* write() sends the answer, each byte once                                *)

(* n positions of the answer, those behind the first a. *)
Positions(a, n) == [i \in 1 .. n |-> a + i]

(* A block is a sequence of its length. *)
LEMMA PositionsType ==
  ASSUME NEW a \in Nat, NEW n \in Nat
  PROVE  Positions(a, n) \in Seq(Nat) /\ Len(Positions(a, n)) = n
<1>1. Positions(a, n) \in [1 .. n -> Nat]
  BY DEF Positions
<1>2. \A f \in [1 .. n -> Nat] : f \in Seq(Nat) /\ Len(f) = n
  OBVIOUS
<1>3. QED
  BY <1>1, <1>2

(* Adjacent blocks are one block. *)
LEMMA PositionsJoin ==
  ASSUME NEW a \in Nat, NEW m \in Nat, NEW n \in Nat
  PROVE  Positions(a, m) \o Positions(a + m, n) = Positions(a, m + n)
<1> DEFINE p == Positions(a, m)
           q == Positions(a + m, n)
           s == p \o q
           u == Positions(a, m + n)
<1>0. a + m \in Nat /\ m + n \in Nat
  OBVIOUS
<1>1. p \in Seq(Nat) /\ Len(p) = m /\ q \in Seq(Nat) /\ Len(q) = n /\ u \in Seq(Nat) /\ Len(u) = m + n
  BY <1>0, PositionsType
<1>2. s \in Seq(Nat) /\ Len(s) = m + n
      /\ \A i \in 1 .. m + n : s[i] = IF i <= m THEN p[i] ELSE q[i - m]
  <2> HIDE DEF p, q
  <2>1. QED
    BY <1>1, ConcatProperties
<1>3. ASSUME NEW i \in 1 .. m + n PROVE s[i] = u[i]
  <2>1. u[i] = a + i
    BY DEF Positions
  <2>2. CASE i <= m
    <3>1. i \in 1 .. m
      BY <2>2
    <3>2. p[i] = a + i
      BY <3>1 DEF Positions
    <3> HIDE DEF s, u, p, q
    <3>3. QED
      BY <1>2, <2>1, <2>2, <3>2
  <2>3. CASE ~(i <= m)
    <3>1. i - m \in 1 .. n
      BY <2>3
    <3>2. q[i - m] = (a + m) + (i - m)
      BY <3>1 DEF Positions
    <3>3. (a + m) + (i - m) = a + i
      OBVIOUS
    <3> HIDE DEF s, u, p, q
    <3>4. QED
      BY <1>2, <2>1, <2>3, <3>2, <3>3
  <2>4. QED
    BY <2>2, <2>3
<1> HIDE DEF s, u, p, q
<1>4. s = u
  BY <1>1, <1>2, <1>3, SeqEqual
<1>5. QED
  BY <1>4 DEF s, u, p, q

(* The first bytes of a block are a block. *)
LEMMA PositionsBegin ==
  ASSUME NEW a \in Nat, NEW m \in Nat, NEW n \in 0 .. m
  PROVE  SubSeq(Positions(a, m), 1, n) = Positions(a, n)
<1> DEFINE s == SubSeq(Positions(a, m), 1, n)
           u == Positions(a, n)
<1>1. n \in Nat /\ 1 \in Int /\ n \in Int /\ u \in Seq(Nat) /\ Len(u) = n
  BY PositionsType
<1>2. \A i \in 1 .. n : i \in 1 .. m /\ Positions(a, m)[i] = a + i /\ u[i] = a + i
  BY DEF Positions
<1>3. \A i \in 1 .. n : Positions(a, m)[i] \in Nat
  BY <1>2
<1> HIDE DEF u
<1>4. s \in Seq(Nat) /\ Len(s) = (IF 1 <= n THEN n - 1 + 1 ELSE 0)
      /\ \A i \in 1 .. n - 1 + 1 : s[i] = Positions(a, m)[1 + i - 1]
  BY <1>1, <1>3, SubSeqProperties
<1> HIDE DEF s
<1>5. Len(s) = n
  BY <1>1, <1>4
<1>6. \A i \in 1 .. n : 1 + i - 1 = i /\ i \in 1 .. n - 1 + 1
  BY <1>1
<1>7. \A i \in 1 .. n : s[i] = u[i]
  BY <1>2, <1>4, <1>6
<1>8. s = u
  BY <1>1, <1>4, <1>5, <1>7, SeqEqual
<1>9. QED
  BY <1>8 DEF s, u

(* What is true of the members that write() uses while it sends an answer  *)
(* of have_send + to_send bytes ...                                        *)
TotalOK ==
    /\ output.iv_count \in {1, 2} /\ output.to_send > 0 /\ output.write_idx > 0
    /\ output.iv_count = 1 => output.have_send + output.to_send = output.write_idx
    /\ output.iv_count = 2 => output.have_send + output.to_send > output.write_idx

(* ... before the first short write ...                                    *)
FileUntouched ==
    output.iv_count = 2 =>
        output.file = [base |-> 0, len |-> output.have_send + output.to_send - output.write_idx]

Untouched ==
    /\ cutsInHead = 0 /\ output.have_send = 0
    /\ output.head = [base |-> 0, len |-> output.write_idx]
    /\ FileUntouched

(* ... after one that ended inside m_write_buf ...                         *)
CutInHead ==
    /\ cutsInHead = 1 /\ 0 < output.have_send /\ output.have_send < output.write_idx
    /\ output.head = [base |-> output.have_send, len |-> output.write_idx - output.have_send]
    /\ FileUntouched

(* ... and after one that ended inside the file.                           *)
CutInFile ==
    /\ output.iv_count = 2 /\ output.have_send >= output.write_idx
    /\ output.head.len = 0
    /\ output.file = [base |-> output.have_send - output.write_idx, len |-> output.to_send]

(* The inductive invariant: the blocks of m_iv and what was sent.  Before  *)
(* there is an answer nothing was sent.                                    *)
Sends ==
    /\ cutsInHead \in Nat
    /\ pc \in {"in", "parse", "answer"} => sent = <<>> /\ cutsInHead = 0 /\ output.have_send = 0
    /\ pc = "out" =>
          /\ TotalOK
          /\ cutsInHead <= 1 => /\ sent = Positions(0, output.have_send)
                                /\ Untouched \/ CutInHead \/ CutInFile

(* What m_iv holds is the part of the answer that was not sent. *)
LEMMA UnsentIsTheRest ==
  ASSUME OutputOK, TotalOK, Untouched \/ CutInHead \/ CutInFile
  PROVE  Unsent = Positions(output.have_send, output.to_send)
<1> DEFINE w == output.write_idx
           have == output.have_send
           rest == output.to_send
<1>1. w \in Nat /\ have \in Nat /\ rest \in Nat /\ rest > 0 /\ w > 0
      /\ (output.iv_count = 1 => have + rest = w) /\ (output.iv_count = 2 => have + rest > w)
      /\ output.iv_count \in {1, 2}
  BY DEF OutputOK, OutputType, TotalOK
<1>2. HeadBlock = Positions(output.head.base, output.head.len)
  BY DEF HeadBlock, Positions
<1>3. CASE Untouched \/ CutInHead
  <2>1. /\ have < w /\ output.head.base = have /\ output.head.len = w - have /\ w - have \in Nat
        /\ output.iv_count = 2 => output.file = [base |-> 0, len |-> have + rest - w]
    <3>1. FileUntouched /\ \/ have = 0 /\ output.head.base = 0 /\ output.head.len = w
                           \/ have < w /\ output.head.base = have /\ output.head.len = w - have
      BY <1>3 DEF Untouched, CutInHead
    <3>2. w - 0 = w /\ (have < w => w - have \in Nat)
      BY <1>1
    <3>3. output.iv_count = 2 => output.file = [base |-> 0, len |-> have + rest - w]
      BY <3>1 DEF FileUntouched
    <3> HIDE DEF w, have, rest
    <3>4. QED
      BY <1>1, <3>1, <3>2, <3>3
  <2>2. HeadBlock = Positions(have, w - have)
    BY <1>2, <2>1
  <2>3. CASE output.iv_count = 1
    <3>1. Positions(have, w - have) \in Seq(Nat)
      BY <1>1, <2>1, PositionsType
    <3>2. Unsent = Positions(have, w - have)
      BY <2>2, <2>3, <3>1 DEF Unsent, FileBlock
    <3>3. w - have = rest
      BY <1>1, <2>3
    <3>4. QED
      BY <3>2, <3>3
  <2>4. CASE output.iv_count = 2
    <3>1. have + rest - w \in Nat /\ have + (w - have) = w /\ (w - have) + (have + rest - w) = rest
      BY <1>1, <2>4
    <3>2. output.file.base = 0 /\ output.file.len = have + rest - w
      BY <2>1, <2>4
    <3>3. FileBlock = Positions(w, have + rest - w)
      <4>1. \A i \in 1 .. have + rest - w : 0 + i > 0 /\ w + 0 + i = w + i
        BY <1>1, <3>1
      <4> HIDE DEF w, have, rest
      <4>2. FileBlock = [i \in 1 .. have + rest - w |-> IF 0 + i > 0 THEN w + 0 + i ELSE 0]
        BY <2>4, <3>2 DEF FileBlock, w
      <4>3. QED
        BY <4>1, <4>2 DEF Positions
    <3> HIDE DEF w, have, rest
    <3>4. Positions(have, w - have) \o Positions(have + (w - have), have + rest - w)
             = Positions(have, (w - have) + (have + rest - w))
      BY <1>1, <2>1, <3>1, PositionsJoin, ZenonT(60)
    <3>5. Unsent = Positions(have, rest)
      BY <2>2, <3>1, <3>3, <3>4 DEF Unsent
    <3>6. QED
      BY <3>5 DEF have, rest
  <2>5. QED
    BY <1>1, <2>3, <2>4
<1>4. CASE CutInFile
  <2>1. /\ output.head.len = 0 /\ output.file.base = have - w /\ output.file.len = rest
        /\ have >= w /\ output.iv_count = 2
    BY <1>4 DEF CutInFile
  <2>2. HeadBlock = <<>>
    BY <2>1 DEF HeadBlock
  <2>3. FileBlock = Positions(have, rest)
    <3>1. \A i \in 1 .. rest : (have - w) + i > 0 /\ w + (have - w) + i = have + i
      BY <1>1, <2>1
    <3> HIDE DEF w, have, rest
    <3>2. FileBlock = [i \in 1 .. rest |-> IF (have - w) + i > 0 THEN w + (have - w) + i ELSE 0]
      BY <2>1 DEF FileBlock, w
    <3>3. QED
      BY <3>1, <3>2 DEF Positions
  <2>4. Positions(have, rest) \in Seq(Nat)
    BY <1>1, PositionsType
  <2>5. QED
    BY <2>2, <2>3, <2>4 DEF Unsent
<1>5. QED
  BY <1>3, <1>4

(* What was sent and the rest are the answer. *)
LEMMA SendsMeansWhole ==
  ASSUME Shape, Sends
  PROVE  AnswerIsWhole
<1> SUFFICES ASSUME pc = "out", cutsInHead <= 1 PROVE sent \o Unsent = Answer
  BY DEF AnswerIsWhole
<1>1. /\ sent = Positions(0, output.have_send)
      /\ Unsent = Positions(output.have_send, output.to_send)
  BY UnsentIsTheRest DEF Sends, Shape
<1>2. output.have_send \in Nat /\ output.to_send \in Nat /\ 0 + output.have_send = output.have_send
  BY DEF Shape, OutputOK, OutputType
<1>3. sent \o Unsent = Positions(0, output.have_send + output.to_send)
  BY <1>1, <1>2, PositionsJoin, ZenonT(60)
<1>4. \A i \in 1 .. output.have_send + output.to_send : 0 + i = i
  BY <1>2
<1>5. Positions(0, output.have_send + output.to_send) = Answer
  BY <1>4 DEF Positions, Answer
<1>6. QED
  BY <1>3, <1>5

(* Only process_write(), write() and a fresh object matter to Sends. *)
LEMMA SendsSame ==
  ASSUME Sends, UNCHANGED <<output, sent, cutsInHead>>,
         \/ pc' = pc
         \/ pc' \in {"closed", "ended"}
         \/ pc \in {"in", "parse", "answer"} /\ pc' \in {"in", "parse", "answer"}
  PROVE  Sends'
  BY DEF Sends, TotalOK, Untouched, CutInHead, CutInFile, FileUntouched, Positions

(* A fresh object has sent nothing. *)
LEMMA SendsFresh ==
  ASSUME pc' = "in", sent' = <<>>, cutsInHead' = 0, output' = Output
  PROVE  Sends'
  BY DEF Sends, Output

(* process_write() prepares one block or two. *)
LEMMA SendsBegins ==
  ASSUME Shape, Sends, ProcessWrite
  PROVE  Sends'
<1>1. PICK length \in Nat \ {0}, blocks \in {1, 2}, rest \in Nat :
         /\ output'.write_idx = length /\ output'.iv_count = blocks /\ output'.to_send = rest
         /\ output'.have_send = output.have_send
         /\ output'.head = [base |-> 0, len |-> length]
         /\ blocks = 1 => rest = length
         /\ blocks = 2 => rest = length + FileLength /\ output'.file = [base |-> 0, len |-> FileLength]
  <2>1. PICK file \in Files :
           LET length == IF Result(file) = "FILE__REQUEST" THEN HeaderLength
                         ELSE HeaderLength + ErrorLength
               blocks == IF Result(file) = "FILE__REQUEST" THEN 2 ELSE 1
           IN  output' = [output EXCEPT
                   !.write_idx = length, !.iv_count = blocks,
                   !.to_send = IF blocks = 2 THEN length + FileLength ELSE length,
                   !.head = [base |-> 0, len |-> length],
                   !.file = IF blocks = 2 THEN [base |-> 0, len |-> FileLength] ELSE @]
    BY Zenon DEF ProcessWrite
  <2> DEFINE length == IF Result(file) = "FILE__REQUEST" THEN HeaderLength
                       ELSE HeaderLength + ErrorLength
             blocks == IF Result(file) = "FILE__REQUEST" THEN 2 ELSE 1
             rest == IF blocks = 2 THEN length + FileLength ELSE length
             last == IF blocks = 2 THEN [base |-> 0, len |-> FileLength] ELSE output.file
  <2>2. length \in Nat \ {0} /\ blocks \in {1, 2} /\ rest \in Nat
    BY HttpAssumption
  <2>3. output' = [output EXCEPT !.write_idx = length, !.iv_count = blocks, !.to_send = rest,
                                 !.head = [base |-> 0, len |-> length], !.file = last]
    BY <2>1
  <2>4. (blocks = 1 => rest = length)
        /\ (blocks = 2 => rest = length + FileLength /\ last = [base |-> 0, len |-> FileLength])
    OBVIOUS
  <2> HIDE DEF length, blocks, rest, last
  <2>5. /\ output'.write_idx = length /\ output'.iv_count = blocks /\ output'.to_send = rest
        /\ output'.have_send = output.have_send
        /\ output'.head = [base |-> 0, len |-> length] /\ output'.file = last
    BY <2>3 DEF Shape, OutputOK, OutputType
  <2>6. QED
    BY <2>2, <2>4, <2>5
<1>2. /\ sent = <<>> /\ cutsInHead = 0 /\ output.have_send = 0
      /\ pc' = "out" /\ UNCHANGED <<sent, cutsInHead>>
  BY DEF ProcessWrite, Requested, Sends, histories
<1>3. TotalOK'
  BY <1>1, <1>2, HttpAssumption DEF TotalOK
<1>4. FileUntouched'
  <2>1. blocks = 2 => 0 + rest - length = FileLength
    BY <1>1, HttpAssumption
  <2>2. QED
    BY <1>1, <1>2, <2>1 DEF FileUntouched
<1>5. Untouched'
  BY <1>1, <1>2, <1>4 DEF Untouched
<1>6. <<>> = Positions(0, 0)
  BY DEF Positions
<1>7. output'.have_send = 0
  BY <1>1, <1>2
<1>8. QED
  BY <1>2, <1>3, <1>5, <1>6, <1>7 DEF Sends

(* The members of http_conn after an iteration of the loop of write(). *)
LEMMA MovedFields ==
  ASSUME OutputOK, NEW have \in Nat, NEW rest \in Nat, NEW o, o = Moved(have, rest)
  PROVE  /\ o.have_send = have /\ o.to_send = rest
         /\ o.write_idx = output.write_idx /\ o.iv_count = output.iv_count
         /\ IF have >= output.head.len
            THEN /\ o.head.len = 0
                 /\ o.file = [base |-> have - output.write_idx, len |-> rest]
            ELSE /\ o.head = [base |-> have, len |-> output.head.len - have]
                 /\ o.file = output.file
<1>1. CASE have >= output.head.len
  BY <1>1 DEF OutputOK, OutputType, Moved
<1>2. CASE ~(have >= output.head.len)
  BY <1>2 DEF OutputOK, OutputType, Moved
<1>3. QED
  BY <1>1, <1>2

(* A writev() that takes n bytes of the answer, but not all. *)
LEMMA SendsGoesOn ==
  ASSUME Shape, Sends, NEW n \in WriteSizes, WritevPart(n)
  PROVE  Sends'
<1> DEFINE w == output.write_idx
           have == output.have_send
           rest == output.to_send
<1>1. /\ w \in Nat /\ have \in Nat /\ rest \in Nat /\ output.head.len \in Nat /\ n \in Nat
      /\ cutsInHead \in Nat /\ pc = "out" /\ TotalOK
  BY DEF Shape, Sends, OutputOK, OutputType, WriteSizes, WritevPart
<1>2. /\ pc' = "out" /\ rest - n > 0 /\ output' = Moved(have + n, rest - n)
      /\ sent' = sent \o SubSeq(Unsent, 1, n)
      /\ cutsInHead' = IF n > 0 /\ have + n < w THEN cutsInHead + 1 ELSE cutsInHead
  BY DEF WritevPart
<1>a. w + 0 = w /\ rest - n > 0
  BY <1>1, <1>2
<1>4. have + n + (rest - n) = have + rest /\ have + n \in Nat /\ rest - n \in Nat
  <2> HIDE DEF w, have, rest
  <2>1. QED
    BY <1>1, <1>a
<1>3. /\ output'.have_send = have + n /\ output'.to_send = rest - n
      /\ output'.write_idx = w /\ output'.iv_count = output.iv_count
      /\ IF have + n >= output.head.len
         THEN /\ output'.head.len = 0
              /\ output'.file = [base |-> (have + n) - w, len |-> rest - n]
         ELSE /\ output'.head = [base |-> have + n, len |-> output.head.len - (have + n)]
              /\ output'.file = output.file
  <2>1. OutputOK
    BY DEF Shape
  <2>2. output' = Moved(have + n, rest - n)
    BY <1>2
  <2> DEFINE x == have + n
             y == rest - n
  <2>3. x \in Nat /\ y \in Nat
    BY <1>4
  <2>4. output' = Moved(x, y)
    BY <2>2
  <2> HIDE DEF x, y
  <2>5. /\ output'.have_send = x /\ output'.to_send = y
        /\ output'.write_idx = w /\ output'.iv_count = output.iv_count
        /\ IF x >= output.head.len
           THEN /\ output'.head.len = 0
                /\ output'.file = [base |-> x - w, len |-> y]
           ELSE /\ output'.head = [base |-> x, len |-> output.head.len - x]
                /\ output'.file = output.file
    BY <2>1, <2>3, <2>4, MovedFields
  <2>6. QED
    BY <2>5, Zenon DEF x, y
<1>5. TotalOK'
  BY <1>1, <1>a, <1>3, <1>4 DEF TotalOK
<1>6. cutsInHead' \in Nat /\ cutsInHead <= cutsInHead'
  BY <1>1, <1>2
<1>9. have + n >= w /\ have + n >= output.head.len /\ output'.iv_count = 2 => CutInFile'
  <2> SUFFICES ASSUME have + n >= w, have + n >= output.head.len, output'.iv_count = 2 PROVE CutInFile'
    OBVIOUS
  <2>1. output'.head.len = 0 /\ output'.file = [base |-> (have + n) - w, len |-> rest - n]
    BY <1>3
  <2>2. output'.have_send = have + n /\ output'.to_send = rest - n /\ output'.write_idx = w
    BY <1>3
  <2> HIDE DEF have, rest, w
  <2>3. /\ output'.have_send >= output'.write_idx
        /\ output'.file = [base |-> output'.have_send - output'.write_idx, len |-> output'.to_send]
    BY <2>1, <2>2, Zenon
  <2>4. QED
    BY <2>1, <2>3, Zenon DEF CutInFile
<1>7. ASSUME cutsInHead' <= 1
      PROVE  sent' = Positions(0, output'.have_send) /\ (Untouched' \/ CutInHead' \/ CutInFile')
  <2>1. /\ cutsInHead <= 1 /\ sent = Positions(0, have)
        /\ Untouched \/ CutInHead \/ CutInFile
    BY <1>1, <1>6, <1>7 DEF Sends
  <2>2. Unsent = Positions(have, rest)
    BY <1>1, <2>1, UnsentIsTheRest DEF Shape
  <2>3. n \in 1 .. rest
    <3>1. Len(Unsent) = rest
      BY <1>1, <2>2, PositionsType
    <3>2. Unsent # <<>>
      BY <3>1, <1>1, <1>2
    <3>3. QED
      BY <3>1, <3>2, <1>1, <1>2 DEF WriteSizes
  <2>4. sent' = Positions(0, have + n)
    <3>1. SubSeq(Unsent, 1, n) = Positions(have, n)
      <4>1. n \in 0 .. rest
        BY <2>3
      <4>2. QED
        BY <1>1, <2>2, <4>1, PositionsBegin
    <3>2. 0 + have = have
      BY <1>1
    <3>3. Positions(0, have) \o Positions(0 + have, n) = Positions(0, have + n)
      BY <1>1, PositionsJoin, ZenonT(60)
    <3>4. QED
      BY <1>2, <2>1, <3>1, <3>2, <3>3
  <2>5. CASE Untouched \/ CutInHead
    <3>1. /\ FileUntouched /\ output.head.len <= w /\ have < w
          /\ Untouched => have = 0 /\ output.head.len = w /\ cutsInHead = 0
          /\ CutInHead => cutsInHead = 1
      BY <1>1, <2>5 DEF Untouched, CutInHead, TotalOK
    <3>2. CASE have + n < w
      <4>1. cutsInHead' = cutsInHead + 1
        BY <1>2, <2>3, <3>2
      <4>2. Untouched /\ have = 0 /\ output.head.len = w /\ cutsInHead' = 1
        BY <1>7, <2>5, <3>1, <4>1
      <4>3. output'.head = [base |-> have + n, len |-> w - (have + n)] /\ output'.file = output.file
        BY <1>1, <1>3, <3>2, <4>2
      <4>4. FileUntouched'
        <5>1. output'.iv_count = 2 => output'.file = [base |-> 0, len |-> have + rest - w]
          BY <1>3, <3>1, <4>3 DEF FileUntouched
        <5>2. output'.have_send + output'.to_send - output'.write_idx = have + rest - w
          <6>1. (have + n) + ((rest - n) - w) = have + (rest - w)
            <7> HIDE DEF have, rest, w
            <7>1. QED
              BY <1>1
          <6>2. QED
            BY <1>3, <6>1, Zenon
        <5> HIDE DEF have, rest, w
        <5>3. QED
          BY <1>3, <5>1, <5>2, Zenon DEF FileUntouched
      <4>5. 0 < have + n
        BY <1>1, <2>3
      <4>6. CutInHead'
        BY <1>3, <3>2, <4>2, <4>3, <4>4, <4>5 DEF CutInHead
      <4>7. QED
        BY <1>3, <2>4, <4>6
    <3>3. CASE ~(have + n < w)
      <4>1. have + n >= w /\ have + n >= output.head.len
        BY <1>1, <1>4, <3>1, <3>3
      <4>2. output'.iv_count = 2
        BY <1>1, <1>2, <1>3, <4>1 DEF TotalOK
      <4>3. CutInFile'
        BY <1>9, <4>1, <4>2
      <4>4. QED
        BY <1>3, <2>4, <4>3
    <3>4. QED
      BY <3>2, <3>3
  <2>6. CASE CutInFile
    <3>1. have >= w /\ output.head.len = 0 /\ output.iv_count = 2
      BY <2>6 DEF CutInFile
    <3>2. have + n >= output.head.len /\ have + n >= w
      BY <1>1, <3>1
    <3>3. CutInFile'
      BY <1>3, <1>9, <3>1, <3>2
    <3>4. QED
      BY <1>3, <2>4, <3>3
  <2>7. QED
    BY <2>1, <2>5, <2>6
<1>8. QED
  BY <1>2, <1>5, <1>6, <1>7 DEF Sends

(* Every step keeps the invariant. *)
LEMMA SendsStep == Shape /\ Sends /\ [Next]_vars => Sends'
<1> SUFFICES ASSUME Shape, Sends, [Next]_vars PROVE Sends'
  OBVIOUS
<1> USE DEF histories
<1>1. CASE UNCHANGED vars
  BY <1>1, SendsSame DEF vars
<1>2. CASE Connect
  BY <1>2, SendsFresh DEF Connect
<1>3. CASE HangUp \/ ReadFails \/ ProcessWriteFails
  BY <1>3, SendsSame DEF HangUp, ReadFails, ProcessWriteFails, CloseConn, Closed
<1>4. ASSUME NEW r \in Requests, Send(r) PROVE Sends'
  BY <1>4, SendsSame DEF Send
<1>5. ASSUME NEW k \in 1 .. Len(wire), Read(k) PROVE Sends'
  BY <1>5, SendsSame DEF Read
<1>6. CASE ParseRequestLine \/ ParseHeader \/ ParseEmptyLine
  BY <1>6, SendsSame DEF ParseRequestLine, ParseHeader, ParseEmptyLine, TakeLine
<1>7. CASE ParseContent
  BY <1>7, SendsSame DEF ParseContent
<1>8. CASE Incomplete
  BY <1>8, SendsSame DEF Incomplete
<1>9. CASE RegisterNew \/ StringIsLost
  BY <1>9, SendsSame DEF RegisterNew, StringIsLost
<1>10. CASE ProcessWrite
  BY <1>10, SendsBegins
<1>11. ASSUME NEW n \in WriteSizes, WritevPart(n) PROVE Sends'
  BY <1>11, SendsGoesOn
<1>12. ASSUME NEW n \in WriteSizes, WritevAll(n) PROVE Sends'
  BY <1>12, SendsFresh, SendsSame DEF WritevAll, CloseConn, Closed
<1>13. QED
  BY <1>1, <1>2, <1>3, <1>4, <1>5, <1>6, <1>7, <1>8, <1>9, <1>10, <1>11, <1>12 DEF Next, Work

(* However the network cuts the answer: what write() sent and what m_iv    *)
(* still holds are together the answer, unless two short writes ended      *)
(* inside m_write_buf.                                                     *)
THEOREM AnswersAreWhole == Spec => []AnswerIsWhole
<1>1. Init => Sends
  BY DEF Init, Sends
<1>2. Spec => [](Shape /\ Sends)
  BY <1>1, ShapeInit, ShapeStep, SendsStep, PTL DEF Spec, SafeSpec
<1>3. QED
  BY <1>2, SendsMeansWhole, PTL

-------------------------------------------------------------------------------
(* Lines of a text                                                         *)

(* A line ends in one place. *)
LEMMA LineIsUnique ==
  ASSUME NEW t, NEW s \in Nat, NEW e \in Nat, NEW f \in Nat, IsLine(t, s, e), IsLine(t, s, f)
  PROVE  e = f
<1>1. ASSUME NEW x \in Nat, NEW y \in Nat, IsLine(t, s, x), IsLine(t, s, y), x < y PROVE FALSE
  <2>1. x + 1 \in s + 1 .. y
    BY <1>1 DEF IsLine
  <2>2. QED
    BY <1>1, <2>1 DEF IsLine, NoEnd, EndsLine
<1>2. e < f \/ f < e \/ e = f
  OBVIOUS
<1>3. QED
  BY <1>1, <1>2

(* No line starts inside another one. *)
LEMMA NoStartInside ==
  ASSUME NEW t, NEW s \in Nat, NEW e \in Nat, StartsLine(t, s), IsLine(t, s, e),
         NEW u \in s + 1 .. e + 1, StartsLine(t, u)
  PROVE  FALSE
<1>1. u \in Nat /\ s < u /\ u < e + 2
  OBVIOUS
<1>2. u >= 2 /\ t[u - 1] = "CR"
  <2>1. u >= 2 /\ EndsLine(t, u - 2) /\ u - 2 + 1 = u - 1
    BY <1>1 DEF StartsLine
  <2>2. QED
    BY <2>1 DEF EndsLine
<1>3. CASE u - 1 = s
  <2>1. s >= 2 /\ EndsLine(t, s - 2) /\ s - 2 + 2 = s
    BY <1>2, <1>3 DEF StartsLine
  <2>2. t[s] = "LF"
    BY <2>1 DEF EndsLine
  <2>3. QED
    BY <1>2, <1>3, <2>2
<1>4. CASE u - 1 # s
  <2>1. u - 1 \in s + 1 .. e
    BY <1>1, <1>4
  <2>2. QED
    BY <1>2, <2>1 DEF IsLine, NoEnd
<1>5. QED
  BY <1>3, <1>4

(* The headers in front of the next line are those in front of this one,   *)
(* and this one.                                                           *)
LEMMA NoHeaderInside ==
  ASSUME NEW t, NEW s \in Nat, NEW e \in Nat, StartsLine(t, s), IsLine(t, s, e),
         NEW u \in s + 1 .. e + 1
  PROVE  ~KeepsAlive(t, u) /\ ~GivesLength(t, u) /\ ~EmptyLine(t, u)
<1>1. ~StartsLine(t, u)
  BY NoStartInside
<1>2. \A f : ~IsHeader(t, u, f)
  BY <1>1 DEF IsHeader
<1>3. QED
  BY <1>2 DEF KeepsAlive, GivesLength, EmptyLine

(* What a line is, told by its end. *)
LEMMA ThisHeader ==
  ASSUME NEW t, Len(t) \in Nat, NEW s \in Nat, NEW e \in Nat, s > 0, StartsLine(t, s), IsLine(t, s, e)
  PROVE  /\ KeepsAlive(t, s) <=> SubSeq(t, s + 1, e) = <<"Connection:", "keep-alive">>
         /\ GivesLength(t, s) <=> e = s + 2 /\ t[s + 1] = "Content-length:"
         /\ EmptyLine(t, s) <=> e = s
<1>1. e \in 0 .. Len(t)
  BY DEF IsLine, EndsLine
<1>2. IsHeader(t, s, e) /\ \A f \in Nat : IsHeader(t, s, f) => f = e
  BY LineIsUnique DEF IsHeader
<1>3. \A f \in 0 .. Len(t) : f \in Nat
  OBVIOUS
<1>4. KeepsAlive(t, s) <=> SubSeq(t, s + 1, e) = <<"Connection:", "keep-alive">>
  BY <1>1, <1>2, <1>3 DEF KeepsAlive
<1>5. GivesLength(t, s) <=> e = s + 2 /\ t[s + 1] = "Content-length:"
  BY <1>1, <1>2, <1>3 DEF GivesLength
<1>6. EmptyLine(t, s) <=> e = s
  BY <1>1, <1>2 DEF EmptyLine
<1>7. QED
  BY <1>4, <1>5, <1>6

(* What the headers say once this one is read. *)
LEMMA NextSays ==
  ASSUME NEW t, NEW s \in Nat, NEW e \in Nat, StartsLine(t, s), IsLine(t, s, e),
         NEW linger \in BOOLEAN, SaysLinger(t, s, linger), NEW length, SaysLength(t, s, length)
  PROVE  /\ KeepsAlive(t, s) => SaysLinger(t, e + 2, TRUE)
         /\ ~KeepsAlive(t, s) => SaysLinger(t, e + 2, linger)
         /\ GivesLength(t, s) => SaysLength(t, e + 2, Number[t[s + 2]])
         /\ ~GivesLength(t, s) => SaysLength(t, e + 2, length)
         /\ (\A i \in 0 .. s : ~EmptyLine(t, i)) => \A i \in 0 .. (e + 2) - 1 : ~EmptyLine(t, i)
<1>1. s <= e
  BY DEF IsLine
<1>2. \A i \in 0 .. (e + 2) - 1 : i \in 0 .. s - 1 \/ i = s \/ i \in s + 1 .. e + 1
  OBVIOUS
<1>3. /\ \A i \in 0 .. s - 1 : i \in 0 .. (e + 2) - 1
      /\ s \in 0 .. (e + 2) - 1
      /\ \A i \in s + 1 .. (e + 2) - 1 : i \in s + 1 .. e + 1
  BY <1>1
<1>4. \A u \in s + 1 .. e + 1 : ~KeepsAlive(t, u) /\ ~GivesLength(t, u) /\ ~EmptyLine(t, u)
  BY NoHeaderInside
<1>5. KeepsAlive(t, s) => SaysLinger(t, e + 2, TRUE)
  BY <1>3, Zenon DEF SaysLinger
<1>6. ~KeepsAlive(t, s) => SaysLinger(t, e + 2, linger)
  BY <1>2, <1>3, <1>4, Zenon DEF SaysLinger
<1>7. GivesLength(t, s) => SaysLength(t, e + 2, Number[t[s + 2]])
  BY <1>3, <1>4, Zenon DEF SaysLength
<1>8. ASSUME ~GivesLength(t, s) PROVE SaysLength(t, e + 2, length)
  <2>1. CASE length = 0 /\ \A i \in 0 .. s - 1 : ~GivesLength(t, i)
    BY <1>2, <1>4, <1>8, <2>1, Zenon DEF SaysLength
  <2>2. ASSUME NEW i \in 0 .. s - 1, GivesLength(t, i), length = Number[t[i + 2]],
               \A j \in i + 1 .. s - 1 : ~GivesLength(t, j)
        PROVE  SaysLength(t, e + 2, length)
    <3>1. \A j \in i + 1 .. (e + 2) - 1 : j \in i + 1 .. s - 1 \/ j = s \/ j \in s + 1 .. e + 1
      OBVIOUS
    <3>2. \A j \in i + 1 .. (e + 2) - 1 : ~GivesLength(t, j)
      BY <1>4, <1>8, <2>2, <3>1, Zenon
    <3>3. i \in 0 .. (e + 2) - 1
      BY <1>3
    <3>4. QED
      BY <2>2, <3>2, <3>3, Zenon DEF SaysLength
  <2>3. QED
    BY <2>1, <2>2, Zenon DEF SaysLength
<1>9. ASSUME \A i \in 0 .. s : ~EmptyLine(t, i), NEW i \in 0 .. (e + 2) - 1 PROVE ~EmptyLine(t, i)
  <2>1. (i \in 0 .. s - 1 \/ i = s) => i \in 0 .. s
    OBVIOUS
  <2>2. QED
    BY <1>2, <1>4, <1>9, <2>1, Zenon
<1>10. QED
  BY <1>5, <1>6, <1>7, <1>8, <1>9

(* The last Content-length says one thing. *)
LEMMA LengthIsUnique ==
  ASSUME NEW t, NEW n \in Nat, NEW c, NEW d, SaysLength(t, n, c), SaysLength(t, n, d)
  PROVE  c = d
<1>1. ASSUME NEW s \in 0 .. n - 1, NEW u \in 0 .. n - 1, GivesLength(t, s), GivesLength(t, u),
             \A i \in s + 1 .. n - 1 : ~GivesLength(t, i),
             \A i \in u + 1 .. n - 1 : ~GivesLength(t, i)
      PROVE  s = u
  <2>1. s = u \/ s \in u + 1 .. n - 1 \/ u \in s + 1 .. n - 1
    OBVIOUS
  <2>2. QED
    BY <1>1, <2>1
<1>2. QED
  BY <1>1, Zenon DEF SaysLength

(* The head ends in one place. *)
LEMMA HeadIsUnique ==
  ASSUME NEW t, NEW h \in Nat, NEW g \in Nat, EndsHead(t, h), EndsHead(t, g)
  PROVE  h = g
<1>1. h = g \/ h \in 0 .. g - 1 \/ g \in 0 .. h - 1
  OBVIOUS
<1>2. QED
  BY <1>1 DEF EndsHead

(* Lines and one more line are lines. *)
LEMMA LinesGoOn ==
  ASSUME NEW t, NEW s \in Nat, NEW e \in Nat, LinesOnly(t, s), IsLine(t, s, e)
  PROVE  LinesOnly(t, e + 2)
<1> SUFFICES ASSUME NEW k \in 1 .. e + 2
             PROVE  /\ t[k] = "CR" => k < e + 2 /\ t[k + 1] = "LF"
                    /\ t[k] = "LF" => k > 1 /\ t[k - 1] = "CR"
  BY DEF LinesOnly
<1>1. s <= e /\ NoEnd(t, s, e) /\ t[e + 1] = "CR" /\ t[e + 2] = "LF"
  BY DEF IsLine, EndsLine
<1>2. CASE k <= s
  <2>1. k \in 1 .. s /\ s < e + 2
    BY <1>1, <1>2
  <2>2. QED
    BY <1>1, <2>1 DEF LinesOnly
<1>3. CASE k > s /\ k <= e
  <2>1. k \in s + 1 .. e
    BY <1>3
  <2>2. QED
    BY <1>1, <2>1 DEF NoEnd
<1>4. CASE k = e + 1
  <2>1. k + 1 = e + 2 /\ t[k] = "CR" /\ k < e + 2
    BY <1>1, <1>4
  <2>2. QED
    BY <1>1, <2>1
<1>5. CASE k = e + 2
  <2>1. k - 1 = e + 1 /\ t[k] = "LF" /\ k > 1
    BY <1>1, <1>5
  <2>2. QED
    BY <1>1, <2>1
<1>6. QED
  BY <1>2, <1>3, <1>4, <1>5

(* A line of the head has an end. *)
LEMMA LineHasEnd ==
  ASSUME NEW t, NEW s \in Nat, NEW h \in Nat, s <= h, StartsLine(t, s), EmptyLine(t, h), LinesOnly(t, h + 2)
  PROVE  \E e \in s .. h : IsLine(t, s, e)
<1> DEFINE S == {e \in Nat : s <= e /\ e <= h /\ t[e + 1] \in {"CR", "LF"}}
<1>1. EndsLine(t, h)
  BY DEF EmptyLine, IsHeader, IsLine
<1>2. h \in S /\ S \in SUBSET Nat
  BY <1>1 DEF EndsLine
<1>3. PICK e \in S : \A y \in S : e <= y
  BY <1>2, Smallest
<1>4. e \in Nat /\ s <= e /\ e <= h /\ t[e + 1] \in {"CR", "LF"}
  BY <1>3
<1>5. NoEnd(t, s, e)
  <2> SUFFICES ASSUME NEW k \in s + 1 .. e, t[k] \in {"CR", "LF"} PROVE FALSE
    BY DEF NoEnd
  <2>1. k - 1 \in Nat /\ s <= k - 1 /\ k - 1 <= h /\ k - 1 + 1 = k /\ k - 1 < e
    BY <1>4
  <2>2. k - 1 \in S
    BY <2>1
  <2>3. QED
    BY <1>3, <1>4, <2>1, <2>2
<1> HIDE DEF S
<1>6. e + 1 \in 1 .. h + 2
  BY <1>4
<1>7. t[e + 1] # "LF"
  <2> SUFFICES ASSUME t[e + 1] = "LF" PROVE FALSE
    OBVIOUS
  <2>1. e > 0 /\ t[e] = "CR"
    <3>1. e + 1 > 1 /\ t[(e + 1) - 1] = "CR"
      BY <1>6 DEF LinesOnly
    <3>2. QED
      BY <1>4, <3>1
  <2>2. CASE e = s
    <3>1. s >= 2 /\ EndsLine(t, s - 2) /\ (s - 2) + 2 = s
      BY <2>1, <2>2 DEF StartsLine
    <3>2. QED
      BY <2>1, <2>2, <3>1 DEF EndsLine
  <2>3. CASE e # s
    <3>1. e \in s + 1 .. e
      BY <1>4, <2>3
    <3>2. QED
      BY <1>5, <2>1, <3>1 DEF NoEnd
  <2>4. QED
    BY <2>2, <2>3
<1>8. t[e + 1] = "CR" /\ t[e + 2] = "LF"
  <2>1. t[e + 1] = "CR"
    BY <1>4, <1>7
  <2>2. t[(e + 1) + 1] = "LF"
    BY <1>6, <2>1 DEF LinesOnly
  <2>3. QED
    BY <1>4, <2>1, <2>2
<1>9. e + 2 <= Len(t)
  BY <1>1, <1>4 DEF EndsLine
<1>10. QED
  BY <1>4, <1>5, <1>8, <1>9 DEF IsLine, EndsLine

-------------------------------------------------------------------------------
(* What the parser knows                                                   *)

(* The buffer and the wire hold the text of the request between them. *)
Buffered ==
    /\ Len(parser.read_buf) + Len(wire) = Len(meant.text)
    /\ \A i \in 1 .. Len(wire) : wire[i] = meant.text[Len(parser.read_buf) + i]

(* Nobody wrote into the buffer behind n. *)
Intact(n) == \A k \in n + 1 .. Len(parser.read_buf) : parser.read_buf[k] = meant.text[k]

(* m_start_line is where a line begins, behind nothing but lines, and      *)
(* parse_line() found no end of it up to m_checked_idx.                    *)
AtLine ==
    /\ StartsLine(meant.text, parser.start_line)
    /\ parser.start_line > 0 => parser.read_buf[parser.start_line] = "NUL"
    /\ Intact(parser.start_line) /\ LinesOnly(meant.text, parser.start_line)
    /\ NoEnd(meant.text, parser.start_line, parser.checked_idx)

(* What the first line left in the object, and the headers in front of n.  *)
FirstLine ==
    /\ GoodStart(meant.text)
    /\ parser.url = meant.text[2]
    /\ parser.cgi = IF meant.text[1] = "POST" THEN 1 ELSE 0

HeadRead(n) ==
    /\ FirstLine
    /\ SaysLinger(meant.text, n, parser.linger)
    /\ SaysLength(meant.text, n, parser.content_length)
    /\ \A i \in 0 .. n - 1 : ~EmptyLine(meant.text, i)

InHead ==
    /\ AtLine
    /\ \/ /\ parser.check_state = "CHECK_REQUESTINE" /\ parser.start_line = 0
          /\ parser.linger = FALSE /\ parser.content_length = 0 /\ parser.cgi = 0
       \/ /\ parser.check_state = "CHECK_STATE_HEADER" /\ parser.start_line > 0
          /\ HeadRead(parser.start_line)

(* In the body m_checked_idx stays behind the head, and the buffer intact, *)
(* unless parse_line() was called again, which only happens when the body  *)
(* is not there yet.                                                       *)
InBody ==
    /\ parser.check_state = "CHECK_STATE_CONTENT" /\ meant.code = "GET_REQUEST"
    /\ \E h \in Nat :
          /\ EndsHead(meant.text, h) /\ HeadRead(h) /\ parser.content_length # 0
          /\ h + 2 <= parser.checked_idx
          /\ parser.checked_idx = h + 2 => parser.start_line = h + 2 /\ Intact(h + 2)
          /\ ~cutInBody => /\ parser.checked_idx = h + 2
                           /\ pc = "parse" /\ line_status # "LINE_OK" => wire # <<>>

Parsing == pc \in {"in", "parse"} => Buffered /\ (InHead \/ InBody)

(* Unless a read ended inside the body, it is on the wire whole or not at  *)
(* all, and process_read() does not wait when everything was read.         *)
Cuts ==
    pc \in {"in", "parse"} /\ ~cutInBody =>
        /\ meant.code = "GET_REQUEST" => wire = <<>> \/ Len(wire) >= Len(meant.body)
        /\ meant.code # "NO_REQUEST" /\ pc = "in" => wire # <<>>

Answered ==
    /\ pc = "answer" =>
          /\ code = meant.code /\ code # "NO_REQUEST"
          /\ code = "GET_REQUEST" => /\ wire = <<>> /\ FirstLine /\ parser.linger = meant.linger
                                     /\ meant.body # <<>> => string = meant.body /\ HasString
    /\ pc = "out" /\ code = "GET_REQUEST" => page = meant.page \/ FormWithoutBody(meant)
    /\ pc = "ended" => NewName(meant) \/ FormWithoutBody(meant)

Understood == Parsing /\ Cuts /\ Answered

(* The three properties of the run follow. *)
LEMMA UnderstoodMeans ==
  Shape /\ Understood => ParsedAsMeant /\ RecognisedUnlessBodyCut /\ PageIsMeant
  BY DEF Shape, Codes, Understood, Cuts, Answered, ParsedAsMeant, RecognisedUnlessBodyCut, PageIsMeant, Waiting

-------------------------------------------------------------------------------
(* The request                                                             *)

(* An object without a request waits for nothing. *)
LEMMA MeantOK == meant \in Requests \cup {NoText} => AsMeant(meant)
<1>1. AsMeant(NoText)
  <2>1. Len(<<>>) = 0 /\ \A e \in 0 .. BufferSize - 2 : ~EndsLine(<<>>, e)
    BY HttpAssumption DEF EndsLine
  <2>2. NoText.text = <<>> /\ NoText.code = "NO_REQUEST"
    BY DEF NoText
  <2>3. QED
    BY <2>1, <2>2 DEF AsMeant, EmptyLine, IsHeader, IsLine
<1>2. QED
  BY <1>1, MeaningAssumption

(* A first line is right or wrong. *)
LEMMA GoodOrBad == \A t : ~(GoodStart(t) /\ BadStart(t))
<1>1. \A t : \A e \in 0 .. Len(t) : \A f \in 0 .. Len(t) : IsLine(t, 0, e) /\ IsLine(t, 0, f) => e = f
  <2>1. \A t : \A e \in 0 .. Len(t) : e \in Nat
    OBVIOUS
  <2>2. QED
    BY <2>1, LineIsUnique
<1>2. QED
  BY <1>1, Zenon DEF GoodStart, BadStart

(* The types of what the lemmas below are about. *)
LEMMA Types ==
  ASSUME Shape
  PROVE  /\ parser.read_buf \in Seq(Bytes) /\ Len(parser.read_buf) \in Nat
         /\ wire \in Seq(Bytes) /\ Len(wire) \in Nat
         /\ meant.text \in Seq(Bytes) /\ Len(meant.text) \in Nat
         /\ parser.start_line \in Nat /\ parser.checked_idx \in Nat /\ BufferSize \in Nat
         /\ parser.start_line <= parser.checked_idx
         /\ parser.checked_idx <= Len(parser.read_buf) /\ Len(parser.read_buf) <= BufferSize
         /\ parser.linger \in BOOLEAN /\ line_status \in {"LINE_OK", "LINE_OPEN", "LINE_BAD"}
         /\ AsMeant(meant) /\ ParserOK(parser)
<1>1. PICK length : parser \in ParserType(length)
  BY DEF Shape, ParserOK
<1>2. meant.text \in Seq(Bytes) /\ AsMeant(meant) /\ IndicesOK(parser) /\ ParserOK(parser)
  BY TextsAreBytes, MeantOK DEF Shape, ParserOK
<1>3. /\ parser.read_buf \in Seq(Bytes) /\ parser.start_line \in Nat /\ parser.checked_idx \in Nat
      /\ parser.linger \in BOOLEAN
  BY <1>1 DEF ParserType
<1>4. wire \in Seq(Bytes) /\ line_status \in {"LINE_OK", "LINE_OPEN", "LINE_BAD"} /\ BufferSize \in Nat
  BY HttpAssumption DEF Shape
<1>5. Len(parser.read_buf) \in Nat /\ Len(wire) \in Nat /\ Len(meant.text) \in Nat
  BY <1>2, <1>3, <1>4, LenProperties
<1>6. QED
  BY <1>2, <1>3, <1>4, <1>5 DEF IndicesOK

(* What a GET_REQUEST is made of. *)
LEMMA RequestParts ==
  ASSUME Shape, meant.code = "GET_REQUEST"
  PROVE  /\ GoodStart(meant.text) /\ meant.page = MeantPage(meant.text, meant.body)
         /\ IsForm(meant.text) => Len(meant.body) \in {0, 4}
         /\ Len(meant.body) \in Nat /\ (Len(meant.body) = 0 => meant.body = <<>>)
         /\ \E h \in Nat : /\ EndsHead(meant.text, h) /\ LinesOnly(meant.text, h + 2)
                           /\ SaysLinger(meant.text, h, meant.linger)
                           /\ SaysLength(meant.text, h, Len(meant.body))
                           /\ Len(meant.text) = h + 2 + Len(meant.body)
                           /\ meant.body = SubSeq(meant.text, h + 3, Len(meant.text))
<1>1. PICK h \in 0 .. Len(meant.text) :
         /\ EndsHead(meant.text, h) /\ LinesOnly(meant.text, h + 2)
         /\ SaysLinger(meant.text, h, meant.linger)
         /\ SaysLength(meant.text, h, Len(meant.body))
         /\ Len(meant.text) = h + 2 + Len(meant.body)
         /\ meant.body = SubSeq(meant.text, h + 3, Len(meant.text))
  BY Types, Zenon DEF AsMeant
<1>2. /\ GoodStart(meant.text) /\ meant.page = MeantPage(meant.text, meant.body)
      /\ IsForm(meant.text) => Len(meant.body) \in {0, 4}
  BY Types DEF AsMeant
<1>3. h \in Nat /\ meant.text \in Seq(Bytes) /\ Len(meant.text) \in Nat
  BY Types
<1>4. meant.body \in Seq(Bytes)
  <2>1. \A i \in h + 3 .. Len(meant.text) : meant.text[i] \in Bytes
    BY <1>3, ElementOfSeq
  <2>2. h + 3 \in Int /\ Len(meant.text) \in Int
    BY <1>3
  <2>3. SubSeq(meant.text, h + 3, Len(meant.text)) \in Seq(Bytes)
    BY <1>3, <2>1, <2>2, SubSeqProperties
  <2>4. QED
    BY <1>1, <2>3
<1>5. Len(meant.body) \in Nat /\ (Len(meant.body) = 0 => meant.body = <<>>)
  BY <1>4, LenProperties, EmptySeq
<1>6. QED
  BY <1>1, <1>2, <1>3, <1>5

-------------------------------------------------------------------------------
(* What parse_line() and get_line() find                                   *)

(* Pieces that agree are equal. *)
LEMMA SamePiece ==
  ASSUME NEW b \in Seq(Bytes), NEW t \in Seq(Bytes), NEW m \in Nat \ {0}, NEW n \in Nat,
         n <= Len(b), n <= Len(t), \A k \in m .. n : b[k] = t[k]
  PROVE  SubSeq(b, m, n) = SubSeq(t, m, n)
<1>1. Len(b) \in Nat /\ Len(t) \in Nat /\ m \in Int /\ n \in Int
  BY LenProperties
<1>2. \A i \in m .. n : b[i] \in Bytes /\ t[i] \in Bytes
  <2>1. \A i \in m .. n : i \in 1 .. Len(b) /\ i \in 1 .. Len(t)
    BY <1>1
  <2>2. QED
    BY <2>1, ElementOfSeq
<1>3. /\ SubSeq(b, m, n) \in Seq(Bytes) /\ SubSeq(t, m, n) \in Seq(Bytes)
      /\ Len(SubSeq(b, m, n)) = IF m <= n THEN n - m + 1 ELSE 0
      /\ Len(SubSeq(t, m, n)) = IF m <= n THEN n - m + 1 ELSE 0
      /\ \A i \in 1 .. n - m + 1 : SubSeq(b, m, n)[i] = b[m + i - 1] /\ SubSeq(t, m, n)[i] = t[m + i - 1]
  BY <1>1, <1>2, SubSeqProperties
<1>4. \A i \in 1 .. n - m + 1 : m + i - 1 \in m .. n
  BY <1>1
<1>5. \A i \in 1 .. Len(SubSeq(b, m, n)) : SubSeq(b, m, n)[i] = SubSeq(t, m, n)[i]
  <2>1. \A i \in 1 .. Len(SubSeq(b, m, n)) : i \in 1 .. n - m + 1
    BY <1>1, <1>3
  <2>2. QED
    BY <1>3, <1>4, <2>1
<1>6. QED
  BY <1>3, <1>5, SeqEqual

(* At a line, parse_line() stops at its end or at the end of what was      *)
(* read, and says which; it does not read on into a line that is there.    *)
LEMMA LineFinds ==
  ASSUME Shape, Buffered, AtLine
  PROVE  /\ Stop \in Nat /\ parser.start_line <= parser.checked_idx
         /\ parser.checked_idx <= Stop /\ Stop <= Len(parser.read_buf)
         /\ NoEnd(meant.text, parser.start_line, Stop)
         /\ Line.status # "LINE_OK" => Line.parser = [parser EXCEPT !.checked_idx = Stop]
         /\ Line.status = "LINE_OK" => /\ IsLine(meant.text, parser.start_line, Stop)
                                       /\ Stop + 2 <= Len(parser.read_buf)
                                       /\ Line = After("LINE_OK", Stop)
         /\ \A e \in Nat : IsLine(meant.text, parser.start_line, e) /\ e + 2 <= Len(parser.read_buf)
                              => Line.status = "LINE_OK"
<1> DEFINE t == meant.text
           b == parser.read_buf
           s == parser.start_line
           c == parser.checked_idx
<1>1. /\ s \in Nat /\ c \in Nat /\ s <= c /\ c <= Len(b) /\ Len(b) \in Nat /\ Len(b) <= Len(t)
      /\ Len(t) \in Nat /\ ParserOK(parser)
  BY Types DEF Buffered
<1>2. /\ Stop \in Nat /\ c <= Stop /\ Stop <= Len(b)
      /\ Stop < Len(b) => Byte(Stop) \in {"CR", "LF"}
      /\ \A j \in c .. Stop - 1 : Byte(j) \notin {"CR", "LF"}
  BY <1>1, StopExists
<1>3. \A k \in s + 1 .. Len(b) : b[k] = t[k]
  BY DEF AtLine, Intact
<1>4. NoEnd(t, s, Stop)
  <2> SUFFICES ASSUME NEW k \in s + 1 .. Stop PROVE t[k] \notin {"CR", "LF"}
    BY DEF NoEnd
  <2>1. CASE k <= c
    BY <1>1, <2>1 DEF AtLine, NoEnd
  <2>2. CASE k > c
    <3>1. k - 1 \in c .. Stop - 1 /\ (k - 1) + 1 = k /\ k \in s + 1 .. Len(b)
      BY <1>1, <1>2, <2>2
    <3>2. Byte(k - 1) = t[k]
      BY <1>3, <3>1 DEF Byte
    <3>3. QED
      BY <1>2, <3>1, <3>2
  <2>3. QED
    BY <1>1, <2>1, <2>2
<1>5. Stop < Len(b) => Byte(Stop) = t[Stop + 1]
  BY <1>1, <1>2, <1>3 DEF Byte
<1>6. Stop + 1 < Len(b) => Byte(Stop + 1) = t[Stop + 2]
  <2>1. Stop + 1 < Len(b) => (Stop + 1) + 1 = Stop + 2 /\ Stop + 2 \in s + 1 .. Len(b)
    BY <1>1, <1>2
  <2>2. QED
    BY <1>3, <2>1 DEF Byte
<1>7. ~(Stop > 1 /\ Byte(Stop - 1) = "CR")
  <2> SUFFICES ASSUME Stop > 1, Byte(Stop - 1) = "CR" PROVE FALSE
    OBVIOUS
  <2>1. (Stop - 1) + 1 = Stop
    BY <1>2
  <2>2. b[Stop] = "CR"
    BY <2>1 DEF Byte
  <2>3. CASE Stop = s
    BY <1>2, <2>2, <2>3 DEF AtLine
  <2>4. CASE Stop # s
    <3>1. Stop \in s + 1 .. Stop /\ Stop \in s + 1 .. Len(b)
      BY <1>1, <1>2, <2>4
    <3>2. QED
      BY <1>3, <1>4, <2>2, <3>1 DEF NoEnd
  <2>5. QED
    BY <2>3, <2>4
<1>8. Line = IF Stop = Len(b) THEN After("LINE_OPEN", Stop)
             ELSE IF Byte(Stop) = "LF" THEN After("LINE_BAD", Stop)
             ELSE IF Stop + 1 = Len(b) THEN After("LINE_OPEN", Stop)
             ELSE IF Byte(Stop + 1) = "LF" THEN After("LINE_OK", Stop)
             ELSE After("LINE_BAD", Stop)
  BY <1>7, LineCases
<1>9. /\ \A status : After(status, Stop).status = status
      /\ \A status : status # "LINE_OK" => After(status, Stop).parser = [parser EXCEPT !.checked_idx = Stop]
  BY DEF After
<1>10. Line.status # "LINE_OK" => Line.parser = [parser EXCEPT !.checked_idx = Stop]
  BY <1>8, <1>9
<1>11. ASSUME Line.status = "LINE_OK"
       PROVE  IsLine(t, s, Stop) /\ Stop + 2 <= Len(b) /\ Line = After("LINE_OK", Stop)
  <2>1. /\ Stop # Len(b) /\ Byte(Stop) # "LF" /\ Stop + 1 # Len(b) /\ Byte(Stop + 1) = "LF"
        /\ Line = After("LINE_OK", Stop)
    BY <1>8, <1>9, <1>11
  <2>2. Stop < Len(b) /\ Stop + 1 < Len(b) /\ Stop + 2 <= Len(b) /\ s <= Stop /\ Stop + 2 <= Len(t)
    BY <1>1, <1>2, <2>1
  <2>3. t[Stop + 1] = "CR" /\ t[Stop + 2] = "LF"
    BY <1>2, <1>5, <1>6, <2>1, <2>2
  <2>4. QED
    BY <1>4, <2>1, <2>2, <2>3 DEF IsLine, EndsLine
<1>12. ASSUME NEW e \in Nat, IsLine(t, s, e), e + 2 <= Len(b)
       PROVE  Line.status = "LINE_OK"
  <2>1. t[e + 1] = "CR" /\ t[e + 2] = "LF" /\ NoEnd(t, s, e) /\ s <= e
    BY <1>12 DEF IsLine, EndsLine
  <2>2. ~(Stop < e)
    <3> SUFFICES ASSUME Stop < e PROVE FALSE
      OBVIOUS
    <3>1. Stop < Len(b) /\ Stop + 1 \in s + 1 .. e
      BY <1>1, <1>2, <1>12
    <3>2. QED
      BY <1>2, <1>5, <2>1, <3>1 DEF NoEnd
  <2>3. ~(Stop > e)
    <3> SUFFICES ASSUME Stop > e PROVE FALSE
      OBVIOUS
    <3>1. e + 1 \in s + 1 .. Stop
      BY <1>1, <1>2, <2>1
    <3>2. QED
      BY <1>4, <2>1, <3>1 DEF NoEnd
  <2>4. Stop = e
    BY <1>2, <2>2, <2>3
  <2>5. Stop < Len(b) /\ Stop + 1 < Len(b)
    BY <1>1, <1>12, <2>4
  <2>6. Line = After("LINE_OK", Stop)
    BY <1>5, <1>6, <1>8, <2>1, <2>4, <2>5
  <2>7. QED
    BY <1>9, <2>6
<1>13. QED
  BY <1>1, <1>2, <1>4, <1>10, <1>11, <1>12

(* The line that get_line() gives, and the buffer behind it.               *)
LEMMA LineTaken ==
  ASSUME Shape, Buffered, AtLine, Line.status = "LINE_OK"
  PROVE  /\ IsLine(meant.text, parser.start_line, Stop) /\ Stop \in Nat
         /\ Stop + 2 <= Len(parser.read_buf) /\ Stop + 2 <= Len(meant.text)
         /\ Text = SubSeq(meant.text, parser.start_line + 1, Stop)
         /\ Len(Text) = Stop - parser.start_line
         /\ \A i \in 1 .. Stop - parser.start_line : Text[i] = meant.text[parser.start_line + i]
         /\ Advanced.start_line = Stop + 2 /\ Advanced.checked_idx = Stop + 2
         /\ Len(Advanced.read_buf) = Len(parser.read_buf) /\ Advanced.read_buf[Stop + 2] = "NUL"
         /\ \A k \in Stop + 3 .. Len(parser.read_buf) : Advanced.read_buf[k] = meant.text[k]
         /\ Advanced.check_state = parser.check_state /\ Advanced.linger = parser.linger
         /\ Advanced.content_length = parser.content_length
         /\ Advanced.url = parser.url /\ Advanced.cgi = parser.cgi
<1> DEFINE t == meant.text
           b == parser.read_buf
           s == parser.start_line
           d == [[b EXCEPT ![Stop + 1] = "NUL"] EXCEPT ![Stop + 2] = "NUL"]
<1>1. /\ b \in Seq(Bytes) /\ t \in Seq(Bytes) /\ Len(b) \in Nat /\ Len(t) \in Nat /\ Len(b) <= Len(t)
      /\ s \in Nat /\ ParserOK(parser)
  BY Types DEF Buffered
<1>2. /\ IsLine(t, s, Stop) /\ Stop \in Nat /\ Stop + 2 <= Len(b) /\ s <= Stop
      /\ Line = After("LINE_OK", Stop)
  BY LineFinds DEF IsLine
<1>3. PICK length : parser \in ParserType(length)
  BY <1>1 DEF ParserOK
<1>4. Line.parser = [parser EXCEPT !.checked_idx = Stop + 2, !.read_buf = d]
  BY <1>2, <1>3 DEF After, ParserType
<1>5. /\ Line.parser.checked_idx = Stop + 2 /\ Line.parser.read_buf = d
      /\ Advanced.start_line = Stop + 2 /\ Advanced.checked_idx = Stop + 2 /\ Advanced.read_buf = d
      /\ Advanced.check_state = parser.check_state /\ Advanced.linger = parser.linger
      /\ Advanced.content_length = parser.content_length
      /\ Advanced.url = parser.url /\ Advanced.cgi = parser.cgi
  <2> HIDE DEF d
  <2>1. QED
    BY <1>3, <1>4 DEF ParserType, Advanced
<1>6. Len(d) = Len(b) /\ d[Stop + 2] = "NUL" /\ \A k \in Stop + 3 .. Len(b) : d[k] = b[k]
  <2>1. DOMAIN b = 1 .. Len(b)
    BY <1>1
  <2>2. DOMAIN d = 1 .. Len(b)
    BY <2>1
  <2>3. Len(d) = Len(b)
    <3>1. Advanced.read_buf \in Seq(Bytes)
      BY <1>1, LineOK DEF ParserOK, ParserType
    <3>2. d \in Seq(Bytes)
      BY <1>5, <3>1
    <3>3. DOMAIN d = 1 .. Len(d) /\ Len(d) \in Nat
      BY <3>2, LenProperties
    <3> HIDE DEF d
    <3>4. 1 .. Len(d) = 1 .. Len(b)
      BY <2>2, <3>3
    <3>5. QED
      BY <1>1, <3>3, <3>4
  <2>4. Stop + 2 \in DOMAIN b
    BY <1>1, <1>2, <2>1
  <2>5. d[Stop + 2] = "NUL"
    BY <2>1, <2>4
  <2>6. \A k \in Stop + 3 .. Len(b) : d[k] = b[k]
    <3>1. \A k \in Stop + 3 .. Len(b) : k \in 1 .. Len(b) /\ k # Stop + 1 /\ k # Stop + 2
      BY <1>1, <1>2
    <3>2. QED
      BY <2>1, <3>1
  <2>7. QED
    BY <2>3, <2>5, <2>6
<1>7. \A k \in s + 1 .. Len(b) : b[k] = t[k]
  BY DEF AtLine, Intact
<1>8. \A k \in Stop + 3 .. Len(b) : b[k] = t[k]
  <2>1. \A k \in Stop + 3 .. Len(b) : k \in s + 1 .. Len(b)
    BY <1>1, <1>2
  <2>2. QED
    BY <1>7, <2>1
<1>9. Text = SubSeq(t, s + 1, Stop)
  <2>1. (Stop + 2) - 2 = Stop
    BY <1>2
  <2>2. Text = SubSeq(b, s + 1, Stop)
    BY <1>5, <2>1 DEF Text
  <2>3. s + 1 \in Nat \ {0} /\ Stop <= Len(b) /\ Stop <= Len(t) /\ \A k \in s + 1 .. Stop : b[k] = t[k]
    BY <1>1, <1>2, <1>7
  <2>4. QED
    BY <1>1, <1>2, <2>2, <2>3, SamePiece
<1>10. /\ Len(Text) = Stop - s
       /\ \A i \in 1 .. Stop - s : Text[i] = t[s + i]
  <2>1. \A i \in s + 1 .. Stop : t[i] \in Bytes
    <3>1. \A i \in s + 1 .. Stop : i \in 1 .. Len(t)
      BY <1>1, <1>2
    <3>2. QED
      BY <1>1, <3>1, ElementOfSeq
  <2>2. s + 1 \in Int /\ Stop \in Int
    BY <1>1, <1>2
  <2>3. /\ Len(Text) = IF s + 1 <= Stop THEN Stop - (s + 1) + 1 ELSE 0
        /\ \A i \in 1 .. Stop - (s + 1) + 1 : Text[i] = t[(s + 1) + i - 1]
    BY <1>9, <2>1, <2>2, SubSeqProperties
  <2>4. Stop - (s + 1) + 1 = Stop - s /\ \A i \in 1 .. Stop - s : (s + 1) + i - 1 = s + i
    BY <1>1, <1>2
  <2>5. QED
    BY <1>1, <1>2, <2>3, <2>4, SMTT(60)
<1>11. QED
  BY <1>1, <1>2, <1>5, <1>6, <1>8, <1>9, <1>10, SMTT(60)

(* The next iteration begins at a line again. *)
LEMMA NextLine ==
  ASSUME Shape, Buffered, AtLine, Line.status = "LINE_OK", wire' = wire, meant' = meant,
         parser'.read_buf = Advanced.read_buf, parser'.start_line = Advanced.start_line,
         parser'.checked_idx = Advanced.checked_idx
  PROVE  Buffered' /\ AtLine'
<1>1. PICK e \in Nat :
         /\ IsLine(meant.text, parser.start_line, e)
         /\ Advanced.start_line = e + 2 /\ Advanced.checked_idx = e + 2
         /\ Len(Advanced.read_buf) = Len(parser.read_buf) /\ Advanced.read_buf[e + 2] = "NUL"
         /\ \A k \in e + 3 .. Len(parser.read_buf) : Advanced.read_buf[k] = meant.text[k]
  BY LineTaken
<1>2. Buffered'
  BY <1>1 DEF Buffered
<1>3. StartsLine(meant.text, e + 2)
  <2>1. EndsLine(meant.text, e) /\ (e + 2) - 2 = e /\ e + 2 >= 2
    BY <1>1 DEF IsLine
  <2>2. QED
    BY <2>1 DEF StartsLine
<1>4. NoEnd(meant.text, e + 2, e + 2)
  BY <1>1 DEF NoEnd
<1>5. Intact(e + 2)'
  <2>1. (e + 2) + 1 = e + 3
    BY <1>1
  <2>2. QED
    BY <1>1, <2>1 DEF Intact
<1>6. parser'.start_line = e + 2 /\ parser'.checked_idx = e + 2 /\ parser'.read_buf[e + 2] = "NUL"
  BY <1>1
<1>7. LinesOnly(meant.text, e + 2)
  BY <1>1, Types, LinesGoOn DEF AtLine
<1>8. AtLine'
  BY <1>3, <1>4, <1>5, <1>6, <1>7, Zenon DEF AtLine
<1>9. QED
  BY <1>2, <1>8

-------------------------------------------------------------------------------
(* process_read() learns what the client means                             *)

(* The members that parse_request_line() and parse_headers() set, whatever *)
(* get_line() left.                                                        *)
LEMMA MembersSet ==
  ASSUME NEW p, ParserOK(p)
  PROVE  /\ LET q == [p EXCEPT !.linger = TRUE]
            IN  /\ q.linger = TRUE /\ q.content_length = p.content_length /\ q.check_state = p.check_state
                /\ q.url = p.url /\ q.cgi = p.cgi /\ q.read_buf = p.read_buf
                /\ q.start_line = p.start_line /\ q.checked_idx = p.checked_idx
         /\ \A length :
            LET q == [p EXCEPT !.content_length = length]
            IN  /\ q.linger = p.linger /\ q.content_length = length /\ q.check_state = p.check_state
                /\ q.url = p.url /\ q.cgi = p.cgi /\ q.read_buf = p.read_buf
                /\ q.start_line = p.start_line /\ q.checked_idx = p.checked_idx
         /\ LET q == [p EXCEPT !.check_state = "CHECK_STATE_CONTENT"]
            IN  /\ q.linger = p.linger /\ q.content_length = p.content_length
                /\ q.check_state = "CHECK_STATE_CONTENT"
                /\ q.url = p.url /\ q.cgi = p.cgi /\ q.read_buf = p.read_buf
                /\ q.start_line = p.start_line /\ q.checked_idx = p.checked_idx
         /\ \A a, c :
            LET q == [p EXCEPT !.check_state = "CHECK_STATE_HEADER", !.url = a, !.cgi = c]
            IN  /\ q.linger = p.linger /\ q.content_length = p.content_length
                /\ q.check_state = "CHECK_STATE_HEADER"
                /\ q.url = a /\ q.cgi = c /\ q.read_buf = p.read_buf
                /\ q.start_line = p.start_line /\ q.checked_idx = p.checked_idx
         /\ \A n :
            LET q == [p EXCEPT !.start_line = n]
            IN  /\ q.linger = p.linger /\ q.content_length = p.content_length
                /\ q.check_state = p.check_state
                /\ q.url = p.url /\ q.cgi = p.cgi /\ q.read_buf = p.read_buf
                /\ q.start_line = n /\ q.checked_idx = p.checked_idx
         /\ \A n :
            LET q == [p EXCEPT !.checked_idx = n]
            IN  /\ q.linger = p.linger /\ q.content_length = p.content_length
                /\ q.check_state = p.check_state
                /\ q.url = p.url /\ q.cgi = p.cgi /\ q.read_buf = p.read_buf
                /\ q.start_line = p.start_line /\ q.checked_idx = n
  BY DEF ParserOK, ParserType

(* While the line is read in the states of the head, the members fit.      *)
LEMMA InHeadFrom ==
  ASSUME Shape, Parsing, pc \in {"in", "parse"}, parser.check_state # "CHECK_STATE_CONTENT"
  PROVE  Buffered /\ InHead
  BY DEF Parsing, InBody

(* A step inside the head keeps the wire, and the bytes on it whole. *)
LEMMA CutsSame ==
  ASSUME Cuts, UNCHANGED <<wire, meant, cutInBody>>, pc = "parse", pc' \in {"parse", "answer"}
  PROVE  Cuts'
  BY DEF Cuts

(* parse_request_line() *)
LEMMA RequestLineIsUnderstood ==
  ASSUME Shape, Understood, ParseRequestLine
  PROVE  Understood'
<1>1. /\ pc = "parse" /\ parser.check_state = "CHECK_REQUESTINE" /\ Line.status = "LINE_OK"
      /\ UNCHANGED <<wire, meant, cutInBody>>
  BY DEF ParseRequestLine, TakeLine, histories
<1>2. Buffered /\ InHead
  BY <1>1, InHeadFrom DEF Understood
<1>3. /\ AtLine /\ parser.start_line = 0 /\ parser.linger = FALSE /\ parser.content_length = 0
      /\ parser.cgi = 0
  BY <1>1, <1>2 DEF InHead
<1>4. PICK e \in Nat :
         /\ IsLine(meant.text, 0, e) /\ e + 2 <= Len(parser.read_buf) /\ e + 2 <= Len(meant.text)
         /\ Text = SubSeq(meant.text, 1, e) /\ Len(Text) = e /\ \A i \in 1 .. e : Text[i] = meant.text[i]
         /\ Advanced.start_line = e + 2 /\ Advanced.linger = FALSE /\ Advanced.content_length = 0
         /\ Advanced.cgi = 0
  <2>1. 0 + 1 = 1 /\ (Stop \in Nat => Stop - 0 = Stop) /\ \A i \in Nat : 0 + i = i
    OBVIOUS
  <2>2. Stop \in Nat /\ \A i \in 1 .. Stop : i \in Nat
    BY <1>1, <1>2, <1>3, LineTaken
  <2>3. QED
    BY <1>1, <1>2, <1>3, <2>1, <2>2, LineTaken
<1>5. /\ Len(meant.text) \in Nat /\ BufferSize \in Nat /\ Len(parser.read_buf) <= BufferSize
      /\ Len(parser.read_buf) \in Nat /\ ParserOK(parser) /\ ParserOK(Advanced) /\ AsMeant(meant)
  BY Types, LineOK
<1>6. e \in 0 .. Len(meant.text) /\ e \in 0 .. BufferSize - 2
  BY <1>4, <1>5
<1>7. Cuts'
  <2>1. pc' \in {"parse", "answer"}
    BY <1>1 DEF ParseRequestLine
  <2>2. QED
    BY <1>1, <2>1, CutsSame DEF Understood
<1>8. CASE Text \in RequestLines
  <2>1. PICK method \in {"GET", "POST"}, a \in Addresses : Text = <<method, a>>
    BY <1>8 DEF RequestLines
  <2>2. /\ parser' = [Advanced EXCEPT !.check_state = "CHECK_STATE_HEADER", !.url = Text[2],
                                      !.cgi = IF Text[1] = "POST" THEN 1 ELSE @]
        /\ pc' = "parse"
    BY <1>1, <2>1, Zenon DEF ParseRequestLine
  <2>3. e = 2 /\ Text[1] = meant.text[1] /\ Text[2] = meant.text[2]
    <3>1. Len(<<method, a>>) = 2
      OBVIOUS
    <3>2. e = 2
      BY <1>4, <2>1, <3>1
    <3>3. 1 \in 1 .. e /\ 2 \in 1 .. e
      BY <3>2
    <3>4. QED
      BY <1>4, <3>2, <3>3
  <2> DEFINE c == IF meant.text[1] = "POST" THEN 1 ELSE 0
  <2>4. parser' = [Advanced EXCEPT !.check_state = "CHECK_STATE_HEADER", !.url = meant.text[2], !.cgi = c]
    BY <1>4, <2>2, <2>3
  <2>5. /\ parser'.linger = FALSE /\ parser'.content_length = 0
        /\ parser'.check_state = "CHECK_STATE_HEADER"
        /\ parser'.url = meant.text[2] /\ parser'.cgi = c /\ parser'.read_buf = Advanced.read_buf
        /\ parser'.start_line = e + 2 /\ parser'.start_line = Advanced.start_line
        /\ parser'.checked_idx = Advanced.checked_idx
    <3> HIDE DEF c
    <3>1. QED
      BY <1>4, <1>5, <2>4, MembersSet
  <2>6. Buffered' /\ AtLine'
    BY <1>1, <1>2, <1>3, <2>5, NextLine
  <2>7. FirstLine'
    <3>1. GoodStart(meant.text)
      BY <1>4, <1>6, <1>8 DEF GoodStart
    <3>2. QED
      BY <1>1, <2>5, <3>1 DEF FirstLine
  <2>8. \A i \in 0 .. 0 : ~EmptyLine(meant.text, i) /\ ~KeepsAlive(meant.text, i) /\ ~GivesLength(meant.text, i)
    <3>1. \A i \in 0 .. 0 : ~(i > 0)
      OBVIOUS
    <3>2. QED
      BY <3>1, Zenon DEF EmptyLine, KeepsAlive, GivesLength, IsHeader
  <2>9. SaysLinger(meant.text, 0, FALSE) /\ SaysLength(meant.text, 0, 0) /\ StartsLine(meant.text, 0)
    BY DEF SaysLinger, SaysLength, StartsLine
  <2>10. /\ SaysLinger(meant.text, e + 2, FALSE) /\ SaysLength(meant.text, e + 2, 0)
         /\ \A i \in 0 .. (e + 2) - 1 : ~EmptyLine(meant.text, i)
    <3>1. ~KeepsAlive(meant.text, 0) /\ ~GivesLength(meant.text, 0)
      BY <2>8
    <3>2. QED
      BY <1>4, <2>8, <2>9, <3>1, NextSays
  <2>11. InHead'
    <3>1. e + 2 > 0
      OBVIOUS
    <3>2. meant' = meant
      BY <1>1
    <3>3. HeadRead(e + 2)'
      BY <2>5, <2>7, <2>10, <3>2, Zenon DEF HeadRead
    <3>4. HeadRead(parser.start_line)'
      BY <2>5, <3>3, Zenon DEF HeadRead
    <3>5. QED
      BY <2>5, <2>6, <3>1, <3>4, Zenon DEF InHead
  <2>12. QED
    BY <1>7, <2>2, <2>6, <2>11 DEF Understood, Parsing, Answered
<1>9. CASE Text \notin RequestLines
  <2>1. \A method \in {"GET", "POST"}, a \in Addresses : Text # <<method, a>>
    BY <1>9 DEF RequestLines
  <2>2. code' = "BAD_REQUEST" /\ pc' = "answer"
    BY <2>1, Zenon DEF ParseRequestLine
  <2>3. BadStart(meant.text)
    BY <1>4, <1>6, <1>9 DEF BadStart
  <2>4. meant.code = "BAD_REQUEST"
    <3>1. meant.code = "GET_REQUEST" => FALSE
      BY <2>3, RequestParts, GoodOrBad
    <3>2. meant.code = "NO_REQUEST" => FALSE
      BY <1>4, <1>5, <1>6, <1>9 DEF AsMeant
    <3>3. QED
      BY <1>5, <3>1, <3>2 DEF AsMeant
  <2>5. QED
    BY <1>1, <1>7, <2>2, <2>4 DEF Understood, Parsing, Answered
<1>10. QED
  BY <1>8, <1>9

(* A line of parse_headers() and what is known in front of it. *)
LEMMA HeaderLine ==
  ASSUME Shape, Understood, TakeLine("CHECK_STATE_HEADER")
  PROVE  /\ Buffered /\ AtLine /\ HeadRead(parser.start_line) /\ parser.start_line > 0
         /\ pc = "parse" /\ UNCHANGED <<wire, meant, cutInBody>>
         /\ StartsLine(meant.text, parser.start_line) /\ parser.start_line \in Nat
<1>1. /\ pc = "parse" /\ parser.check_state = "CHECK_STATE_HEADER" /\ UNCHANGED <<wire, meant, cutInBody>>
  BY DEF TakeLine, histories
<1>2. Buffered /\ InHead
  BY <1>1, InHeadFrom DEF Understood
<1>3. QED
  BY <1>1, <1>2, Types DEF InHead, AtLine

(* parse_headers() with a header *)
LEMMA HeaderIsUnderstood ==
  ASSUME Shape, Understood, ParseHeader
  PROVE  Understood'
<1> DEFINE t == meant.text
           s == parser.start_line
<1>1. /\ TakeLine("CHECK_STATE_HEADER") /\ Line.status = "LINE_OK" /\ Text # <<>> /\ pc' = pc
      /\ parser.check_state = "CHECK_STATE_HEADER"
  BY DEF ParseHeader, TakeLine
<1>2. /\ Buffered /\ AtLine /\ HeadRead(s) /\ s > 0 /\ pc = "parse"
      /\ UNCHANGED <<wire, meant, cutInBody>> /\ StartsLine(t, s) /\ s \in Nat
  BY <1>1, HeaderLine
<1>3. PICK e \in Nat :
         /\ IsLine(t, s, e) /\ Text = SubSeq(t, s + 1, e) /\ Len(Text) = e - s
         /\ \A i \in 1 .. e - s : Text[i] = t[s + i]
         /\ Advanced.start_line = e + 2 /\ Advanced.linger = parser.linger
         /\ Advanced.content_length = parser.content_length /\ Advanced.cgi = parser.cgi
         /\ Advanced.url = parser.url /\ Advanced.check_state = parser.check_state
  BY <1>1, <1>2, LineTaken
<1>4. ParserOK(Advanced) /\ Len(t) \in Nat /\ parser.linger \in BOOLEAN
  BY Types, LineOK
<1>5. e # s
  <2>1. s \in Int /\ (s < s + 1)
    BY <1>2
  <2>2. SubSeq(t, s + 1, s) = <<>>
    BY <2>1, SubSeqEmpty
  <2>3. QED
    BY <1>1, <1>3, <2>2
<1>6. /\ KeepsAlive(t, s) <=> Text = <<"Connection:", "keep-alive">>
      /\ GivesLength(t, s) <=> e = s + 2 /\ t[s + 1] = "Content-length:"
      /\ ~EmptyLine(t, s)
  BY <1>2, <1>3, <1>4, <1>5, ThisHeader
<1>7. e = s + 2 => Len(Text) = 2 /\ Text[1] = t[s + 1] /\ Text[2] = t[s + 2]
  <2> SUFFICES ASSUME e = s + 2 PROVE Len(Text) = 2 /\ Text[1] = t[s + 1] /\ Text[2] = t[s + 2]
    OBVIOUS
  <2>1. e - s = 2
    BY <1>2
  <2>2. 1 \in 1 .. e - s /\ 2 \in 1 .. e - s
    BY <2>1
  <2>3. QED
    BY <1>3, <2>1, <2>2
<1>8. Len(Text) = 2 => e = s + 2
  BY <1>2, <1>3
<1> DEFINE known == /\ SaysLinger(t, e + 2, parser'.linger)
                    /\ SaysLength(t, e + 2, parser'.content_length)
           same == /\ parser'.check_state = parser.check_state
                   /\ parser'.url = parser.url /\ parser'.cgi = parser.cgi
                   /\ parser'.read_buf = Advanced.read_buf
                   /\ parser'.start_line = Advanced.start_line
                   /\ parser'.checked_idx = Advanced.checked_idx
<1>9. /\ KeepsAlive(t, s) => SaysLinger(t, e + 2, TRUE)
      /\ ~KeepsAlive(t, s) => SaysLinger(t, e + 2, parser.linger)
      /\ GivesLength(t, s) => SaysLength(t, e + 2, Number[t[s + 2]])
      /\ ~GivesLength(t, s) => SaysLength(t, e + 2, parser.content_length)
      /\ (\A i \in 0 .. s : ~EmptyLine(t, i)) => \A i \in 0 .. (e + 2) - 1 : ~EmptyLine(t, i)
  <2>1. SaysLinger(t, s, parser.linger) /\ SaysLength(t, s, parser.content_length)
    BY <1>2 DEF HeadRead
  <2>2. QED
    BY <1>2, <1>3, <1>4, <2>1, NextSays
<1>10. \A i \in 0 .. (e + 2) - 1 : ~EmptyLine(t, i)
  <2>1. \A i \in 0 .. s : i \in 0 .. s - 1 \/ i = s
    BY <1>2
  <2>2. \A i \in 0 .. s : ~EmptyLine(t, i)
    BY <1>2, <1>6, <2>1 DEF HeadRead
  <2>3. QED
    BY <1>9, <2>2
<1>11. ASSUME Text = <<"Connection:", "keep-alive">> PROVE same /\ known
  <2>1. parser' = [Advanced EXCEPT !.linger = TRUE]
    BY <1>11 DEF ParseHeader
  <2>2. same /\ parser'.linger = TRUE /\ parser'.content_length = parser.content_length
    BY <1>3, <1>4, <2>1, MembersSet
  <2>3. KeepsAlive(t, s) /\ ~GivesLength(t, s)
    <3>1. Text[1] = "Connection:"
      BY <1>11
    <3>2. QED
      BY <1>6, <1>7, <1>11, <3>1
  <2>4. known
    BY <1>9, <2>2, <2>3
  <2>5. QED
    BY <2>2, <2>4
<1>12. ASSUME Text # <<"Connection:", "keep-alive">>, Len(Text) = 2, Text[1] = "Content-length:"
       PROVE  same /\ known
  <2>1. parser' = [Advanced EXCEPT !.content_length = Number[Text[2]]]
    BY <1>12 DEF ParseHeader
  <2>2. same /\ parser'.linger = parser.linger /\ parser'.content_length = Number[Text[2]]
    <3>1. PICK length : length = Number[Text[2]]
      OBVIOUS
    <3>2. parser' = [Advanced EXCEPT !.content_length = length]
      BY <2>1, <3>1
    <3>3. /\ parser'.linger = Advanced.linger /\ parser'.content_length = length
          /\ parser'.check_state = Advanced.check_state
          /\ parser'.url = Advanced.url /\ parser'.cgi = Advanced.cgi
          /\ parser'.read_buf = Advanced.read_buf
          /\ parser'.start_line = Advanced.start_line /\ parser'.checked_idx = Advanced.checked_idx
      BY <1>4, <3>2, MembersSet
    <3>4. QED
      BY <1>3, <3>1, <3>3, Zenon
  <2>3. ~KeepsAlive(t, s) /\ GivesLength(t, s) /\ Text[2] = t[s + 2]
    <3>1. e = s + 2 /\ Text[1] = t[s + 1] /\ Text[2] = t[s + 2]
      BY <1>7, <1>8, <1>12, Zenon
    <3>2. t[s + 1] = "Content-length:"
      BY <1>12, <3>1, Zenon
    <3>3. QED
      BY <1>6, <1>12, <3>1, <3>2, Zenon
  <2>4. known
    BY <1>9, <2>2, <2>3
  <2>5. QED
    BY <2>2, <2>4
<1>13. ASSUME Text # <<"Connection:", "keep-alive">>, ~(Len(Text) = 2 /\ Text[1] = "Content-length:")
       PROVE  same /\ known
  <2>1. parser' = Advanced
    BY <1>13 DEF ParseHeader
  <2>2. same /\ parser'.linger = parser.linger /\ parser'.content_length = parser.content_length
    BY <1>3, <2>1
  <2>3. ~KeepsAlive(t, s) /\ ~GivesLength(t, s)
    BY <1>6, <1>7, <1>13
  <2>4. known
    BY <1>9, <2>2, <2>3
  <2>5. QED
    BY <2>2, <2>4
<1>14. same /\ known
  BY <1>11, <1>12, <1>13
<1>15. Buffered' /\ AtLine'
  BY <1>1, <1>2, <1>14, NextLine
<1>16. InHead'
  <2>1. FirstLine'
    BY <1>2, <1>14 DEF HeadRead, FirstLine
  <2>2. meant' = meant /\ parser'.start_line = e + 2
    BY <1>2, <1>3, <1>14
  <2>3. HeadRead(parser.start_line)'
    BY <1>10, <1>14, <2>1, <2>2, Zenon DEF HeadRead
  <2>4. parser'.check_state = "CHECK_STATE_HEADER" /\ e + 2 > 0
    BY <1>1, <1>14
  <2>5. QED
    BY <1>15, <2>2, <2>3, <2>4, Zenon DEF InHead
<1>17. Cuts'
  BY <1>1, <1>2, CutsSame DEF Understood
<1>18. QED
  BY <1>1, <1>2, <1>15, <1>16, <1>17 DEF Understood, Parsing, Answered

(* parse_headers() at the empty line *)
LEMMA HeadIsUnderstood ==
  ASSUME Shape, Understood, ParseEmptyLine
  PROVE  Understood'
<1> DEFINE t == meant.text
           s == parser.start_line
<1>1. /\ TakeLine("CHECK_STATE_HEADER") /\ Line.status = "LINE_OK" /\ Text = <<>>
      /\ parser.check_state = "CHECK_STATE_HEADER" /\ line_status' = "LINE_OK"
  BY DEF ParseEmptyLine, TakeLine
<1>2. /\ Buffered /\ AtLine /\ HeadRead(s) /\ s > 0 /\ pc = "parse"
      /\ UNCHANGED <<wire, meant, cutInBody>> /\ StartsLine(t, s) /\ s \in Nat
  BY <1>1, HeaderLine
<1>3. PICK e \in Nat :
         /\ IsLine(t, s, e) /\ Len(Text) = e - s
         /\ e + 2 <= Len(parser.read_buf)
         /\ Advanced.start_line = e + 2 /\ Advanced.checked_idx = e + 2
         /\ Advanced.linger = parser.linger
         /\ Advanced.content_length = parser.content_length /\ Advanced.cgi = parser.cgi
         /\ Advanced.url = parser.url
  BY <1>1, <1>2, LineTaken
<1>4. /\ ParserOK(Advanced) /\ Len(t) \in Nat /\ parser.linger \in BOOLEAN /\ BufferSize \in Nat
      /\ Len(parser.read_buf) \in Nat /\ Len(parser.read_buf) <= BufferSize /\ AsMeant(meant)
      /\ Len(wire) \in Nat
  BY Types, LineOK
<1>5. e = s
  <2>1. Len(<<>>) = 0
    OBVIOUS
  <2>2. QED
    BY <1>1, <1>2, <1>3, <2>1
<1>6. EndsHead(t, s)
  <2>1. EmptyLine(t, s)
    BY <1>2, <1>3, <1>4, <1>5, ThisHeader
  <2>2. QED
    BY <1>2, <2>1 DEF HeadRead, EndsHead
<1>7. meant.code = "GET_REQUEST"
  <2>1. meant.code # "BAD_REQUEST"
    BY <1>2, <1>4, GoodOrBad DEF AsMeant, HeadRead, FirstLine
  <2>2. s \in 0 .. BufferSize - 2
    BY <1>2, <1>3, <1>4, <1>5
  <2>3. LinesOnly(t, s + 2)
    BY <1>2, <1>3, <1>5, LinesGoOn DEF AtLine
  <2>4. meant.code # "NO_REQUEST"
    BY <1>4, <1>6, <2>2, <2>3 DEF AsMeant, EndsHead
  <2>5. QED
    BY <1>4, <2>1, <2>4 DEF AsMeant
<1>8. /\ SaysLinger(t, s, meant.linger) /\ SaysLength(t, s, Len(meant.body))
      /\ Len(t) = s + 2 + Len(meant.body)
      /\ Len(meant.body) \in Nat /\ (Len(meant.body) = 0 => meant.body = <<>>)
  BY <1>2, <1>6, <1>7, RequestParts, HeadIsUnique
<1>9. parser.linger <=> meant.linger
  BY <1>2, <1>8, Zenon DEF HeadRead, SaysLinger
<1>10. parser.content_length = Len(meant.body)
  BY <1>2, <1>8, LengthIsUnique DEF HeadRead
<1>11. CASE parser.content_length # 0
  <2>1. parser' = [Advanced EXCEPT !.check_state = "CHECK_STATE_CONTENT"] /\ pc' = "parse"
    BY <1>2, <1>11 DEF ParseEmptyLine
  <2>2. /\ parser'.linger = parser.linger /\ parser'.content_length = parser.content_length
        /\ parser'.check_state = "CHECK_STATE_CONTENT"
        /\ parser'.url = parser.url /\ parser'.cgi = parser.cgi
        /\ parser'.read_buf = Advanced.read_buf
        /\ parser'.start_line = s + 2 /\ parser'.checked_idx = s + 2
        /\ parser'.start_line = Advanced.start_line /\ parser'.checked_idx = Advanced.checked_idx
    BY <1>3, <1>4, <1>5, <2>1, MembersSet
  <2>3. Buffered' /\ AtLine'
    BY <1>1, <1>2, <2>2, NextLine
  <2>4. PICK h \in Nat : h = s
    BY <1>2
  <2>5. meant' = meant /\ parser'.start_line = h + 2 /\ parser'.checked_idx = h + 2
    BY <1>2, <2>2, <2>4
  <2>6. Intact(h + 2)'
    BY <2>3, <2>5, Zenon DEF AtLine, Intact
  <2>7. HeadRead(h)'
    BY <1>2, <2>2, <2>4, <2>5 DEF HeadRead, FirstLine
  <2>8. InBody'
    <3>1. h + 2 <= h + 2
      OBVIOUS
    <3>2. parser'.content_length # 0 /\ EndsHead(meant'.text, h)
      BY <1>6, <1>11, <2>2, <2>4, <2>5
    <3>3. parser'.check_state = "CHECK_STATE_CONTENT" /\ meant'.code = "GET_REQUEST" /\ line_status' = "LINE_OK"
      BY <1>1, <1>7, <2>2, <2>5
    <3>4. QED
      BY <2>5, <2>6, <2>7, <3>1, <3>2, <3>3, Zenon DEF InBody
  <2>9. Cuts'
    BY <1>2, <2>1, CutsSame DEF Understood
  <2>10. QED
    BY <2>1, <2>3, <2>8, <2>9 DEF Understood, Parsing, Answered
<1>12. CASE parser.content_length = 0
  <2>1. parser' = Advanced /\ pc' = "answer" /\ code' = "GET_REQUEST"
    BY <1>12 DEF ParseEmptyLine
  <2>2. wire' = <<>>
    <3>1. Len(wire) = 0
      BY <1>2, <1>3, <1>4, <1>5, <1>8, <1>10, <1>12, SMTT(60) DEF Buffered
    <3>2. wire \in Seq(Bytes)
      BY DEF Shape
    <3>3. QED
      BY <1>2, <3>1, <3>2, EmptySeq
  <2>3. FirstLine'
    BY <1>2, <1>3, <2>1 DEF HeadRead, FirstLine
  <2>4. parser'.linger = meant.linger
    <3>1. meant.linger \in BOOLEAN
      <4>1. NoText.linger \in BOOLEAN /\ \A r \in Requests : r.linger \in BOOLEAN
        BY HttpAssumption DEF NoText
      <4>2. QED
        BY <4>1 DEF Shape
    <3>2. \A x, y \in BOOLEAN : (x <=> y) => x = y
      OBVIOUS
    <3>3. parser.linger = meant.linger
      BY <1>4, <1>9, <3>1, <3>2, Zenon
    <3>4. QED
      BY <1>3, <2>1, <3>3
  <2>5. meant' = meant /\ meant.body = <<>>
    BY <1>2, <1>8, <1>10, <1>12
  <2>6. QED
    BY <1>7, <2>1, <2>2, <2>3, <2>4, <2>5 DEF Understood, Parsing, Cuts, Answered
<1>13. QED
  BY <1>11, <1>12

(* parse_line() that finds a line goes on, and changes nothing else. *)
LEMMA LineGoesOn ==
  ASSUME Shape, Line.status = "LINE_OK"
  PROVE  /\ parser.checked_idx < Line.parser.checked_idx
         /\ Line.parser.checked_idx <= Len(parser.read_buf) /\ Line.parser.checked_idx \in Nat
         /\ Len(Line.parser.read_buf) = Len(parser.read_buf)
         /\ \A k \in Line.parser.checked_idx + 1 .. Len(parser.read_buf) :
               Line.parser.read_buf[k] = parser.read_buf[k]
         /\ Line.parser.linger = parser.linger /\ Line.parser.check_state = parser.check_state
         /\ Line.parser.content_length = parser.content_length
         /\ Line.parser.url = parser.url /\ Line.parser.cgi = parser.cgi
         /\ ParserOK(Line.parser)
<1> DEFINE b == parser.read_buf
           c == parser.checked_idx
<1>1. /\ ParserOK(parser) /\ b \in Seq(Bytes) /\ Len(b) \in Nat /\ c \in Nat /\ c <= Len(b)
  BY Types
<1>2. Stop \in Nat /\ c <= Stop /\ Stop <= Len(b)
  BY <1>1, StopExists
<1>3. \E cr \in Nat : c < cr + 2 /\ cr + 2 <= Len(b) /\ Line = After("LINE_OK", cr)
  <2>1. \A status : status # "LINE_OK" => Line # After(status, Stop)
    BY DEF After
  <2>2. \/ Stop > 1 /\ Stop # Len(b) /\ Line = After("LINE_OK", Stop - 1)
        \/ Stop # Len(b) /\ Stop + 1 # Len(b) /\ Line = After("LINE_OK", Stop)
    BY <2>1, LineCases
  <2>3. CASE Stop > 1 /\ Stop # Len(b) /\ Line = After("LINE_OK", Stop - 1)
    <3>1. Stop - 1 \in Nat /\ c < (Stop - 1) + 2 /\ (Stop - 1) + 2 <= Len(b)
      BY <1>1, <1>2, <2>3
    <3>2. QED
      BY <2>3, <3>1
  <2>4. CASE Stop # Len(b) /\ Stop + 1 # Len(b) /\ Line = After("LINE_OK", Stop)
    <3>1. c < Stop + 2 /\ Stop + 2 <= Len(b)
      BY <1>1, <1>2, <2>4
    <3>2. QED
      BY <1>2, <2>4, <3>1
  <2>5. QED
    BY <2>2, <2>3, <2>4
<1>4. PICK cr \in Nat : c < cr + 2 /\ cr + 2 <= Len(b) /\ Line = After("LINE_OK", cr)
  BY <1>3
<1> DEFINE d == [[b EXCEPT ![cr + 1] = "NUL"] EXCEPT ![cr + 2] = "NUL"]
<1>5. PICK length : parser \in ParserType(length)
  BY <1>1 DEF ParserOK
<1>6. Line.parser = [parser EXCEPT !.checked_idx = cr + 2, !.read_buf = d]
  BY <1>4, <1>5 DEF After, ParserType
<1>7. /\ Line.parser.checked_idx = cr + 2 /\ Line.parser.read_buf = d
      /\ Line.parser.linger = parser.linger /\ Line.parser.check_state = parser.check_state
      /\ Line.parser.content_length = parser.content_length
      /\ Line.parser.url = parser.url /\ Line.parser.cgi = parser.cgi
  <2> HIDE DEF d
  <2>1. QED
    BY <1>5, <1>6 DEF ParserType
<1>8. ParserOK(Line.parser)
  BY <1>1, LineOK
<1>9. Len(d) = Len(b)
  <2>1. d \in Seq(Bytes)
    BY <1>7, <1>8 DEF ParserOK, ParserType
  <2>2. DOMAIN d = DOMAIN b
    OBVIOUS
  <2> HIDE DEF d
  <2>3. DOMAIN d = 1 .. Len(d) /\ DOMAIN b = 1 .. Len(b) /\ Len(d) \in Nat
    BY <1>1, <2>1, LenProperties
  <2>4. 1 .. Len(d) = 1 .. Len(b)
    BY <2>2, <2>3
  <2>5. QED
    BY <1>1, <2>3, <2>4
<1>10. \A k \in (cr + 2) + 1 .. Len(b) : d[k] = b[k]
  <2>1. \A k \in (cr + 2) + 1 .. Len(b) : k \in 1 .. Len(b) /\ k # cr + 1 /\ k # cr + 2
    BY <1>1
  <2>2. DOMAIN b = 1 .. Len(b)
    BY <1>1
  <2>3. QED
    BY <2>1, <2>2
<1> HIDE DEF d
<1>11. /\ parser.checked_idx < Line.parser.checked_idx
       /\ Line.parser.checked_idx <= Len(parser.read_buf) /\ Line.parser.checked_idx \in Nat
  <2>1. cr + 2 \in Nat
    OBVIOUS
  <2>2. QED
    BY <1>4, <1>7, <2>1, Zenon
<1>12. Len(Line.parser.read_buf) = Len(parser.read_buf)
  BY <1>7, <1>9, Zenon
<1>13. \A k \in Line.parser.checked_idx + 1 .. Len(parser.read_buf) :
          Line.parser.read_buf[k] = parser.read_buf[k]
  BY <1>7, <1>10, Zenon
<1>14. QED
  BY <1>7, <1>8, <1>11, <1>12, <1>13, Zenon

(* What is known in the body. *)
LEMMA BodyParts ==
  ASSUME Shape, Parsing, pc \in {"in", "parse"}, parser.check_state = "CHECK_STATE_CONTENT"
  PROVE  /\ Buffered /\ meant.code = "GET_REQUEST"
         /\ \E h \in Nat :
               /\ EndsHead(meant.text, h) /\ HeadRead(h) /\ h + 2 <= parser.checked_idx
               /\ parser.checked_idx = h + 2 => parser.start_line = h + 2 /\ Intact(h + 2)
               /\ ~cutInBody => /\ parser.checked_idx = h + 2
                                /\ pc = "parse" /\ line_status # "LINE_OK" => wire # <<>>
               /\ parser.content_length = Len(meant.body) /\ Len(meant.body) \in Nat \ {0}
               /\ Len(meant.text) = h + 2 + Len(meant.body)
               /\ meant.body = SubSeq(meant.text, h + 3, Len(meant.text))
               /\ parser.linger = meant.linger
<1>1. Buffered /\ InBody
  BY DEF Parsing, InHead
<1>2. PICK h \in Nat :
         /\ EndsHead(meant.text, h) /\ HeadRead(h) /\ parser.content_length # 0
         /\ h + 2 <= parser.checked_idx
         /\ parser.checked_idx = h + 2 => parser.start_line = h + 2 /\ Intact(h + 2)
         /\ ~cutInBody => /\ parser.checked_idx = h + 2
                          /\ pc = "parse" /\ line_status # "LINE_OK" => wire # <<>>
  BY <1>1 DEF InBody
<1>3. meant.code = "GET_REQUEST"
  BY <1>1 DEF InBody
<1>4. PICK g \in Nat : /\ EndsHead(meant.text, g) /\ SaysLinger(meant.text, g, meant.linger)
                       /\ SaysLength(meant.text, g, Len(meant.body))
                       /\ Len(meant.text) = g + 2 + Len(meant.body)
                       /\ meant.body = SubSeq(meant.text, g + 3, Len(meant.text))
  BY <1>3, RequestParts
<1>5. g = h /\ Len(meant.body) \in Nat
  BY <1>2, <1>3, <1>4, HeadIsUnique, RequestParts
<1>6. parser.content_length = Len(meant.body)
  BY <1>2, <1>4, <1>5, LengthIsUnique DEF HeadRead
<1>7. parser.linger = meant.linger
  <2>1. parser.linger <=> meant.linger
    BY <1>2, <1>4, <1>5, Zenon DEF HeadRead, SaysLinger
  <2>2. parser.linger \in BOOLEAN /\ meant.linger \in BOOLEAN
    <3>1. NoText.linger \in BOOLEAN /\ \A r \in Requests : r.linger \in BOOLEAN
      BY HttpAssumption DEF NoText
    <3>2. meant.linger \in BOOLEAN
      BY <3>1 DEF Shape
    <3>3. QED
      BY <3>2, Types
  <2>3. \A x, y \in BOOLEAN : (x <=> y) => x = y
    OBVIOUS
  <2>4. QED
    BY <2>1, <2>2, <2>3, Zenon
<1>8. Len(meant.body) \in Nat \ {0}
  BY <1>2, <1>5, <1>6
<1>9. QED
  BY <1>1, <1>2, <1>3, <1>4, <1>5, <1>6, <1>7, <1>8

(* What was read ends where the body begins, unless a read ended inside    *)
(* it, or everything was read.                                             *)
LEMMA BodyIsAhead ==
  ASSUME Shape, Cuts, Buffered, pc \in {"in", "parse"}, ~cutInBody, meant.code = "GET_REQUEST", wire # <<>>,
         NEW h \in Nat, Len(meant.text) = h + 2 + Len(meant.body), Len(meant.body) \in Nat,
         parser.checked_idx = h + 2
  PROVE  Len(parser.read_buf) = parser.checked_idx
<1>1. Len(wire) >= Len(meant.body)
  BY DEF Cuts
<1>2. PICK size \in Nat : size = Len(meant.body)
  OBVIOUS
<1>3. Len(wire) >= size /\ Len(meant.text) = h + 2 + size /\ parser.checked_idx <= Len(parser.read_buf)
  BY <1>1, <1>2, Types
<1>4. Len(parser.read_buf) + Len(wire) = Len(meant.text)
  BY DEF Buffered
<1>5. Len(parser.read_buf) \in Nat /\ Len(wire) \in Nat
  BY Types
<1>6. \A n, m \in Nat : n + m = h + 2 + size /\ m >= size /\ h + 2 <= n => n = h + 2
  OBVIOUS
<1>7. QED
  BY <1>3, <1>4, <1>5, <1>6

(* pares_content() *)
LEMMA ContentIsUnderstood ==
  ASSUME Shape, Understood, ParseContent
  PROVE  Understood'
<1> DEFINE t == meant.text
           b == parser.read_buf
           c == parser.checked_idx
<1>1. /\ pc = "parse" /\ parser.check_state = "CHECK_STATE_CONTENT"
      /\ line_status = "LINE_OK" \/ Line.status = "LINE_OK"
      /\ UNCHANGED <<wire, meant, cutInBody>>
  BY DEF ParseContent, histories
<1>2. /\ b \in Seq(Bytes) /\ t \in Seq(Bytes) /\ wire \in Seq(Bytes)
      /\ Len(b) \in Nat /\ Len(t) \in Nat /\ Len(wire) \in Nat /\ c \in Nat /\ c <= Len(b)
      /\ ParserOK(parser)
  BY Types
<1>3. PICK h \in Nat :
         /\ EndsHead(t, h) /\ HeadRead(h) /\ h + 2 <= c
         /\ c = h + 2 => parser.start_line = h + 2 /\ Intact(h + 2)
         /\ ~cutInBody => /\ c = h + 2
                          /\ pc = "parse" /\ line_status # "LINE_OK" => wire # <<>>
         /\ parser.content_length = Len(meant.body) /\ Len(meant.body) \in Nat \ {0}
         /\ Len(t) = h + 2 + Len(meant.body)
         /\ meant.body = SubSeq(t, h + 3, Len(t)) /\ parser.linger = meant.linger
  BY <1>1, BodyParts DEF Understood
<1>4. Buffered /\ meant.code = "GET_REQUEST" /\ Len(b) + Len(wire) = Len(t)
  BY <1>1, BodyParts DEF Understood, Buffered
<1>0. PICK size \in Nat \ {0} : size = Len(meant.body)
  BY <1>3
<1>a. Len(t) = h + 2 + size /\ parser.content_length = size
  BY <1>0, <1>3
<1> DEFINE p == IF line_status = "LINE_OK" THEN parser ELSE Line.parser
<1>5. /\ parser' = [p EXCEPT !.start_line = p.checked_idx]
      /\ IF ContentIsComplete(p)
         THEN /\ string' = SubSeq(p.read_buf, p.start_line + 1, p.start_line + p.content_length)
              /\ pc' = "answer" /\ code' = "GET_REQUEST"
         ELSE line_status' = "LINE_OPEN" /\ pc' = pc
  BY DEF ParseContent
<1>6. /\ ParserOK(p) /\ Len(p.read_buf) = Len(b) /\ p.content_length = size
      /\ p.linger = parser.linger /\ p.check_state = parser.check_state
      /\ p.url = parser.url /\ p.cgi = parser.cgi
      /\ p.checked_idx \in Nat /\ c <= p.checked_idx /\ p.checked_idx <= Len(b)
      /\ line_status # "LINE_OK" => c < p.checked_idx
      /\ line_status = "LINE_OK" => p = parser
  <2>1. CASE line_status = "LINE_OK"
    <3>1. p = parser
      BY <2>1
    <3> HIDE DEF p
    <3>2. QED
      BY <1>2, <1>a, <2>1, <3>1
  <2>2. CASE line_status # "LINE_OK"
    <3>1. Line.status = "LINE_OK" /\ p = Line.parser
      BY <1>1, <2>2
    <3> HIDE DEF p
    <3>2. /\ ParserOK(p) /\ Len(p.read_buf) = Len(b) /\ p.content_length = parser.content_length
          /\ p.linger = parser.linger /\ p.check_state = parser.check_state
          /\ p.url = parser.url /\ p.cgi = parser.cgi
          /\ p.checked_idx \in Nat /\ c < p.checked_idx /\ p.checked_idx <= Len(b)
      BY <3>1, LineGoesOn
    <3>3. c <= p.checked_idx
      BY <1>2, <3>2
    <3>4. QED
      BY <1>a, <2>2, <3>2, <3>3
  <2>3. QED
    BY <2>1, <2>2
<1> HIDE DEF p
<1>7. /\ parser'.read_buf = p.read_buf /\ parser'.start_line = p.checked_idx
      /\ parser'.checked_idx = p.checked_idx
      /\ parser'.content_length = size /\ parser'.linger = parser.linger
      /\ parser'.check_state = "CHECK_STATE_CONTENT" /\ parser'.url = parser.url
      /\ parser'.cgi = parser.cgi
  <2>1. PICK n : n = p.checked_idx
    OBVIOUS
  <2>2. parser' = [p EXCEPT !.start_line = n]
    BY <1>5, <2>1
  <2>3. QED
    BY <1>1, <1>6, <2>1, <2>2, MembersSet
<1>8. FirstLine' /\ HeadRead(h)'
  BY <1>1, <1>3, <1>a, <1>7 DEF HeadRead, FirstLine
<1>9. Cuts'
  <2>1. pc' \in {"parse", "answer"}
    BY <1>1, <1>5
  <2>2. QED
    BY <1>1, <2>1, CutsSame DEF Understood
<1>10. CASE ContentIsComplete(p)
  <2>1. Len(b) >= size + p.checked_idx
    BY <1>6, <1>10 DEF ContentIsComplete
  <2>2. /\ p.checked_idx = h + 2 /\ c = h + 2 /\ Len(b) = Len(t) /\ Len(wire) = 0
        /\ line_status = "LINE_OK"
    BY <1>2, <1>3, <1>4, <1>6, <1>a, <2>1, SMTT(60)
  <2>3. wire' = <<>>
    BY <1>1, <1>2, <2>2, EmptySeq
  <2>4. string' = SubSeq(b, h + 3, Len(t))
    <3>1. p = parser /\ parser.start_line = h + 2 /\ parser.content_length = size
      BY <1>3, <1>6, <1>a, <2>2
    <3>2. (h + 2) + 1 = h + 3 /\ (h + 2) + size = Len(t)
      BY <1>a
    <3>3. QED
      BY <1>5, <1>10, <3>1, <3>2
  <2>5. SubSeq(b, h + 3, Len(t)) = SubSeq(t, h + 3, Len(t))
    <3>1. \A k \in h + 3 .. Len(t) : b[k] = t[k]
      <4>1. (h + 2) + 1 = h + 3
        OBVIOUS
      <4>2. QED
        BY <1>3, <2>2, <4>1 DEF Intact
    <3>2. h + 3 \in Nat \ {0}
      OBVIOUS
    <3>3. QED
      BY <1>2, <2>2, <3>1, <3>2, SamePiece
  <2>6. pc' = "answer" /\ code' = "GET_REQUEST" /\ string' = meant.body
    BY <1>3, <1>5, <1>10, <2>4, <2>5
  <2>7. parser'.linger = meant.linger
    BY <1>3, <1>7
  <2>8. HasString'
    BY <1>7 DEF HasString
  <2>9. QED
    BY <1>1, <1>4, <1>8, <1>9, <2>3, <2>6, <2>7, <2>8 DEF Understood, Parsing, Answered
<1>11. CASE ~ContentIsComplete(p)
  <2>1. line_status' = "LINE_OPEN" /\ pc' = "parse"
    BY <1>1, <1>5, <1>11
  <2>2. Len(b) < size + p.checked_idx
    BY <1>2, <1>6, <1>11 DEF ContentIsComplete
  <2>3. Buffered'
    BY <1>1, <1>4, <1>6, <1>7 DEF Buffered
  <2>4. p.checked_idx = h + 2 => Intact(h + 2)'
    <3>1. p.checked_idx = h + 2 => p = parser /\ c = h + 2
      BY <1>2, <1>3, <1>6
    <3>2. QED
      BY <1>1, <1>3, <1>7, <3>1 DEF Intact
  <2>5. ~cutInBody => p.checked_idx = h + 2 /\ wire # <<>>
    <3> SUFFICES ASSUME ~cutInBody PROVE p.checked_idx = h + 2 /\ wire # <<>>
      OBVIOUS
    <3>1. CASE line_status = "LINE_OK"
      <4>1. p.checked_idx = h + 2
        BY <1>3, <1>6, <3>1
      <4>2. Len(wire) # 0
        BY <1>2, <1>a, <1>4, <2>2, <4>1
      <4>3. Len(<<>>) = 0
        OBVIOUS
      <4>4. QED
        BY <4>1, <4>2, <4>3
    <3>2. CASE line_status # "LINE_OK"
      <4>1. c = h + 2 /\ wire # <<>>
        BY <1>1, <1>3, <3>2
      <4>2. Len(b) = c
        BY <1>1, <1>3, <1>4, <4>1, BodyIsAhead DEF Understood
      <4>3. QED
        BY <1>2, <1>6, <3>2, <4>2
    <3>3. QED
      BY <3>1, <3>2
  <2>6. h + 2 <= p.checked_idx
    BY <1>2, <1>3, <1>6
  <2>7. parser'.content_length # 0
    BY <1>3, <1>7
  <2>8. EndsHead(meant'.text, h) /\ meant'.code = "GET_REQUEST"
    BY <1>1, <1>3, <1>4
  <2>9. ~cutInBody' => parser'.checked_idx = h + 2 /\ wire' # <<>>
    BY <1>1, <1>7, <2>5
  <2>10. InBody'
    BY <1>7, <1>8, <2>4, <2>6, <2>7, <2>8, <2>9, Zenon DEF InBody
  <2>11. QED
    BY <1>9, <2>1, <2>3, <2>10 DEF Understood, Parsing, Answered
<1>12. QED
  BY <1>10, <1>11

(* A line of the head that was read is found. *)
LEMMA HeadIsFound ==
  ASSUME Shape, Buffered, InHead, wire = <<>>, meant.code # "NO_REQUEST"
  PROVE  Line.status = "LINE_OK"
<1> DEFINE t == meant.text
           s == parser.start_line
<1>1. AtLine /\ StartsLine(t, s) /\ s \in Nat /\ Len(t) \in Nat /\ AsMeant(meant)
  BY Types DEF InHead, AtLine
<1>2. Len(parser.read_buf) = Len(t)
  <2>1. Len(<<>>) = 0
    OBVIOUS
  <2>2. QED
    BY <2>1, Types DEF Buffered
<1>3. ASSUME NEW e \in Nat, IsLine(t, s, e) PROVE Line.status = "LINE_OK"
  <2>1. e + 2 <= Len(parser.read_buf)
    BY <1>2, <1>3 DEF IsLine, EndsLine
  <2>2. QED
    BY <1>1, <1>3, <2>1, LineFinds
<1>4. CASE meant.code = "GET_REQUEST"
  <2>1. PICK h \in Nat : EndsHead(t, h) /\ LinesOnly(t, h + 2)
    BY <1>4, RequestParts
  <2>2. s <= h
    <3>1. CASE s = 0
      BY <3>1
    <3>2. CASE s > 0
      <4>1. \A i \in 0 .. s - 1 : ~EmptyLine(t, i)
        BY <3>2 DEF InHead, HeadRead
      <4>2. h \notin 0 .. s - 1
        BY <2>1, <4>1 DEF EndsHead
      <4>3. QED
        BY <1>1, <4>2
    <3>3. QED
      BY <1>1, <3>1, <3>2
  <2>3. PICK e \in s .. h : IsLine(t, s, e)
    BY <1>1, <2>1, <2>2, LineHasEnd DEF EndsHead
  <2>4. e \in Nat
    BY <1>1
  <2>5. QED
    BY <1>3, <2>3, <2>4
<1>5. CASE meant.code = "BAD_REQUEST"
  <2>1. BadStart(t)
    BY <1>1, <1>5 DEF AsMeant
  <2>2. ~GoodStart(t)
    BY <2>1, GoodOrBad
  <2>3. s = 0
    BY <2>2 DEF InHead, HeadRead, FirstLine
  <2>4. PICK e \in 0 .. Len(t) : IsLine(t, 0, e)
    BY <2>1 DEF BadStart
  <2>5. QED
    BY <1>3, <2>3, <2>4
<1>6. QED
  BY <1>1, <1>4, <1>5 DEF AsMeant

(* process_read() ends with NO_REQUEST *)
LEMMA WaitingIsUnderstood ==
  ASSUME Shape, Understood, Incomplete
  PROVE  Understood'
<1> DEFINE t == meant.text
           b == parser.read_buf
           c == parser.checked_idx
<1>1. /\ pc = "parse" /\ pc' = "in" /\ Line.status # "LINE_OK"
      /\ parser.check_state = "CHECK_STATE_CONTENT" => line_status # "LINE_OK"
      /\ parser' = Line.parser /\ UNCHANGED <<wire, meant, cutInBody>>
  BY DEF Incomplete, histories
<1>2. /\ ParserOK(parser) /\ Len(b) \in Nat /\ c \in Nat
  BY Types
<1>3. parser' = [parser EXCEPT !.checked_idx = Stop] /\ Stop \in Nat /\ c <= Stop /\ Stop <= Len(b)
  <2>1. parser' = [parser EXCEPT !.checked_idx = Stop]
    BY <1>1, <1>2, LineEffect
  <2>2. Stop \in c .. Len(b)
    BY <1>2, StopExists
  <2>3. QED
    BY <1>2, <2>1, <2>2
<1>4. PICK stop \in Nat : stop = Stop
  BY <1>3
<1>5. /\ parser'.linger = parser.linger /\ parser'.content_length = parser.content_length
      /\ parser'.check_state = parser.check_state
      /\ parser'.url = parser.url /\ parser'.cgi = parser.cgi /\ parser'.read_buf = b
      /\ parser'.start_line = parser.start_line /\ parser'.checked_idx = stop
  <2>1. parser' = [parser EXCEPT !.checked_idx = stop]
    BY <1>3, <1>4
  <2>2. QED
    BY <1>2, <2>1, MembersSet
<1>6. Buffered /\ (InHead \/ InBody)
  BY <1>1 DEF Understood, Parsing
<1>7. Buffered' /\ \A n : Intact(n)' <=> Intact(n)
  BY <1>1, <1>5, <1>6 DEF Buffered, Intact
<1>8. \A n : HeadRead(n)' <=> HeadRead(n)
  BY <1>1, <1>5 DEF HeadRead, FirstLine
<1>9. meant.code = "GET_REQUEST" /\ ~cutInBody => wire = <<>> \/ Len(wire) >= Len(meant.body)
  BY <1>1 DEF Understood, Cuts
<1>10. CASE InHead
  <2>1. NoEnd(t, parser.start_line, stop)
    BY <1>4, <1>6, <1>10, LineFinds DEF InHead
  <2>2. AtLine'
    BY <1>1, <1>5, <1>7, <1>10, <2>1 DEF InHead, AtLine, Intact
  <2>3. InHead'
    BY <1>5, <1>8, <1>10, <2>2 DEF InHead
  <2>4. Cuts'
    <3>1. meant.code # "NO_REQUEST" => wire # <<>>
      BY <1>1, <1>6, <1>10, HeadIsFound
    <3>2. QED
      BY <1>1, <1>9, <3>1 DEF Cuts
  <2>5. QED
    BY <1>1, <1>7, <2>3, <2>4 DEF Understood, Parsing, Answered
<1>11. CASE InBody
  <2>1. parser.check_state = "CHECK_STATE_CONTENT" /\ line_status # "LINE_OK"
    BY <1>1, <1>11 DEF InBody
  <2>2. PICK h \in Nat :
           /\ EndsHead(t, h) /\ HeadRead(h) /\ h + 2 <= c
           /\ c = h + 2 => parser.start_line = h + 2 /\ Intact(h + 2)
           /\ ~cutInBody => /\ c = h + 2
                            /\ pc = "parse" /\ line_status # "LINE_OK" => wire # <<>>
           /\ parser.content_length = Len(meant.body) /\ Len(meant.body) \in Nat \ {0}
           /\ Len(t) = h + 2 + Len(meant.body)
    BY <1>1, <2>1, BodyParts DEF Understood
  <2>3. meant.code = "GET_REQUEST"
    BY <1>11 DEF InBody
  <2>4. ~cutInBody => stop = h + 2 /\ wire # <<>>
    <3> SUFFICES ASSUME ~cutInBody PROVE stop = h + 2 /\ wire # <<>>
      OBVIOUS
    <3>1. wire # <<>> /\ c = h + 2
      BY <1>1, <2>1, <2>2
    <3>2. Len(b) = c
      BY <1>1, <1>6, <2>2, <2>3, <3>1, BodyIsAhead DEF Understood
    <3>3. QED
      BY <1>2, <1>3, <1>4, <3>1, <3>2
  <2>5. stop = h + 2 => parser.start_line = h + 2 /\ Intact(h + 2)
    BY <1>2, <1>3, <1>4, <2>2
  <2>6. /\ EndsHead(meant'.text, h) /\ meant'.code = "GET_REQUEST" /\ h + 2 <= stop
        /\ parser'.content_length # 0
    BY <1>1, <1>2, <1>3, <1>4, <1>5, <2>2, <2>3
  <2>7. ~cutInBody' => stop = h + 2 /\ wire' # <<>>
    BY <1>1, <2>4
  <2>8. InBody'
    BY <1>5, <1>7, <1>8, <2>1, <2>2, <2>5, <2>6, <2>7, Zenon DEF InBody
  <2>9. Cuts'
    BY <1>1, <1>9, <2>4 DEF Cuts
  <2>10. QED
    BY <1>1, <1>7, <2>8, <2>9 DEF Understood, Parsing, Answered
<1>12. QED
  BY <1>6, <1>10, <1>11

-------------------------------------------------------------------------------
(* The network, the answer, and the theorems                               *)

(* read(), wherever the network cuts *)
LEMMA CutIsUnderstood ==
  ASSUME Shape, Understood, NEW k \in 1 .. Len(wire), Read(k)
  PROVE  Understood'
<1> DEFINE t == meant.text
           b == parser.read_buf
           n == Len(parser.read_buf)
<1>1. /\ pc = "in" /\ pc' = "parse" /\ line_status' = "LINE_OK" /\ UNCHANGED meant
      /\ parser' = [parser EXCEPT !.read_buf = b \o SubSeq(wire, 1, k)]
      /\ wire' = SubSeq(wire, k + 1, Len(wire)) /\ (cutInBody' = (cutInBody \/ EndsInBody(k)))
  BY DEF Read
<1>2. /\ b \in Seq(Bytes) /\ wire \in Seq(Bytes) /\ n \in Nat /\ Len(wire) \in Nat
      /\ parser.start_line \in Nat /\ parser.start_line <= n /\ ParserOK(parser)
      /\ parser.checked_idx \in Nat /\ parser.checked_idx <= n
  BY Types
<1>3. Buffered /\ (InHead \/ InBody)
  BY <1>1 DEF Understood, Parsing
<1>4. \A i \in 1 .. Len(wire) : wire[i] \in Bytes
  BY <1>2, ElementOfSeq
<1>5. /\ SubSeq(wire, 1, k) \in Seq(Bytes) /\ Len(SubSeq(wire, 1, k)) = k
      /\ \A i \in 1 .. k : SubSeq(wire, 1, k)[i] = wire[i]
  <2>1. /\ 1 \in Int /\ k \in Int /\ (1 <= k) /\ k - 1 + 1 = k /\ \A i \in 1 .. k : i \in 1 .. Len(wire)
        /\ \A i \in 1 .. k : 1 + i - 1 = i
    BY <1>2
  <2>2. \A i \in 1 .. k : wire[i] \in Bytes
    BY <1>4, <2>1
  <2>3. QED
    BY <2>1, <2>2, SubSeqProperties
<1>6. /\ Len(wire') = Len(wire) - k
      /\ \A i \in 1 .. Len(wire) - k : wire'[i] = wire[k + i]
  <2>1. /\ k + 1 \in Int /\ Len(wire) \in Int /\ \A i \in k + 1 .. Len(wire) : i \in 1 .. Len(wire)
        /\ Len(wire) - (k + 1) + 1 = Len(wire) - k
        /\ \A i \in 1 .. Len(wire) - k : (k + 1) + i - 1 = k + i
        /\ (k + 1 <= Len(wire) \/ Len(wire) - k = 0)
    BY <1>2
  <2>2. /\ Len(SubSeq(wire, k + 1, Len(wire))) = IF k + 1 <= Len(wire) THEN Len(wire) - (k + 1) + 1 ELSE 0
        /\ \A i \in 1 .. Len(wire) - (k + 1) + 1 :
              SubSeq(wire, k + 1, Len(wire))[i] = wire[(k + 1) + i - 1]
    <3>1. \A i \in k + 1 .. Len(wire) : wire[i] \in Bytes
      BY <1>4, <2>1
    <3>2. PICK first \in Int : first = k + 1
      BY <2>1
    <3>3. PICK last \in Int : last = Len(wire)
      BY <2>1
    <3>4. \A i \in first .. last : wire[i] \in Bytes
      BY <3>1, <3>2, <3>3
    <3>5. /\ Len(SubSeq(wire, first, last)) = IF first <= last THEN last - first + 1 ELSE 0
          /\ \A i \in 1 .. last - first + 1 : SubSeq(wire, first, last)[i] = wire[first + i - 1]
      BY <3>4, SubSeqProperties
    <3>6. QED
      BY <3>2, <3>3, <3>5, Zenon
  <2>3. QED
    BY <1>1, <2>1, <2>2
<1>7. /\ parser'.linger = parser.linger /\ parser'.content_length = parser.content_length
      /\ parser'.check_state = parser.check_state /\ parser'.url = parser.url /\ parser'.cgi = parser.cgi
      /\ parser'.start_line = parser.start_line /\ parser'.checked_idx = parser.checked_idx
      /\ parser'.read_buf = b \o SubSeq(wire, 1, k)
  BY <1>1, <1>2 DEF ParserOK, ParserType
<1>8. /\ Len(parser'.read_buf) = n + k
      /\ \A i \in 1 .. n : parser'.read_buf[i] = b[i]
      /\ \A i \in 1 .. k : parser'.read_buf[n + i] = wire[i]
  <2>1. /\ Len(b \o SubSeq(wire, 1, k)) = n + k
        /\ \A i \in 1 .. n + k : (b \o SubSeq(wire, 1, k))[i] =
                                    IF i <= n THEN b[i] ELSE SubSeq(wire, 1, k)[i - n]
    BY <1>2, <1>5, ConcatProperties
  <2>2. \A i \in 1 .. n : i \in 1 .. n + k /\ i <= n
    BY <1>2
  <2>3. \A i \in 1 .. k : n + i \in 1 .. n + k /\ ~(n + i <= n) /\ (n + i) - n = i
    BY <1>2
  <2>4. QED
    BY <1>5, <1>7, <2>1, <2>2, <2>3
<1>9. Len(t) = n + Len(wire) /\ \A i \in 1 .. Len(wire) : wire[i] = t[n + i]
  BY <1>3 DEF Buffered
<1>10. Buffered'
  <2>1. (n + k) + (Len(wire) - k) = n + Len(wire)
    BY <1>2
  <2>2. \A i \in 1 .. Len(wire) - k : k + i \in 1 .. Len(wire) /\ n + (k + i) = (n + k) + i
    <3>1. \A m \in Nat : \A i \in 1 .. m - k : k + i \in 1 .. m
      OBVIOUS
    <3>2. \A x \in Nat, i \in Int : x + (k + i) = (x + k) + i
      OBVIOUS
    <3>3. \A i \in 1 .. Len(wire) - k : i \in Int
      OBVIOUS
    <3>4. QED
      BY <1>2, <3>1, <3>2, <3>3
  <2>3. \A i \in 1 .. Len(wire) - k : wire'[i] = t[(n + k) + i]
    <3>1. \A i \in 1 .. Len(wire) - k : wire'[i] = t[n + (k + i)]
      BY <1>6, <1>9, <2>2
    <3>2. QED
      BY <2>2, <3>1
  <2>4. QED
    BY <1>1, <1>6, <1>8, <1>9, <2>1, <2>3 DEF Buffered
<1>11. ASSUME NEW m \in Nat, Intact(m) PROVE Intact(m)'
  <2> SUFFICES ASSUME NEW i \in m + 1 .. n + k PROVE parser'.read_buf[i] = t[i]
    BY <1>1, <1>8 DEF Intact
  <2>1. CASE i <= n
    <3>1. i \in m + 1 .. n /\ i \in 1 .. n
      BY <1>2, <2>1
    <3>2. QED
      BY <1>8, <1>11, <3>1 DEF Intact
  <2>2. CASE i > n
    <3>1. i - n \in 1 .. k /\ i - n \in 1 .. Len(wire) /\ n + (i - n) = i
      BY <1>2, <2>2
    <3>2. QED
      BY <1>8, <1>9, <3>1
  <2>3. QED
    BY <1>2, <2>1, <2>2
<1>12. \A m : HeadRead(m)' <=> HeadRead(m)
  BY <1>1, <1>7 DEF HeadRead, FirstLine
<1>13. InHead \/ InBody => InHead' \/ InBody'
  <2>1. CASE InHead
    <3>1. PICK s \in Nat : s = parser.start_line
      BY <1>2
    <3>2. Intact(s)'
      BY <1>11, <2>1, <3>1 DEF InHead, AtLine
    <3>3. parser'.start_line = s
      BY <1>7, <3>1
    <3>4. Intact(parser.start_line)'
      BY <3>2, <3>3, Zenon DEF Intact
    <3>5. s > 0 => parser'.read_buf[s] = parser.read_buf[s]
      BY <1>2, <1>8, <3>1
    <3>6. AtLine'
      BY <1>1, <1>7, <2>1, <3>1, <3>4, <3>5 DEF InHead, AtLine
    <3>7. QED
      BY <1>7, <1>12, <2>1, <3>6 DEF InHead
  <2>2. CASE InBody
    <3>1. PICK h \in Nat :
             /\ EndsHead(t, h) /\ HeadRead(h) /\ parser.content_length # 0
             /\ h + 2 <= parser.checked_idx
             /\ parser.checked_idx = h + 2 => parser.start_line = h + 2 /\ Intact(h + 2)
             /\ ~cutInBody => parser.checked_idx = h + 2
      BY <2>2 DEF InBody
    <3>2. h + 2 \in Nat
      OBVIOUS
    <3>3. /\ EndsHead(meant'.text, h) /\ HeadRead(h)' /\ parser'.content_length # 0
          /\ h + 2 <= parser'.checked_idx
          /\ parser'.checked_idx = h + 2 => parser'.start_line = h + 2 /\ Intact(h + 2)'
          /\ ~cutInBody' => parser'.checked_idx = h + 2
      BY <1>1, <1>7, <1>11, <1>12, <3>1, <3>2
    <3>4. parser'.check_state = "CHECK_STATE_CONTENT" /\ meant'.code = "GET_REQUEST"
      BY <1>1, <1>7, <2>2 DEF InBody
    <3>5. InBody'
      BY <1>1, <3>3, <3>4, Zenon DEF InBody
    <3>6. QED
      BY <3>5
  <2>3. QED
    BY <2>1, <2>2
<1>14. Cuts'
  <2> SUFFICES ASSUME ~cutInBody', meant.code = "GET_REQUEST"
               PROVE  wire' = <<>> \/ Len(wire') >= Len(meant.body)
    BY <1>1 DEF Cuts
  <2>1. PICK size \in Nat : size = Len(meant.body)
    BY RequestParts
  <2>2. ~cutInBody /\ ~(Len(wire) - k \in 1 .. size - 1)
    BY <1>1, <2>1 DEF EndsInBody
  <2>3. Len(wire') = 0 \/ Len(wire') >= size
    BY <1>2, <1>6, <2>1, <2>2
  <2>4. wire' \in Seq(Bytes)
    BY <1>1, ReadOK, <1>2 DEF Read
  <2>5. QED
    BY <2>1, <2>3, <2>4, EmptySeq
<1>15. QED
  BY <1>1, <1>3, <1>10, <1>13, <1>14 DEF Understood, Parsing, Answered

(* Nothing was read into a fresh object, whatever comes. *)
LEMMA FreshInHead ==
  ASSUME parser'.read_buf = <<>>, parser'.start_line = 0, parser'.checked_idx = 0,
         parser'.check_state = "CHECK_REQUESTINE", parser'.linger = FALSE,
         parser'.content_length = 0, parser'.cgi = 0, wire' = meant'.text, Len(wire') \in Nat
  PROVE  Buffered' /\ InHead'
<1>1. Len(<<>>) = 0
  OBVIOUS
<1>2. Buffered'
  BY <1>1 DEF Buffered
<1>3. AtLine'
  <2>1. StartsLine(meant'.text, 0) /\ NoEnd(meant'.text, 0, 0) /\ LinesOnly(meant'.text, 0)
    BY DEF StartsLine, NoEnd, LinesOnly
  <2>2. Intact(0)'
    BY <1>1 DEF Intact
  <2>3. Intact(parser.start_line)'
    BY <2>2, Zenon DEF Intact
  <2>4. ~(0 > 0)
    OBVIOUS
  <2>5. QED
    BY <2>1, <2>3, <2>4, Zenon DEF AtLine
<1>4. QED
  BY <1>2, <1>3 DEF InHead

(* The connection is new, or its object is used again. *)
LEMMA ResetIsUnderstood ==
  ASSUME Shape, pc' = "in", wire' = <<>>, meant' = NoText, parser' = Reset
  PROVE  Understood'
<1>1. /\ parser'.read_buf = <<>> /\ parser'.start_line = 0 /\ parser'.checked_idx = 0
      /\ parser'.check_state = "CHECK_REQUESTINE" /\ parser'.linger = FALSE
      /\ parser'.content_length = 0 /\ parser'.cgi = 0
  BY DEF Reset, Parser
<1>2. meant'.text = <<>> /\ meant'.code = "NO_REQUEST" /\ Len(<<>>) \in Nat
  BY DEF NoText
<1>3. Buffered' /\ InHead'
  BY <1>1, <1>2, FreshInHead
<1>4. QED
  BY <1>2, <1>3 DEF Understood, Parsing, Cuts, Answered

(* The next request finds a parser that knows nothing. *)
LEMMA SendIsUnderstood ==
  ASSUME Shape, Understood, NEW r \in Requests, Send(r)
  PROVE  Understood'
<1>1. /\ pc = "in" /\ pc' = "in" /\ meant = NoText /\ wire' = r.text /\ meant' = r
      /\ UNCHANGED <<parser, cutInBody, line_status>>
  BY DEF Send, histories
<1>2. meant.text = <<>> /\ Len(<<>>) = 0
  BY <1>1 DEF NoText
<1>3. Buffered /\ (InHead \/ InBody)
  BY <1>1 DEF Understood, Parsing
<1>4. Len(parser.read_buf) = 0 /\ parser.start_line = 0 /\ parser.checked_idx = 0
  BY <1>2, <1>3, Types DEF Buffered
<1>5. parser.read_buf = <<>>
  BY <1>4, Types, EmptySeq
<1>6. InHead /\ parser.check_state = "CHECK_REQUESTINE"
  <2>1. ~InBody
    BY <1>4 DEF InBody
  <2>2. QED
    BY <1>3, <1>4, <2>1 DEF InHead
<1>7. parser.linger = FALSE /\ parser.content_length = 0 /\ parser.cgi = 0
  BY <1>6 DEF InHead
<1>8. r.text \in Seq(Bytes) /\ Len(r.text) \in Nat
  BY TextsAreBytes, LenProperties
<1>9. Buffered' /\ InHead'
  BY <1>1, <1>4, <1>5, <1>6, <1>7, <1>8, FreshInHead
<1>10. AsMeant(r)
  BY MeaningAssumption
<1>11. r.code = "GET_REQUEST" => Len(r.text) >= Len(r.body)
  BY HttpAssumption
<1>12. r.code # "NO_REQUEST" => r.text # <<>>
  <2>1. r.code # "NO_REQUEST" => \E e \in 0 .. Len(r.text) : EndsLine(r.text, e)
    BY <1>10 DEF AsMeant, GoodStart, BadStart, IsLine
  <2>2. \A e \in 0 .. Len(<<>>) : ~EndsLine(<<>>, e)
    BY <1>2 DEF EndsLine
  <2>3. QED
    BY <2>1, <2>2
<1>13. Cuts'
  BY <1>1, <1>11, <1>12 DEF Cuts
<1>14. QED
  BY <1>1, <1>9, <1>13 DEF Understood, Parsing, Answered

(* What do_request() has to go by.  m_string is the body, if there is one. *)
LEMMA RequestKnown ==
  ASSUME Shape, Understood, pc = "answer", code = "GET_REQUEST"
  PROVE  /\ meant.code = "GET_REQUEST"
         /\ parser.url = meant.text[2] /\ meant.page = MeantPage(meant.text, meant.body)
         /\ parser.cgi = 1 <=> meant.text[1] = "POST"
         /\ IsForm(meant.text) <=> LogsIn \/ Registers
         /\ \/ ~IsForm(meant.text)
            \/ FormWithoutBody(meant)
            \/ HasString /\ string = meant.body /\ meant.body # <<>> /\ Len(string) = 4
<1>1. meant.code = "GET_REQUEST" /\ FirstLine /\ (meant.body # <<>> => string = meant.body /\ HasString)
  BY DEF Understood, Answered
<1>2. /\ meant.page = MeantPage(meant.text, meant.body)
      /\ IsForm(meant.text) => Len(meant.body) \in {0, 4}
      /\ Len(meant.body) = 0 => meant.body = <<>>
  BY <1>1, RequestParts
<1>3. parser.url = meant.text[2] /\ (parser.cgi = IF meant.text[1] = "POST" THEN 1 ELSE 0)
  BY <1>1 DEF FirstLine
<1>4. parser.cgi = 1 <=> meant.text[1] = "POST"
  BY <1>3
<1>5. IsForm(meant.text) <=> LogsIn \/ Registers
  BY <1>3, <1>4 DEF IsForm, LogsIn, Registers
<1>6. ASSUME IsForm(meant.text), ~FormWithoutBody(meant)
      PROVE  HasString /\ string = meant.body /\ meant.body # <<>> /\ Len(string) = 4
  <2>1. meant.body # <<>>
    BY <1>1, <1>6 DEF FormWithoutBody
  <2>2. QED
    BY <1>1, <1>2, <1>6, <2>1
<1>7. QED
  BY <1>1, <1>2, <1>3, <1>4, <1>5, <1>6

(* do_request() asks for the page that the client means. *)
LEMMA PageIsFound ==
  ASSUME Shape, Understood, pc = "answer", code = "GET_REQUEST", ~FormWithoutBody(meant),
         NEW found \in FoundIn, Registers => found # "new"
  PROVE  Page(found) = meant.page
<1>1. /\ parser.url = meant.text[2] /\ meant.page = MeantPage(meant.text, meant.body)
      /\ IsForm(meant.text) <=> LogsIn \/ Registers
      /\ IsForm(meant.text) =>
            HasString /\ string = meant.body /\ meant.body # <<>> /\ Len(string) = 4
  BY RequestKnown
<1>2. ~(LogsIn /\ Registers)
  BY DEF LogsIn, Registers
<1>3. ASSUME IsForm(meant.text)
      PROVE  IF string[2] \in DOMAIN Users
             THEN found = (IF Users[string[2]] = string[4] THEN "right" ELSE "known")
             ELSE found = "new"
  <2>1. CASE string[2] \in DOMAIN Users /\ Users[string[2]] = string[4]
    BY <1>1, <1>3, <2>1 DEF FoundIn
  <2>2. CASE string[2] \in DOMAIN Users /\ Users[string[2]] # string[4]
    BY <1>1, <1>3, <2>2 DEF FoundIn
  <2>3. CASE string[2] \notin DOMAIN Users
    BY <1>1, <1>3, <2>3 DEF FoundIn
  <2>4. QED
    BY <2>1, <2>2, <2>3
<1>4. CASE LogsIn
  <2>1. IsForm(meant.text) /\ meant.text[2] # "/3" /\ string = meant.body /\ meant.body # <<>>
    BY <1>1, <1>4 DEF LogsIn
  <2>2. Page(found) = IF found = "right" THEN "/welcome.html" ELSE "/logError.html"
    BY <1>2, <1>4 DEF Page
  <2>3. QED
    BY <1>1, <1>3, <2>1, <2>2 DEF MeantPage
<1>5. CASE Registers
  <2>1. IsForm(meant.text) /\ meant.text[2] = "/3" /\ string = meant.body /\ meant.body # <<>>
    BY <1>1, <1>5 DEF Registers
  <2>2. Page(found) = "/registerError.html"
    BY <1>2, <1>5 DEF Page
  <2>3. string[2] \in DOMAIN Users
    BY <1>3, <1>5, <2>1
  <2>4. QED
    BY <1>1, <2>1, <2>2, <2>3 DEF MeantPage
<1>6. CASE ~LogsIn /\ ~Registers
  <2>1. Page(found) = IF parser.url \in DOMAIN Pages THEN Pages[parser.url] ELSE parser.url
    BY <1>6 DEF Page
  <2>2. QED
    BY <1>1, <1>6, <2>1 DEF MeantPage
<1>7. QED
  BY <1>4, <1>5, <1>6

(* do_request() and process_write() *)
LEMMA AnswerIsUnderstood ==
  ASSUME Shape, Understood, ProcessWrite
  PROVE  Understood'
<1>0. Requested /\ pc' = "out" /\ code' = code /\ meant' = meant
  BY DEF ProcessWrite
<1>1. pc = "answer" /\ pc' = "out" /\ code' = code /\ meant' = meant /\ Requested
  BY <1>0 DEF Requested
<1>2. ASSUME code = "GET_REQUEST", ~FormWithoutBody(meant) PROVE page' = meant.page
  <2>1. PICK found \in FoundIn : (Registers => found # "new") /\ page' = Page(found)
    BY <1>1, <1>2 DEF Requested
  <2>2. QED
    BY <1>1, <1>2, <2>1, PageIsFound
<1>3. QED
  BY <1>1, <1>2 DEF Understood, Parsing, Cuts, Answered

(* Only a form with a new name gets as far as mysql_query(), unless it has  *)
(* no body.                                                                *)
LEMMA EndIsUnderstood ==
  ASSUME Shape, Understood, RegisterNew \/ StringIsLost
  PROVE  Understood'
<1>1. /\ pc = "answer" /\ code = "GET_REQUEST" /\ pc' = "ended" /\ meant' = meant
      /\ LogsIn \/ Registers
      /\ \/ Registers /\ "new" \in FoundIn
         \/ ~HasString
  BY DEF RegisterNew, StringIsLost
<1>2. /\ meant.code = "GET_REQUEST"
      /\ parser.url = meant.text[2] /\ meant.page = MeantPage(meant.text, meant.body)
      /\ IsForm(meant.text) <=> LogsIn \/ Registers
      /\ \/ ~IsForm(meant.text)
         \/ FormWithoutBody(meant)
         \/ HasString /\ string = meant.body /\ meant.body # <<>> /\ Len(string) = 4
  BY <1>1, RequestKnown
<1>3. ASSUME ~FormWithoutBody(meant) PROVE NewName(meant)
  <2>1. /\ Registers /\ "new" \in FoundIn /\ IsForm(meant.text)
        /\ HasString /\ string = meant.body /\ meant.body # <<>> /\ Len(string) = 4
    BY <1>1, <1>2, <1>3
  <2>2. meant.body[2] \notin DOMAIN Users
    BY <2>1 DEF FoundIn
  <2>3. meant.text[2] = "/3"
    BY <1>2, <2>1 DEF Registers
  <2>4. meant.page = "/log.html"
    BY <1>2, <2>1, <2>2, <2>3 DEF MeantPage
  <2>5. QED
    BY <1>2, <2>1, <2>4 DEF NewName
<1>4. NewName(meant) \/ FormWithoutBody(meant)
  BY <1>3
<1>5. QED
  BY <1>1, <1>4 DEF Understood, Parsing, Cuts, Answered

(* Every step keeps the invariant. *)
LEMMA UnderstoodStep == Shape /\ Understood /\ [Next]_vars => Understood'
<1> SUFFICES ASSUME Shape, Understood, [Next]_vars PROVE Understood'
  OBVIOUS
<1>1. CASE UNCHANGED vars
  BY <1>1 DEF vars, Understood, Parsing, Cuts, Answered, Buffered, InHead, InBody, AtLine, Intact,
              HeadRead, FirstLine, HasString
<1>2. CASE Connect
  BY <1>2, ResetIsUnderstood DEF Connect
<1>3. CASE HangUp \/ ReadFails \/ ProcessWriteFails
  <2>1. pc' = "closed"
    BY <1>3 DEF HangUp, ReadFails, ProcessWriteFails, CloseConn, Closed
  <2>2. QED
    BY <2>1 DEF Understood, Parsing, Cuts, Answered
<1>4. ASSUME NEW r \in Requests, Send(r) PROVE Understood'
  BY <1>4, SendIsUnderstood
<1>5. ASSUME NEW k \in 1 .. Len(wire), Read(k) PROVE Understood'
  BY <1>5, CutIsUnderstood
<1>6. CASE ParseRequestLine
  BY <1>6, RequestLineIsUnderstood
<1>7. CASE ParseHeader
  BY <1>7, HeaderIsUnderstood
<1>8. CASE ParseEmptyLine
  BY <1>8, HeadIsUnderstood
<1>9. CASE ParseContent
  BY <1>9, ContentIsUnderstood
<1>10. CASE Incomplete
  BY <1>10, WaitingIsUnderstood
<1>11. CASE RegisterNew \/ StringIsLost
  BY <1>11, EndIsUnderstood
<1>12. CASE ProcessWrite
  BY <1>12, AnswerIsUnderstood
<1>13. ASSUME NEW n \in WriteSizes, WritevPart(n) PROVE Understood'
  BY <1>13 DEF WritevPart, Understood, Parsing, Cuts, Answered
<1>14. ASSUME NEW n \in WriteSizes, WritevAll(n) PROVE Understood'
  <2>1. CASE pc' = "in" /\ wire' = <<>> /\ meant' = NoText /\ parser' = Reset
    BY <2>1, ResetIsUnderstood
  <2>2. CASE pc' = "closed"
    BY <2>2 DEF Understood, Parsing, Cuts, Answered
  <2>3. QED
    BY <1>14, <2>1, <2>2 DEF WritevAll, CloseConn, Closed
<1>15. QED
  BY <1>1, <1>2, <1>3, <1>4, <1>5, <1>6, <1>7, <1>8, <1>9, <1>10, <1>11, <1>12, <1>13, <1>14
     DEF Next, Work

(* The invariant of the parser holds throughout. *)
LEMMA AlwaysUnderstood == Spec => [](Shape /\ Understood)
<1>1. Init => Understood
  BY DEF Init, Understood, Parsing, Cuts, Answered
<1>2. QED
  BY <1>1, ShapeInit, ShapeStep, UnderstoodStep, PTL DEF Spec, SafeSpec

(* Wherever the network cuts a request, and whatever requests the object   *)
(* parsed before: process_read() ends with the code, the keep-alive flag   *)
(* and the body that its text says, and not before all of it was read.     *)
THEOREM RequestsAreParsed == Spec => []ParsedAsMeant
  BY AlwaysUnderstood, UnderstoodMeans, PTL

(* Unless a read ended inside its body, a request that was read completely *)
(* does not leave process_read() as incomplete.                            *)
THEOREM RequestsAreRecognised == Spec => []RecognisedUnlessBodyCut
  BY AlwaysUnderstood, UnderstoodMeans, PTL

(* do_request() answers a request with its own page: it judges a form with *)
(* a body by the name and the password in it, whatever an earlier request  *)
(* left in the object.  A form without a body is judged by that, and may   *)
(* end the program; otherwise only registering a new name does.            *)
THEOREM PagesAreMeant == Spec => []PageIsMeant
  BY AlwaysUnderstood, UnderstoodMeans, PTL

===============================================================================
