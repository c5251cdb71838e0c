------------------------------- MODULE HttpConn -------------------------------
(***************************************************************************)
(* One http_conn object of http_conn/http_conn.cpp over the life of its    *)
(* connections: read() takes what the socket has, process() runs the two   *)
(* state machines of process_read() over the read buffer and builds the    *)
(* answer, write() sends it, init() prepares the object for the next       *)
(* request.  Server gives these calls their threads; here they follow one  *)
(* another, and what varies is where the network cuts the bytes of the     *)
(* request and how much of the answer each writev() takes.                 *)
(*                                                                         *)
(* A byte of the buffers is CR, LF, NUL or a piece of text: a method, an   *)
(* address, a header's name or value, a part of the body.  One iteration   *)
(* of the loop of process_read() is one step.                              *)
(*                                                                         *)
(* An address stands for all whose last part begins with the same          *)
(* character.  A form sent to "/2" (log in) or "/3" (register) is "user=", *)
(* a name, "&password=", a password, which is what the loops of do_request *)
(* take apart, or has no body at all.  Not modelled are other bodies, names *)
(* and passwords that do not fit their arrays, and a Content-length that    *)
(* is not the length of the body, or is negative.                          *)
(***************************************************************************)
EXTENDS Integers, Sequences

CONSTANTS Requests,     \* what clients send, see Request below
          Users,        \* users, which initmysql_result() read: a function from
                        \* names to passwords
          Files,        \* what the addresses name, see DoRequest below
          BufferSize,   \* READ_BUFFER_SIZE
          TRIGModes,    \* values of m_TRIGMode: 0 level triggered, 1 edge triggered
          HeaderLength, \* of a status line with its headers
          ErrorLength,  \* of the text of an error
          FileLength    \* m_file_stat.st_size, unless the file is empty

(* A request and what its client means by it: the bytes, the HTTP_CODE of  *)
(* process_read before do_request, whether it asks for keep-alive, the     *)
(* body, the page that answers it.  NO_REQUEST: the server makes nothing   *)
(* of it.  How the rest follows from the bytes: AsMeant below.             *)
Codes == {"NO_REQUEST", "GET_REQUEST", "BAD_REQUEST"}

ASSUME HttpAssumption ==
    /\ \A r \in Requests : r.code \in Codes /\ r.linger \in BOOLEAN
                           /\ r.text \in Seq(STRING) /\ Len(r.body) <= Len(r.text)
    /\ Files \subseteq {"file", "empty", "unreadable", "directory", "none"}
    /\ BufferSize \in Nat \ {0} /\ TRIGModes \subseteq {0, 1}
    /\ HeaderLength \in Nat \ {0} /\ ErrorLength \in Nat \ {0} /\ FileLength \in Nat \ {0}

VARIABLES
    pc,          \* "in", "out": what epoll waits for; "parse": in
                 \* process_read; "answer": at its result; "closed";
                 \* "ended": the program is
    wire,        \* sent by the client and not yet read
    meant,       \* the request the client sent
    parser,      \* the members of http_conn that process_read uses
    line_status, \* local to process_read
    code,        \* the result of process_read
    string,      \* m_string
    page,        \* what m_real_file names, below doc_root
    output,      \* the members that write uses
    sent,        \* history: positions of the answer, as they were sent
    cutInBody,   \* history: a read ended inside the body
    cutsInHead   \* history: writev calls that ended inside m_write_buf

vars == <<pc, wire, meant, parser, line_status, code, string, page, output, sent,
          cutInBody, cutsInHead>>
histories == <<sent, cutInBody, cutsInHead>>

NoText == [text |-> <<>>, code |-> "NO_REQUEST", linger |-> FALSE, body |-> <<>>,
           page |-> "none"]

(* init() without arguments, as far as the two state machines ... *)
Parser(mode) == [read_buf |-> <<>>, checked_idx |-> 0, start_line |-> 0,
                 check_state |-> "CHECK_REQUESTINE", content_length |-> 0,
                 linger |-> FALSE, url |-> "none", cgi |-> 0, TRIGMode |-> mode]

(* ... and write() are concerned.  (It leaves m_iv, which process_write()   *)
(* sets before it is used.)                                                *)
NoBlock == [base |-> 0, len |-> 0]
Output == [write_idx |-> 0, to_send |-> 0, have_send |-> 0, iv_count |-> 0,
           head |-> NoBlock, file |-> NoBlock]

Init ==
    /\ pc = "closed" /\ wire = <<>> /\ meant = NoText
    /\ \E mode \in TRIGModes : parser = Parser(mode)
    /\ line_status = "LINE_OK" /\ code = "NO_REQUEST" /\ string = <<>> /\ page = "none"
    /\ output = Output
    /\ sent = <<>> /\ cutInBody = FALSE /\ cutsInHead = 0

-------------------------------------------------------------------------------
(* A definition with a suffix, as Reset_KeepsLinger, is a plausible bug: a  *)
(* variant, which the specification does not use, of the definition that   *)
(* follows it.                                                             *)

Reset_KeepsLinger == [Parser(parser.TRIGMode) EXCEPT !.linger = parser.linger]

Reset_KeepsCgi == [Parser(parser.TRIGMode) EXCEPT !.cgi = parser.cgi]

Reset == Parser(parser.TRIGMode)

-------------------------------------------------------------------------------
(* The client, and the end of a connection *)

(* accept() and init(sockfd, ...) *)
Connect ==
    /\ pc = "closed"
    /\ pc' = "in" /\ wire' = <<>> /\ meant' = NoText
    /\ parser' = Reset /\ output' = Output
    /\ sent' = <<>> /\ cutInBody' = FALSE /\ cutsInHead' = 0
    /\ UNCHANGED <<line_status, code, string, page>>

(* The next request, once the answer to the last one is complete. *)
Send(r) ==
    /\ pc = "in" /\ meant = NoText
    /\ wire' = r.text /\ meant' = r
    /\ UNCHANGED <<pc, parser, line_status, code, string, page, output, histories>>

(* The descriptor is closed; the object stays as it is. *)
Closed ==
    /\ pc' = "closed" /\ wire' = <<>> /\ meant' = NoText
    /\ UNCHANGED <<parser, line_status, code, string, output, histories>>

CloseConn == Closed /\ UNCHANGED page

(* The client hangs up or the timer of the connection runs out: cb_func.   *)
HangUp ==
    /\ pc \in {"in", "out"}
    /\ CloseConn

-------------------------------------------------------------------------------
(* read() *)

Space == BufferSize - Len(parser.read_buf)

(* The end of the next k bytes on the wire lies inside the body. *)
EndsInBody(k) == Len(wire) - k \in 1 .. Len(meant.body) - 1

Read_NoLimit(k) ==              \* does not look at READ_BUFFER_SIZE
    /\ pc = "in" /\ wire # <<>>
    /\ parser' = [parser EXCEPT !.read_buf = @ \o SubSeq(wire, 1, k)]
    /\ wire' = SubSeq(wire, k + 1, Len(wire))
    /\ pc' = "parse" /\ line_status' = "LINE_OK"
    /\ cutInBody' = (cutInBody \/ EndsInBody(k))
    /\ UNCHANGED <<meant, code, string, page, output, sent, cutsInHead>>

(* k bytes arrive before the socket is empty; the pool runs process().  In *)
(* edge-triggered mode read() calls recv() once more, which is told to     *)
(* expect no byte when the buffer is full, returns 0, and passes for the   *)
(* end of the stream.                                                      *)
Read(k) ==
    /\ pc = "in" /\ wire # <<>>
    /\ k <= Space /\ (parser.TRIGMode = 1 => k < Space)
    /\ parser' = [parser EXCEPT !.read_buf = @ \o SubSeq(wire, 1, k)]
    /\ wire' = SubSeq(wire, k + 1, Len(wire))
    /\ pc' = "parse" /\ line_status' = "LINE_OK"
    /\ cutInBody' = (cutInBody \/ EndsInBody(k))
    /\ UNCHANGED <<meant, code, string, page, output, sent, cutsInHead>>

(* The buffer is full: read() returns false and deal_timer() closes. *)
ReadFails ==
    /\ pc = "in" /\ wire # <<>>
    /\ \/ parser.TRIGMode = 0 /\ Space = 0
       \/ parser.TRIGMode = 1 /\ Space <= Len(wire)
    /\ CloseConn

-------------------------------------------------------------------------------
(* process_read().  Indices are those of the code: the byte m_read_buf[i]  *)
(* is read_buf[i + 1], and m_read_idx is Len(read_buf).                    *)

Byte(i) == parser.read_buf[i + 1]

(* parse_line(): the status, and what it does to m_checked_idx and the     *)
(* buffer.                                                                 *)
Line ==
    LET size  == Len(parser.read_buf)
        stop  == CHOOSE i \in parser.checked_idx .. size :
                    /\ i < size => Byte(i) \in {"CR", "LF"}
                    /\ \A j \in parser.checked_idx .. i - 1 : Byte(j) \notin {"CR", "LF"}
        after(status, cr) ==
            [status |-> status,
             parser |-> IF status = "LINE_OK"
                        THEN [parser EXCEPT !.checked_idx = cr + 2,
                                            !.read_buf[cr + 1] = "NUL",
                                            !.read_buf[cr + 2] = "NUL"]
                        ELSE [parser EXCEPT !.checked_idx = stop]]
    IN  IF stop = size THEN after("LINE_OPEN", stop)
        ELSE IF Byte(stop) = "LF"
             THEN IF stop > 1 /\ Byte(stop - 1) = "CR"
                  THEN after("LINE_OK", stop - 1) ELSE after("LINE_BAD", stop)
        ELSE IF stop + 1 = size THEN after("LINE_OPEN", stop)
        ELSE IF Byte(stop + 1) = "LF" THEN after("LINE_OK", stop)
        ELSE after("LINE_BAD", stop)

(* get_line(): the text from m_start_line up to the NUL of the line's end. *)
Text == SubSeq(parser.read_buf, parser.start_line + 1, Line.parser.checked_idx - 2)

(* The loop of process_read() takes another line in state s; what parse_line *)
(* left, with m_start_line = m_checked_idx.                                  *)
TakeLine(s) ==
    /\ pc = "parse" /\ parser.check_state = s /\ Line.status = "LINE_OK"
    /\ line_status' = "LINE_OK"
    /\ UNCHANGED <<wire, meant, page, output, histories>>

Advanced == [Line.parser EXCEPT !.start_line = Line.parser.checked_idx]

(* The pages do_request() has for short addresses, and parse_request_line()  *)
(* for "/"; another address names a file.                                    *)
Pages == [a \in {"/", "/0", "/1", "/5", "/6", "/7"} |->
             CASE a = "/"  -> "/judge.html"   [] a = "/0" -> "/register.html"
               [] a = "/1" -> "/log.html"     [] a = "/5" -> "/picture.html"
               [] a = "/6" -> "/video.html"   [] a = "/7" -> "/fans.html"]

Addresses == DOMAIN Pages \cup {"/2", "/3", "/file"}

(* parse_request_line(): two methods, an address, HTTP/1.1. *)
ParseRequestLine ==
    LET good == \E method \in {"GET", "POST"}, a \in Addresses : Text = <<method, a>>
    IN  /\ TakeLine("CHECK_REQUESTINE")
        /\ parser' = IF good THEN [Advanced EXCEPT !.check_state = "CHECK_STATE_HEADER",
                                                   !.url = Text[2],
                                                   !.cgi = IF Text[1] = "POST" THEN 1 ELSE @]
                             ELSE Advanced
        /\ code' = IF good THEN "NO_REQUEST" ELSE "BAD_REQUEST"
        /\ pc' = IF good THEN pc ELSE "answer"
        /\ UNCHANGED string

Number == [d \in {"0", "1", "2", "3", "4"} |->
              CASE d = "0" -> 0 [] d = "1" -> 1 [] d = "2" -> 2 [] d = "3" -> 3 [] d = "4" -> 4]

(* parse_headers(), a header: those it does not know change nothing. *)
ParseHeader ==
    /\ TakeLine("CHECK_STATE_HEADER")
    /\ Text # <<>>
    /\ parser' = IF Text = <<"Connection:", "keep-alive">> THEN [Advanced EXCEPT !.linger = TRUE]
                 ELSE IF Len(Text) = 2 /\ Text[1] = "Content-length:"
                 THEN [Advanced EXCEPT !.content_length = Number[Text[2]]]
                 ELSE Advanced
    /\ UNCHANGED <<pc, code, string>>

(* parse_headers(), the empty line. *)
ParseEmptyLine ==
    /\ TakeLine("CHECK_STATE_HEADER")
    /\ Text = <<>>
    /\ IF parser.content_length # 0
       THEN /\ parser' = [Advanced EXCEPT !.check_state = "CHECK_STATE_CONTENT"]
            /\ UNCHANGED <<pc, code>>
       ELSE /\ parser' = Advanced
            /\ pc' = "answer" /\ code' = "GET_REQUEST"
    /\ UNCHANGED string

ContentIsComplete_OffByOne(p) ==        \* > for >=
    Len(p.read_buf) > p.content_length + p.checked_idx

(* pares_content(): "只是判断他是否被完整读如".  The NUL it writes behind  *)
(* the body is outside of what was read.                                   *)
ContentIsComplete(p) == Len(p.read_buf) >= p.content_length + p.checked_idx

(* The loop in CHECK_STATE_CONTENT: without parse_line() while line_status *)
(* is LINE_OK, and afterwards only if parse_line() finds a line.           *)
ParseContent ==
    LET p == IF line_status = "LINE_OK" THEN parser ELSE Line.parser
    IN  /\ pc = "parse" /\ parser.check_state = "CHECK_STATE_CONTENT"
        /\ line_status = "LINE_OK" \/ Line.status = "LINE_OK"
        /\ parser' = [p EXCEPT !.start_line = p.checked_idx]
        /\ IF ContentIsComplete(p)
           THEN /\ string' = SubSeq(p.read_buf, p.start_line + 1, p.start_line + p.content_length)
                /\ pc' = "answer" /\ code' = "GET_REQUEST"
                /\ UNCHANGED line_status
           ELSE line_status' = "LINE_OPEN" /\ UNCHANGED <<string, pc, code>>
        /\ UNCHANGED <<wire, meant, page, output, histories>>

(* No further line: NO_REQUEST, and process() waits for more. *)
Incomplete ==
    /\ pc = "parse" /\ Line.status # "LINE_OK"
    /\ parser.check_state = "CHECK_STATE_CONTENT" => line_status # "LINE_OK"
    /\ parser' = Line.parser
    /\ line_status' = Line.status /\ code' = "NO_REQUEST" /\ pc' = "in"
    /\ UNCHANGED <<wire, meant, string, page, output, histories>>

-------------------------------------------------------------------------------
(* do_request(), process_write() and write() *)

(* do_request() tells from the last part of the address what a POST is. *)
LogsIn    == parser.cgi = 1 /\ parser.url = "/2"
Registers == parser.cgi = 1 /\ parser.url = "/3"

(* pares_content() made m_string point to the body.  Otherwise, since init() *)
(* leaves it, it points to where an earlier body began, or nowhere yet.      *)
HasString == parser.check_state = "CHECK_STATE_CONTENT"

FoundIn_Any == {"right", "known", "new"}       \* takes m_string as it is

(* users.find(name), and the password: what they say of the name and the   *)
(* password that the loops of do_request() read, which can be anything     *)
(* without a body.                                                         *)
FoundIn ==
    IF HasString
    THEN IF Len(string) = 4 /\ string[2] \in DOMAIN Users
         THEN IF Users[string[2]] = string[4] THEN {"right"} ELSE {"known"}
         ELSE {"new"}
    ELSE {"right", "known", "new"}

(* The page that do_request() asks the file system for. *)
Page(found) ==
    CASE LogsIn    -> IF found = "right" THEN "/welcome.html" ELSE "/logError.html"
      [] Registers -> "/registerError.html"
      [] OTHER     -> IF parser.url \in DOMAIN Pages THEN Pages[parser.url] ELSE parser.url

(* A new name is for mysql_query(), with the member mysql, which is NULL   *)
(* since init(): that ends the program.                                    *)
RegisterNew ==
    /\ pc = "answer" /\ code = "GET_REQUEST"
    /\ Registers /\ "new" \in FoundIn
    /\ pc' = "ended"
    /\ UNCHANGED <<wire, meant, parser, line_status, code, string, page, output, histories>>

(* So can the loops of do_request(), which go through memory until they    *)
(* meet "&", if there is no body.                                          *)
StringIsLost ==
    /\ pc = "answer" /\ code = "GET_REQUEST"
    /\ (LogsIn \/ Registers) /\ ~HasString
    /\ pc' = "ended"
    /\ UNCHANGED <<wire, meant, parser, line_status, code, string, page, output, histories>>

(* The HTTP_CODE of do_request(), by what the page is. *)
DoRequest(file) ==
    CASE file = "none" -> "NO__RESOURCE"
      [] file = "unreadable" -> "FORBIDDEN_REQUEST"
      [] file = "directory" -> "BAD_REQUEST"
      [] OTHER -> "FILE__REQUEST"

Result(file) == IF code = "GET_REQUEST" THEN DoRequest(file) ELSE code

(* do_request() ran, unless the request was a bad one. *)
Requested ==
    /\ pc = "answer"
    /\ IF code = "GET_REQUEST"
       THEN \E found \in FoundIn : (Registers => found # "new") /\ page' = Page(found)
       ELSE UNCHANGED page

(* An error text is in m_write_buf, behind its headers; a file is a block  *)
(* of its own.                                                             *)
ProcessWrite ==
    /\ Requested
    /\ \E file \in Files :
          LET length == IF Result(file) = "FILE__REQUEST" THEN HeaderLength
                        ELSE HeaderLength + ErrorLength
              blocks == IF Result(file) = "FILE__REQUEST" THEN 2 ELSE 1
          IN  /\ Result(file) # "NO__RESOURCE"
              /\ ~(Result(file) = "FILE__REQUEST" /\ file = "empty")
              /\ output' = [output EXCEPT
                     !.write_idx = length, !.iv_count = blocks,
                     !.to_send = IF blocks = 2 THEN length + FileLength ELSE length,
                     !.head = [base |-> 0, len |-> length],
                     !.file = IF blocks = 2 THEN [base |-> 0, len |-> FileLength] ELSE @]
    /\ pc' = "out"
    /\ UNCHANGED <<wire, meant, parser, line_status, code, string, histories>>

(* process_write() returns false for a missing and for an empty file, and  *)
(* process() closes the connection.                                        *)
ProcessWriteFails ==
    /\ Requested
    /\ \E file \in Files :
          Result(file) = "NO__RESOURCE" \/ (Result(file) = "FILE__REQUEST" /\ file = "empty")
    /\ Closed

(* What m_iv points to, as positions of the answer; memory in front of the *)
(* file is position 0.                                                     *)
HeadBlock == [i \in 1 .. output.head.len |-> output.head.base + i]
FileBlock == IF output.iv_count = 1 THEN <<>>
          ELSE [i \in 1 .. output.file.len |->
                  IF output.file.base + i > 0
                  THEN output.write_idx + output.file.base + i ELSE 0]
Unsent == HeadBlock \o FileBlock

Answer == [i \in 1 .. output.have_send + output.to_send |-> i]

Moved_KeepsBase(have, rest) ==          \* forgets m_iv[0].iov_base
    IF have >= output.head.len
    THEN [output EXCEPT !.have_send = have, !.to_send = rest, !.head.len = 0,
                        !.file = [base |-> have - output.write_idx, len |-> rest]]
    ELSE [output EXCEPT !.have_send = have, !.to_send = rest, !.head.len = @ - have]

(* The loop of write() after a writev: the blocks are moved on. *)
Moved(have, rest) ==
    IF have >= output.head.len
    THEN [output EXCEPT !.have_send = have, !.to_send = rest, !.head.len = 0,
                        !.file = [base |-> have - output.write_idx, len |-> rest]]
    ELSE [output EXCEPT !.have_send = have, !.to_send = rest,
                        !.head = [base |-> have, len |-> @.len - have]]

(* writev() takes n bytes; it takes none only if m_iv holds none.          *)
WritevPart(n) ==
    LET have == output.have_send + n
        rest == output.to_send - n
    IN  /\ pc = "out" /\ rest > 0
        /\ output' = Moved(have, rest)
        /\ sent' = sent \o SubSeq(Unsent, 1, n)
        /\ cutsInHead' = IF n > 0 /\ have < output.write_idx
                         THEN cutsInHead + 1 ELSE cutsInHead
        /\ UNCHANGED <<pc, wire, meant, parser, line_status, code, string, page, cutInBody>>

(* ... and all that was left: the connection is kept, with a fresh object, *)
(* or closed by deal_timer().                                              *)
WritevAll(n) ==
    /\ pc = "out" /\ output.to_send <= n
    /\ \/ /\ parser.linger
          /\ pc' = "in" /\ wire' = <<>> /\ meant' = NoText
          /\ parser' = Reset /\ output' = Output
          /\ sent' = <<>> /\ cutInBody' = FALSE /\ cutsInHead' = 0
          /\ UNCHANGED <<line_status, code, string, page>>
       \/ ~parser.linger /\ CloseConn

-------------------------------------------------------------------------------
WriteSizes == {n \in 0 .. Len(Unsent) : n = 0 => Unsent = <<>>}

(* What the server does. *)
Work ==
    \/ \E k \in 1 .. Len(wire) : Read(k)
    \/ ReadFails
    \/ ParseRequestLine \/ ParseHeader \/ ParseEmptyLine \/ ParseContent \/ Incomplete
    \/ RegisterNew \/ StringIsLost \/ ProcessWrite \/ ProcessWriteFails
    \/ \E n \in WriteSizes : WritevPart(n) \/ WritevAll(n)

Next ==
    \/ Connect \/ HangUp
    \/ \E r \in Requests : Send(r)
    \/ Work

SafeSpec == Init /\ [][Next]_vars

(* The server goes on: bytes that were sent arrive and are read, and the   *)
(* socket takes some of the answer.  Nobody need connect, send or hang up. *)
Spec == SafeSpec /\ WF_vars(Work)

-------------------------------------------------------------------------------
(* What a client means by a request.  A place in its text is the index in  *)
(* m_read_buf of the byte that follows.                                    *)

EndsLine(t, e)   == e + 2 <= Len(t) /\ t[e + 1] = "CR" /\ t[e + 2] = "LF"
StartsLine(t, s) == s = 0 \/ (s >= 2 /\ EndsLine(t, s - 2))
NoEnd(t, s, e)   == \A k \in s + 1 .. e : t[k] \notin {"CR", "LF"}
IsLine(t, s, e)  == s <= e /\ NoEnd(t, s, e) /\ EndsLine(t, e)

RequestLines == {<<method, a>> : method \in {"GET", "POST"}, a \in Addresses}
GoodStart(t) == \E e \in 0 .. Len(t) : IsLine(t, 0, e) /\ SubSeq(t, 1, e) \in RequestLines
BadStart(t)  == \E e \in 0 .. Len(t) : IsLine(t, 0, e) /\ SubSeq(t, 1, e) \notin RequestLines

IsHeader(t, s, e) == s > 0 /\ StartsLine(t, s) /\ IsLine(t, s, e)
EmptyLine(t, h)   == IsHeader(t, h, h)
EndsHead(t, h)    == EmptyLine(t, h) /\ \A i \in 0 .. h - 1 : ~EmptyLine(t, i)

(* In front of n every CR is followed by LF, and LF by nothing else. *)
LinesOnly(t, n) == \A k \in 1 .. n : /\ t[k] = "CR" => k < n /\ t[k + 1] = "LF"
                                     /\ t[k] = "LF" => k > 1 /\ t[k - 1] = "CR"

(* What the headers in front of n say; a later Content-length replaces an  *)
(* earlier one.                                                            *)
KeepsAlive(t, s) ==
    \E e \in 0 .. Len(t) : /\ IsHeader(t, s, e)
                           /\ SubSeq(t, s + 1, e) = <<"Connection:", "keep-alive">>
GivesLength(t, s) ==
    \E e \in 0 .. Len(t) : IsHeader(t, s, e) /\ e = s + 2 /\ t[s + 1] = "Content-length:"

SaysLinger(t, n, linger) == linger <=> \E s \in 0 .. n - 1 : KeepsAlive(t, s)
SaysLength(t, n, length) ==
    \/ length = 0 /\ \A s \in 0 .. n - 1 : ~GivesLength(t, s)
    \/ \E s \in 0 .. n - 1 : /\ GivesLength(t, s) /\ length = Number[t[s + 2]]
                             /\ \A i \in s + 1 .. n - 1 : ~GivesLength(t, i)

(* What a form to "/2" or "/3" with this body is answered with, a file or  *)
(* one of the pages otherwise.  A form without a body means nothing.       *)
IsForm(t) == t[1] = "POST" /\ t[2] \in {"/2", "/3"}
MeantPage(t, body) ==
    IF ~IsForm(t) THEN IF t[2] \in DOMAIN Pages THEN Pages[t[2]] ELSE t[2]
    ELSE IF body = <<>> THEN "none"
    ELSE LET known == body[2] \in DOMAIN Users
         IN  IF t[2] = "/3" THEN IF known THEN "/registerError.html" ELSE "/log.html"
             ELSE IF known /\ Users[body[2]] = body[4] THEN "/welcome.html" ELSE "/logError.html"

(* The first line is wrong; or there is a head of lines, and a body as     *)
(* long as they say; or what fits the buffer has no empty line that ends a *)
(* head, or a CR or LF of its own in front of it.  (A client that sends    *)
(* less or more than its Content-length is not modelled.)                  *)
AsMeant(r) ==
    \/ r.code = "BAD_REQUEST" /\ BadStart(r.text)
    \/ /\ r.code = "GET_REQUEST" /\ GoodStart(r.text)
       /\ \E h \in 0 .. Len(r.text) : /\ EndsHead(r.text, h) /\ LinesOnly(r.text, h + 2)
                                      /\ SaysLinger(r.text, h, r.linger)
                                      /\ SaysLength(r.text, h, Len(r.body))
                                      /\ Len(r.text) = h + 2 + Len(r.body)
                                      /\ r.body = SubSeq(r.text, h + 3, Len(r.text))
       /\ r.page = MeantPage(r.text, r.body) /\ (IsForm(r.text) => Len(r.body) \in {0, 4})
    \/ /\ r.code = "NO_REQUEST"
       /\ \A e \in 0 .. BufferSize - 2 :
             IsLine(r.text, 0, e) => SubSeq(r.text, 1, e) \in RequestLines
       /\ \A h \in 0 .. BufferSize - 2 : EmptyLine(r.text, h) => ~LinesOnly(r.text, h + 2)

ASSUME MeaningAssumption == \A r \in Requests : AsMeant(r)

-------------------------------------------------------------------------------
(* Type invariant; the read buffer never holds more than READ_BUFFER_SIZE  *)
(* bytes and the indices stay inside what was read.                        *)
TypeOK ==
    /\ pc \in {"closed", "in", "parse", "answer", "out", "ended"}
    /\ meant \in Requests \cup {NoText}
    /\ Len(parser.read_buf) <= BufferSize
    /\ 0 <= parser.start_line /\ parser.start_line <= parser.checked_idx
    /\ parser.checked_idx <= Len(parser.read_buf)
    /\ parser.check_state \in {"CHECK_REQUESTINE", "CHECK_STATE_HEADER", "CHECK_STATE_CONTENT"}
    /\ parser.linger \in BOOLEAN
    /\ line_status \in {"LINE_OK", "LINE_OPEN", "LINE_BAD"}
    /\ code \in Codes
    /\ output.write_idx \in Nat /\ output.to_send \in Nat /\ output.have_send \in Nat
    /\ output.iv_count \in 0 .. 2
    /\ output.head \in [base : Nat, len : Nat] /\ output.file.len \in Nat

(* Wherever the bytes are cut, and whatever the object was used for        *)
(* before, process_read() ends with the code, the keep-alive flag and the  *)
(* body the client means, and not before the whole request is there.       *)
ParsedAsMeant ==
    pc = "answer" =>
        /\ code = meant.code
        /\ code = "GET_REQUEST" =>
              /\ wire = <<>> /\ parser.linger = meant.linger
              /\ meant.body # <<>> => string = meant.body

(* The page that answers a request is the one its client means: a form     *)
(* with a body is judged by its own name and password, and nothing that an *)
(* earlier request on the connection left decides what the answer is, or   *)
(* ends the program.  The two exceptions: a form without a body is         *)
(* answered by whatever m_string points to, and registering a new name     *)
(* ends the program.                                                       *)
FormWithoutBody(r) == r.code = "GET_REQUEST" /\ IsForm(r.text) /\ r.body = <<>>
NewName(r)         == r.code = "GET_REQUEST" /\ IsForm(r.text) /\ r.page = "/log.html"

PageIsMeant ==
    /\ pc = "out" /\ code = "GET_REQUEST" => page = meant.page \/ FormWithoutBody(meant)
    /\ pc = "ended" => NewName(meant) \/ FormWithoutBody(meant)

(* "没有重名的，进行增加数据": to register a name that nobody has does not  *)
(* end the program.                                                        *)
NewNamesAreAdded == ~(pc = "ended" /\ NewName(meant))

Waiting == pc = "in" /\ meant # NoText /\ wire = <<>>

(* pares_content() "只是判断他是否被完整读如": a request that was read      *)
(* completely does not leave process_read() as incomplete.                 *)
CompleteIsRecognised == Waiting => meant.code = "NO_REQUEST"

(* The only cut that makes process_read() overlook a complete request is   *)
(* one inside the body.                                                    *)
RecognisedUnlessBodyCut == Waiting => meant.code = "NO_REQUEST" \/ cutInBody

(* However the answer is cut by short writes, what write() sent and what   *)
(* m_iv still holds are together the answer: nothing is left out, sent     *)
(* twice or taken from elsewhere, unless two short writes ended inside     *)
(* m_write_buf (the second one shortens m_iv[0] too much).                 *)
AnswerIsWhole ==
    pc = "out" /\ cutsInHead <= 1 => sent \o Unsent = Answer

(* The loop of write() does not spin: an answer is sent to the end, and a  *)
(* request gets one or its connection is closed, with the two exceptions   *)
(* above (after the second short write of an answer in one block, writev() *)
(* has nothing to send and the loop has no end).                           *)
RequestsEnd ==
    \A r \in {q \in Requests : q.code # "NO_REQUEST"} :
        meant = r /\ pc # "closed"
            ~> meant # r \/ pc \in {"closed", "ended"} \/ cutInBody \/ cutsInHead >= 2
===============================================================================
