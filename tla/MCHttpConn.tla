------------------------------ MODULE MCHttpConn ------------------------------
(* A TLC instance of HttpConn. *)
EXTENDS HttpConn

OneLine(words) == words \o <<"CR", "LF">>
KeepAlive   == OneLine(<<"Connection:", "keep-alive">>)
Length(n)   == OneLine(<<"Content-length:", n>>)
Form(name, password) == <<"user=", name, "&password=", password>>

(* A page for a client that keeps the connection. *)
Get == [text |-> OneLine(<<"GET", "/">>) \o KeepAlive \o OneLine(<<>>),
        code |-> "GET_REQUEST", linger |-> TRUE, body |-> <<>>, page |-> "/judge.html"]

(* A file with the address of the log-in form. *)
Two == [text |-> OneLine(<<"GET", "/2">>) \o OneLine(<<>>),
        code |-> "GET_REQUEST", linger |-> FALSE, body |-> <<>>, page |-> "/2"]

(* Log in, with the right password, from a client that keeps the connection, *)
(* and with a wrong one.                                                     *)
Right == [text |-> OneLine(<<"POST", "/2">>) \o KeepAlive \o Length("4") \o OneLine(<<>>)
                   \o Form("ann", "pw"),
          code |-> "GET_REQUEST", linger |-> TRUE, body |-> Form("ann", "pw"),
          page |-> "/welcome.html"]

Wrong == [text |-> OneLine(<<"POST", "/2">>) \o Length("4") \o OneLine(<<>>) \o Form("ann", "no"),
          code |-> "GET_REQUEST", linger |-> FALSE, body |-> Form("ann", "no"),
          page |-> "/logError.html"]

(* Register a name that exists, and a new one. *)
Taken == [text |-> OneLine(<<"POST", "/3">>) \o Length("4") \o OneLine(<<>>) \o Form("ann", "pw"),
          code |-> "GET_REQUEST", linger |-> FALSE, body |-> Form("ann", "pw"),
          page |-> "/registerError.html"]

New == [text |-> OneLine(<<"POST", "/3">>) \o Length("4") \o OneLine(<<>>) \o Form("bob", "pw"),
        code |-> "GET_REQUEST", linger |-> FALSE, body |-> Form("bob", "pw"),
        page |-> "/log.html"]

(* The log-in form without a body, from a client that keeps the connection. *)
Empty == [text |-> OneLine(<<"POST", "/2">>) \o KeepAlive \o OneLine(<<>>),
          code |-> "GET_REQUEST", linger |-> TRUE, body |-> <<>>, page |-> "none"]

(* A form from a client that keeps the connection, with line ends in it. *)
Lines == [text |-> OneLine(<<"POST", "/file">>) \o KeepAlive \o Length("4") \o OneLine(<<>>)
                   \o <<"b1", "CR", "LF", "b2">>,
          code |-> "GET_REQUEST", linger |-> TRUE, body |-> <<"b1", "CR", "LF", "b2">>,
          page |-> "/file"]

(* A method the server does not know. *)
Put == [text |-> OneLine(<<"PUT", "/file">>) \o OneLine(<<>>),
        code |-> "BAD_REQUEST", linger |-> FALSE, body |-> <<>>, page |-> "none"]

(* Lines that end in LF only. *)
Bare == [text |-> <<"GET", "/file", "LF", "LF">>,
         code |-> "NO_REQUEST", linger |-> FALSE, body |-> <<>>, page |-> "none"]

(* A header with a CR in it. *)
Stray == [text |-> OneLine(<<"GET", "/file">>) \o OneLine(<<"Host:", "CR", "h">>) \o OneLine(<<>>),
          code |-> "NO_REQUEST", linger |-> FALSE, body |-> <<>>, page |-> "none"]

(* More than READ_BUFFER_SIZE. *)
Long == [text |-> OneLine(<<"GET", "/file">>) \o OneLine(<<"Host:", "h">>) \o OneLine(<<"Accept:", "a">>)
                  \o OneLine(<<"Cookie:", "c">>) \o OneLine(<<"Range:", "r">>) \o OneLine(<<>>),
         code |-> "NO_REQUEST", linger |-> FALSE, body |-> <<>>, page |-> "none"]

MCRequests == {Get, Two, Right, Wrong, Taken, New, Empty, Lines, Put, Bare, Stray, Long}

MCUsers == [name \in {"ann"} |-> "pw"]
===============================================================================
