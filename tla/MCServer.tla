------------------------------- MODULE MCServer -------------------------------
(* TLC instances of Server. *)
EXTENDS Server

CONSTANT w1

(* Three clients: the first makes requests that are answered in one block, *)
(* the second none, the third keeps its connection.                        *)
ThreeClients == <<{"error"}, {}, {"keep-alive"}>>

(* A client that may ask for a missing file, and one that keeps on asking. *)
TwoClients == <<{"close", "missing"}, {"keep-alive"}>>

OneMissing == <<{"missing"}>>
OneKept    == <<{"keep-alive"}>>
===============================================================================
