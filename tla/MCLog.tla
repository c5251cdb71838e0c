--------------------------------- MODULE MCLog ---------------------------------
(* TLC instances of Log. *)
EXTENDS Log

CONSTANTS t1, t2
===============================================================================
