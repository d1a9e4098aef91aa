----------------------------- MODULE MCConnections -----------------------------
(***************************************************************************)
(* TLC instance of Connections: a client that writes two requests, the      *)
(* second before the first is answered, and one that writes one, with every *)
(* pair of inherited sockets, one or none.                                  *)
(***************************************************************************)
EXTENDS Connections

CONSTANTS c1, c2, options, describe, setup, cseq

MCScript ==
    [c \in {c1, c2} |->
        IF c = c1 THEN <<<<options, cseq>>, <<describe>>>> ELSE <<<<setup>>>>]

MCUnits == UNION {[1 .. n -> SocketType] : n \in 0 .. 2}
===============================================================================
