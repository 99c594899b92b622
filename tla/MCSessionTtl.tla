----------------------------- MODULE MCSessionTtl -----------------------------
(* SessionTtl on small instances. *)
EXTENDS SessionTtl

\* Bodies of one message, or of two that name two values or one twice.
MCPrompts == UNION {[1 .. n -> Values] : n \in 1 .. 2}

\* Handlers that straddle the end of the session, overlap and die; and a client that
\* waits, over a longer time; and one that does not.
MCWorlds ==
    {[handling |-> 1, serial |-> FALSE, crashes |-> TRUE, horizon |-> 5],
     [handling |-> 0, serial |-> TRUE, crashes |-> FALSE, horizon |-> 8],
     [handling |-> 0, serial |-> FALSE, crashes |-> FALSE, horizon |-> 5]}
===============================================================================
