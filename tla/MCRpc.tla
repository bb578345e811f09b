------------------------------- MODULE MCRpc -------------------------------
(* Model values for the processes, and two calls of any kinds; the third   *)
(* gets as far as its servant.                                             *)
EXTENDS Rpc
CONSTANTS p1, p2
MCRequests == [c \in 1 .. MaxCalls |-> IF c < 3 THEN Kinds ELSE {"ok"}]
=============================================================================
