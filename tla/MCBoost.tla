------------------------------ MODULE MCBoost ------------------------------
(* Model values for the two watches.                                       *)
EXTENDS BoostDispatcher
CONSTANTS rd, wr
=============================================================================
