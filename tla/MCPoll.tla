------------------------------- MODULE MCPoll -------------------------------
(* Six slots: three registrations, the middle one removed or repeated.     *)
EXTENDS PollDispatcher
CONSTANTS rd, wr
MCJunk == {NULL, wr}
=============================================================================
