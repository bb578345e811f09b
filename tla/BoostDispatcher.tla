-------------------------- MODULE BoostDispatcher --------------------------
(***************************************************************************)
(* dboost::boost_dispatcher with the connection it serves. Each watch that *)
(* is enabled gets an asynchronous wait for the descriptor; the completion *)
(* handler lets libdbus read or write, dispatches all queued messages, and *)
(* waits again. Both watches of the connection share one descriptor; the   *)
(* stream_descriptor made for it is stored in the map m_descriptors, and   *)
(* the watch it was made for keeps a pointer to it as its data.            *)
(***************************************************************************)
EXTENDS Connection

VARIABLES
  descriptor,  (* m_descriptors has an entry for the descriptor            *)
  data,        (* watches whose data points to that entry                  *)
  armed,       (* per watch: waits under way                               *)
  installed,   (* libdbus knows this dispatcher's callbacks                *)
  phase,       (* "main", "wait" (in ios.run()), "dispatch" or "failed"    *)
  serving,     (* the watch whose handler is dispatching, or NULL          *)
  why          (* what failed: "none", or see Fail                         *)

state == <<descriptor, data, armed, installed, phase, serving, why>>
boostVars == <<state, enabled, bus>>

WatchesTyped ==
  /\ descriptor \in BOOLEAN /\ data \in SUBSET Watches
  /\ armed \in [Watches -> 0 .. 1]
  /\ BusType /\ installed \in BOOLEAN
  /\ phase \in {"main", "wait", "dispatch", "failed"}
  /\ serving \in Watches \cup {NULL}
  /\ why \in {"none", "resubscribe assert", "remove_watch assert", "bad delete"}

(* The connection is authenticated and has no output pending: the bus name *)
(* was requested by a blocking call, which may have left messages queued.  *)
BoostInit ==
  /\ descriptor = FALSE /\ data = {}
  /\ armed = [w \in Watches |-> 0]
  /\ BusInit /\ installed = FALSE
  /\ phase = "main" /\ serving = NULL /\ why = "none"

-----------------------------------------------------------------------------
(* The process stops: an assert fails, or remove_watch deletes the         *)
(* stream_descriptor, which is part of a node of m_descriptors and was not *)
(* allocated with new - nothing is known of the program after that.        *)
Fail(reason) ==
  /\ phase' = "failed"
  /\ why' = reason
  /\ UNCHANGED <<descriptor, data, armed>>

(* A changed add_watch: every watch gets the descriptor as its data.       *)
boost_add_watch_all_data(w) ==
  /\ descriptor' = TRUE
  /\ data' = data \cup {w}
  /\ armed' = [armed EXCEPT ![w] = @ + 1]
  /\ UNCHANGED <<phase, why>>

(* The watch's data is set only if it is the first of its descriptor.      *)
boost_add_watch(w) ==
  IF ~descriptor
  THEN /\ descriptor' = TRUE
       /\ data' = data \cup {w}
       /\ armed' = [armed EXCEPT ![w] = @ + 1]
       /\ UNCHANGED <<phase, why>>
  ELSE IF w \in data
       THEN armed' = [armed EXCEPT ![w] = @ + 1] /\ UNCHANGED <<descriptor, data, phase, why>>
       ELSE Fail("resubscribe assert")

boost_remove_watch(w) == Fail(IF w \in data THEN "bad delete" ELSE "remove_watch assert")

(* The end of handle_read and handle_write: wait again, whatever happened  *)
(* to the watch in between.                                                *)
resubscribe(w) ==
  IF w \in data
  THEN armed' = [armed EXCEPT ![w] = @ + 1] /\ phase' = "wait" /\ UNCHANGED <<descriptor, data, why>>
  ELSE Fail("resubscribe assert")

(* server::set_dispatcher. libdbus adds its watches, of which the writable *)
(* one is disabled, and then removes them from the former dispatcher, the  *)
(* writable one first: the same one, if it was installed already.          *)
SetDispatcher ==
  /\ phase \in {"main", "dispatch"}
  /\ IF installed THEN boost_remove_watch(Writable) ELSE boost_add_watch(Readable)
  /\ installed' = TRUE
  /\ UNCHANGED <<enabled, serving, bus>>

CallBlocks ==
  /\ phase \in {"main", "dispatch"}
  /\ ReadSocket
  /\ UNCHANGED <<state, enabled>>

Run ==
  /\ phase = "main" /\ installed
  /\ phase' = "wait"
  /\ UNCHANGED <<descriptor, data, armed, enabled, installed, serving, why, bus>>

-----------------------------------------------------------------------------
(* A wait ends because the descriptor is ready. At the end of the stream,  *)
(* or when asio reports an error, libdbus disconnects and removes its      *)
(* watches, the readable one first. There is no action for handle_write:   *)
(* OnlyStaticWatches shows that nothing ever waits for the writable watch. *)
Complete(w) ==
  /\ phase = "wait"
  /\ armed[w] > 0

handle_read ==
  /\ Complete(Readable)
  /\ ReadSocket
  /\ armed' = [armed EXCEPT ![Readable] = @ - 1]
  /\ phase' = "dispatch" /\ serving' = Readable
  /\ UNCHANGED <<descriptor, data, enabled, installed, why>>

handle_disconnect ==
  /\ Complete(Readable)
  /\ hangup /\ sock = 0
  /\ boost_remove_watch(Readable)
  /\ enabled' = {} /\ serving' = Readable
  /\ UNCHANGED <<installed, bus>>

(* dbus_connection_dispatch, one message. The servant's reply normally     *)
(* fits into the socket; if it does not, libdbus enables the writable      *)
(* watch. If too many bytes of messages are alive, libdbus disables the    *)
(* readable one.                                                           *)
dispatch ==
  /\ phase = "dispatch"
  /\ TakeMessage
  /\ UNCHANGED <<state, enabled>>

WatchToggled ==
  /\ phase = "dispatch"
  /\ \/ enabled' = enabled \cup {Writable} /\ boost_add_watch(Writable)
     \/ enabled' = enabled \ {Readable} /\ boost_remove_watch(Readable)
  /\ UNCHANGED <<installed, serving, bus>>

(* A changed end of the handler: it does not wait again.                   *)
handler_end_silent ==
  /\ phase = "dispatch"
  /\ queue = 0
  /\ phase' = "wait" /\ serving' = NULL
  /\ UNCHANGED <<descriptor, data, armed, enabled, installed, why, bus>>

handler_end ==
  /\ phase = "dispatch"
  /\ queue = 0
  /\ resubscribe(serving)
  /\ serving' = NULL
  /\ UNCHANGED <<enabled, installed, bus>>

PeerActs == (Sends \/ Closes) /\ UNCHANGED <<state, enabled>>

Handlers == handle_read \/ dispatch \/ handler_end \/ handle_disconnect

BoostNext == SetDispatcher \/ CallBlocks \/ Run \/ Handlers \/ WatchToggled \/ PeerActs

(* Fairness: ios.run() runs handlers, and servants return.                 *)
BoostSpec == BoostInit /\ [][BoostNext]_boostVars /\ WF_boostVars(Handlers)

-----------------------------------------------------------------------------
(* While ios.run() waits, it waits for exactly one thing: once for the     *)
(* readable watch. So it never runs out of work and never handles one      *)
(* event twice, although handle_read waits again without a check.          *)
WaitsOnce ==
  phase = "wait" => armed = [w \in Watches |-> IF w = Readable THEN 1 ELSE 0]

(* The variables have their types, and the wait for input is exact.        *)
WaitsRight == WatchesTyped /\ WaitsOnce

(* The dispatcher survives only while libdbus keeps to the first callback: *)
(* any later change of the watches ends the process.                       *)
OnlyStaticWatches == phase # "failed" => enabled = {Readable} /\ armed[Writable] = 0

(* What reaches the socket is dispatched, unless the dispatcher fails.     *)
InputServed ==
  (phase = "wait" /\ sock > 0) ~> ((sock = 0 /\ queue = 0) \/ phase = "failed")

(* resubscribe asserts that the watch has its descriptor as data,          *)
(* boost_dispatcher.cpp:75 - the code of add_watch shows that it does not  *)
(* when libdbus enables the second watch of the descriptor.                *)
DescriptorAsserted == why # "resubscribe assert"

=============================================================================
