--------------------------- MODULE PollDispatcher ---------------------------
(***************************************************************************)
(* dboost::poll_dispatcher together with the connection it serves. libdbus *)
(* adds and removes watches through the callbacks; run() polls the slots   *)
(* and calls fd_handler, which lets libdbus read or write and then         *)
(* dispatches every queued message. Everything happens on one thread; the  *)
(* other actors are the peer at the end of the socket, and servants, whose *)
(* code runs inside dispatch.                                              *)
(***************************************************************************)
EXTENDS Connection, FiniteSets

CONSTANTS
  Fd,                  (* the descriptor of the watches                    *)
  MAX_WATCHES,         (* slots in pollfds and watches                     *)
  MaxRegistrations,    (* bound: calls of set_dispatcher with this one     *)
  Junk                 (* what uninitialised pointers may hold             *)

Slots == 0 .. MAX_WATCHES - 1

ASSUME PollAssumption ==
  /\ Fd \in Nat \ {0} /\ MAX_WATCHES \in Nat
  /\ MaxRegistrations \in Nat /\ 2 * MaxRegistrations <= MAX_WATCHES
  /\ Junk \subseteq Watches \cup {NULL}

VARIABLES
  pollfds,    (* slot -> descriptor, 0 after remove_watch                  *)
  watches,    (* slot -> watch, NULL after remove_watch                    *)
  max_i,      (* slots ever used                                           *)
  current,    (* whom libdbus calls back: "none", "this" or "other"        *)
  freed,      (* watches that libdbus has freed                            *)
  pc,         (* "setup", "poll", "handle", "dispatch", "left" or "exited" *)
  snapshot,   (* run()'s fds and watch: the ready watches, with their slots*)
  handled,    (* history: fd_handler has been called                       *)
  registered, (* history: calls of set_dispatcher with this one            *)
  lookups     (* history: slots that remove_watch read in its last search  *)

slots == <<pollfds, watches, max_i>>
history == <<handled, registered, lookups>>
vars == <<slots, current, enabled, freed, pc, snapshot, bus, history>>

TypeOK ==
  /\ pollfds \in [Slots -> {0, Fd}]
  /\ watches \in [Slots -> Watches \cup {NULL}]
  /\ max_i \in 0 .. MAX_WATCHES
  /\ current \in {"none", "this", "other"}
  /\ BusType
  /\ freed \in SUBSET Watches
  /\ pc \in {"setup", "poll", "handle", "dispatch", "left", "exited"}
  /\ snapshot \in SUBSET (Slots \X Watches)
  /\ handled \in BOOLEAN
  /\ registered \in 0 .. MaxRegistrations
  /\ lookups \in SUBSET (0 .. MAX_WATCHES)

(* The arrays are members without initialisers.                            *)
Init ==
  /\ pollfds = [i \in Slots |-> 0]
  /\ watches \in [Slots -> Junk]
  /\ max_i = 0
  /\ current = "none"
  /\ BusInit
  /\ freed = {}
  /\ pc = "setup"
  /\ snapshot = {}
  /\ handled = FALSE /\ registered = 0 /\ lookups = {}

-----------------------------------------------------------------------------
(* The callbacks, on the arrays as values t = [fds, ws, n, seen], because  *)
(* libdbus calls them several times in a row.                              *)
Table == [fds |-> pollfds, ws |-> watches, n |-> max_i, seen |-> {}]

add_watch(t, w) ==
  [fds |-> [t.fds EXCEPT ![t.n] = Fd], ws |-> [t.ws EXCEPT ![t.n] = w],
   n |-> t.n + 1, seen |-> t.seen]

(* Broken variant: leaves the pointer.                                     *)
remove_watch_pointer(t, w) ==
  LET hits == {i \in Slots : i <= t.n /\ t.ws[i] = w}
      first == CHOOSE i \in hits : \A j \in hits : i <= j
  IN IF hits = {} THEN t ELSE [t EXCEPT !.fds = [@ EXCEPT ![first] = 0]]

(* Searches the slots 0 .. max_i for the first that holds w. max_i drops   *)
(* only if that slot is the one past the last used.                        *)
remove_watch(t, w) ==
  LET hits == {i \in Slots : i <= t.n /\ t.ws[i] = w}
      first == CHOOSE i \in hits : \A j \in hits : i <= j
  IN IF hits = {} THEN [t EXCEPT !.seen = @ \cup 0 .. t.n]
     ELSE [fds |-> [t.fds EXCEPT ![first] = 0],
           ws |-> [t.ws EXCEPT ![first] = NULL],
           n |-> IF first = t.n /\ t.n > 0 THEN t.n - 1 ELSE t.n,
           seen |-> t.seen \cup 0 .. first]

SetTable(t) ==
  /\ pollfds' = t.fds /\ watches' = t.ws /\ max_i' = t.n /\ lookups' = t.seen

AddAll(t) == add_watch(add_watch(t, Writable), Readable)
RemoveAll(t) == remove_watch(remove_watch(t, Writable), Readable)

(* server::set_dispatcher. libdbus adds the watches to the new owner       *)
(* before it removes them from the old one.                                *)
set_dispatcher(d) ==
  /\ freed = {}
  /\ d = "this" => registered < MaxRegistrations
  /\ current' = d
  /\ \/ /\ d = "this" /\ current # "this"
        /\ SetTable(AddAll(Table))
     \/ /\ d = "this" /\ current = "this"
        /\ SetTable(RemoveAll(AddAll(Table)))
     \/ /\ d = "other" /\ current = "this"
        /\ SetTable(RemoveAll(Table))
  /\ registered' = IF d = "this" THEN registered + 1 ELSE registered
  /\ UNCHANGED handled

(* The main function installs the dispatcher, may make blocking calls that *)
(* read the socket without any watch, and enters run().                    *)
SetUp ==
  /\ pc = "setup"
  /\ \E d \in {"this", "other"} : set_dispatcher(d)
  /\ UNCHANGED <<enabled, freed, pc, snapshot, bus>>

BlockingCall ==
  /\ pc \in {"setup", "dispatch"}
  /\ freed = {}
  /\ ReadSocket
  /\ UNCHANGED <<slots, current, enabled, freed, pc, snapshot, history>>

(* libdbus disconnects: it removes its watches and frees them.             *)
Disconnect ==
  /\ hangup /\ freed = {}
  /\ freed' = Watches
  /\ enabled' = {}
  /\ IF current = "this" THEN SetTable(RemoveAll(Table)) ELSE UNCHANGED <<slots, lookups>>

(* The end of the stream met by a servant's own call or reply.             *)
LoseConnection ==
  /\ pc = "dispatch"
  /\ sock = 0
  /\ Disconnect
  /\ UNCHANGED <<current, pc, snapshot, bus, handled, registered>>

EnterRun ==
  /\ pc = "setup"
  /\ pc' = "poll"
  /\ UNCHANGED <<slots, current, enabled, freed, snapshot, bus, history>>

-----------------------------------------------------------------------------
(* One round of run(): collect the enabled watches of slots with a         *)
(* descriptor, poll, and keep those with revents, in the order of slots.   *)
(* A hangup shows on every slot; whether the socket takes output is up to  *)
(* the peer.                                                               *)
Polled == {i \in Slots : i < max_i /\ pollfds[i] # 0 /\ watches[i] \in enabled}

Poll ==
  /\ pc = "poll"
  /\ \E takes \in BOOLEAN :
       snapshot' = {e \in {<<i, watches[i]>> : i \in Polled} :
                      \/ hangup
                      \/ e[2] = Readable /\ sock > 0
                      \/ e[2] = Writable /\ takes}
  /\ snapshot' # {}
  /\ pc' = "handle"
  /\ UNCHANGED <<slots, current, enabled, freed, bus, history>>

(* poll() returns -1 (a signal): run() returns.                            *)
PollFails ==
  /\ pc = "poll"
  /\ pc' = "left"
  /\ UNCHANGED <<slots, current, enabled, freed, snapshot, bus, history>>

(* fd_handler, first half: dbus_watch_handle. Reading takes what is in the *)
(* socket; at the end of the stream libdbus disconnects. Writing flushes   *)
(* the output, so that the watch is disabled again.                        *)
HandleWatch(w) ==
  \/ /\ w = Readable
     /\ ReadSocket
     /\ UNCHANGED <<slots, lookups, enabled, freed>>
  \/ /\ sock = 0 \/ w = Writable
     /\ Disconnect
     /\ UNCHANGED bus
  \/ /\ w = Writable /\ ~hangup
     /\ enabled' = enabled \ {Writable}
     /\ UNCHANGED <<slots, lookups, freed, bus>>
  \/ /\ w = Readable /\ sock = 0 /\ ~hangup
     /\ UNCHANGED <<slots, lookups, enabled, freed, bus>>

Handle ==
  /\ pc = "handle"
  /\ \E e \in snapshot :
       /\ \A f \in snapshot : e[1] <= f[1]
       /\ snapshot' = snapshot \ {e}
       /\ HandleWatch(e[2])
  /\ handled' = TRUE
  /\ pc' = "dispatch"
  /\ UNCHANGED <<current, registered>>

(* fd_handler, second half: dbus_connection_dispatch until nothing is      *)
(* left. A servant may leave output that the socket does not take at once  *)
(* (watch_toggled does nothing; the next round reads the flag), or install *)
(* a dispatcher.                                                           *)
DispatchOne ==
  /\ pc = "dispatch"
  /\ TakeMessage
  /\ \/ /\ freed = {}
        /\ enabled' = enabled \cup {Writable}
        /\ UNCHANGED <<slots, current, history>>
     \/ /\ \E d \in {"this", "other"} : set_dispatcher(d)
        /\ UNCHANGED enabled
     \/ UNCHANGED <<slots, current, enabled, history>>
  /\ UNCHANGED <<freed, pc, snapshot>>

(* Broken variants: goes on after Disconnected; dispatches at most once.   *)
DispatchDone_stay ==
  /\ pc = "dispatch"
  /\ queue = 0
  /\ pc' = IF snapshot = {} THEN "poll" ELSE "handle"
  /\ UNCHANGED <<slots, current, enabled, freed, snapshot, bus, history>>

DispatchDone_once ==
  /\ pc = "dispatch"
  /\ pc' = IF freed # {} THEN "exited" ELSE IF snapshot = {} THEN "poll" ELSE "handle"
  /\ UNCHANGED <<slots, current, enabled, freed, snapshot, bus, history>>

(* The Disconnected message comes last; libdbus ends the process at it,    *)
(* because dbus_bus_get sets exit_on_disconnect and create_connection      *)
(* leaves it set.                                                          *)
DispatchDone ==
  /\ pc = "dispatch"
  /\ queue = 0
  /\ pc' = IF freed # {} THEN "exited" ELSE IF snapshot = {} THEN "poll" ELSE "handle"
  /\ UNCHANGED <<slots, current, enabled, freed, snapshot, bus, history>>

-----------------------------------------------------------------------------
PeerSends == Sends /\ UNCHANGED <<slots, current, enabled, freed, pc, snapshot, history>>
PeerCloses == Closes /\ UNCHANGED <<slots, current, enabled, freed, pc, snapshot, history>>

Loop == Poll \/ Handle \/ DispatchOne \/ DispatchDone

Next == SetUp \/ BlockingCall \/ LoseConnection \/ EnterRun \/ PollFails \/ Loop \/ PeerSends \/ PeerCloses

(* Fairness: the loop runs. A servant that dispatch enters returns: what   *)
(* it does is part of DispatchOne, and its own calls time out.             *)
Spec == Init /\ [][Next]_vars /\ WF_vars(Loop)

-----------------------------------------------------------------------------
Holders(w) == {i \in Slots : i < max_i /\ watches[i] = w}

(* While libdbus reports to this dispatcher each of its watches has one    *)
(* slot, with its descriptor; otherwise it has none - after any sequence   *)
(* of registrations, also of the same dispatcher twice.                    *)
OneSlotPerWatch ==
  \A w \in Watches :
    /\ Cardinality(Holders(w)) = IF current = "this" /\ freed = {} THEN 1 ELSE 0
    /\ \A i \in Holders(w) : pollfds[i] = Fd

(* remove_watch finds what it looks for, so that it never reads the slot   *)
(* at max_i, which was never written.                                      *)
SearchStaysInside == \A i \in lookups : i < max_i

(* Slots are not reused: every registration takes two new ones, and the    *)
(* arrays are full after MAX_WATCHES / 2 of them.                          *)
SlotsNeverReused == max_i = 2 * registered

(* Each round polls exactly the watches that libdbus has enabled by then,  *)
(* although watch_toggled does nothing.                                    *)
PolledWhenEnabled ==
  pc = "poll" => {watches[i] : i \in Polled} = IF current = "this" THEN enabled ELSE {}

(* The arrays as a whole, through any sequence of registrations.           *)
TablesRight ==
  /\ TypeOK
  /\ OneSlotPerWatch
  /\ SearchStaysInside
  /\ SlotsNeverReused
  /\ PolledWhenEnabled

(* fd_handler is not called with a watch that libdbus has freed, although  *)
(* the snapshot outlives the disconnection.                                *)
NoFreedWatch == pc = "handle" => freed = {}

(* Messages that lie in libdbus's queue while the loop waits are those     *)
(* that blocking calls left there before run(): after the first event on   *)
(* the descriptor none ever waits for the next event.                      *)
NoLostWakeup == pc = "poll" /\ handled => queue = 0

(* Once the loop runs, whatever reaches the socket is dispatched, together *)
(* with everything queued before - unless poll fails, the connection       *)
(* closes or another dispatcher takes over.                                *)
SocketServed ==
  (pc = "poll" /\ sock > 0) ~>
    (\/ sock = 0 /\ queue = 0
     \/ pc \in {"left", "exited"}
     \/ current # "this")

=============================================================================
