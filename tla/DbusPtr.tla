------------------------------ MODULE DbusPtr ------------------------------
(***************************************************************************)
(* include/dbus_ptr.h: handles on libdbus's counted objects, and how the   *)
(* library and the generated code use them. The constructor from a pointer *)
(* takes a reference - also when the pointer comes with one, as all that   *)
(* libdbus returns here do - and the destructor gives one back. The        *)
(* constructor meant for copies takes a dbus_ptr*, so copies are made by   *)
(* the implicit one, which takes none.                                     *)
(***************************************************************************)
EXTENDS Integers, FiniteSets

CONSTANTS
  Connection,   (* the connection that dbus_bus_get shares                 *)
  Messages,     (* messages of calls; each has a handle of the same name   *)
  Variables,    (* variables of type dbus_ptr<DBusConnection>              *)
  Users,        (* servers, dispatchers, proxies: each has a member handle *)
  MaxGets,      (* bound: calls of create_connection                       *)
  NULL, None    (* a null handle; a handle that does not exist             *)

Objects == {Connection} \cup Messages
Handles == Variables \cup Users \cup Messages

ASSUME PtrAssumption ==
  /\ IsFiniteSet(Handles) /\ MaxGets \in Nat
  /\ Connection \notin Messages /\ NULL \notin Objects /\ None \notin Objects
  /\ NULL # None /\ (Variables \cup Users) \cap Messages = {}

VARIABLES
  count,     (* libdbus's count of references, 0 when the object is freed  *)
  handle,    (* per handle: the object in m_ptr                            *)
  lib,       (* the references that libdbus's own tables and queues have   *)
  adopted,   (* history: handles made of a pointer with a reference        *)
  copied,    (* history: implicit copies                                   *)
  named      (* whether the build constructs a returned local in place,    *)
             (* also where a function has several return statements        *)

vars == <<count, handle, lib, adopted, copied, named>>

TypeOK ==
  /\ count \in [Objects -> Nat]
  /\ handle \in [Handles -> Objects \cup {NULL, None}]
  /\ lib \in [Objects -> 0 .. 1]
  /\ adopted \in [Objects -> Nat] /\ copied \in [Objects -> Nat]
  /\ named \in BOOLEAN

Init ==
  /\ count = [o \in Objects |-> 0]
  /\ handle = [h \in Handles |-> None]
  /\ lib = [o \in Objects |-> 0]
  /\ adopted = [o \in Objects |-> 0] /\ copied = [o \in Objects |-> 0]
  /\ named \in BOOLEAN

Held(o) == {h \in Handles : handle[h] = o}

(* An object that somebody counts on has been freed: what happens next is  *)
(* undefined. libdbus itself ends the process when the connection's last   *)
(* reference goes while it is open.                                        *)
Dangling(o) == count[o] = 0 /\ (Held(o) # {} \/ lib[o] > 0)
Alive == \A o \in Objects : ~Dangling(o)

-----------------------------------------------------------------------------
(* The pieces: refs references taken (or given back, if negative), copies  *)
(* implicit copies made, one reference adopted or none.                    *)
Counts(o, refs, adopts, copies) ==
  /\ count' = [count EXCEPT ![o] = @ + refs]
  /\ adopted' = [adopted EXCEPT ![o] = @ + adopts]
  /\ copied' = [copied EXCEPT ![o] = @ + copies]

(* dbus_ptr(T* ptr): a fresh reference and one of its own. Broken variant: *)
(* the reference that came with the pointer is all there is.               *)
Adopt_only(o, extra) == Counts(o, 1 + extra, 1, 0)

Adopt(o, extra) == Counts(o, 2 + extra, 1, 0)

(* dbus_bus_get: libdbus keeps a reference to the shared connection.       *)
Shared == lib' = [lib EXCEPT ![Connection] = 1]
FromTable == 1 - lib[Connection]

(* auto conn = create_connection(): its only return statement constructs   *)
(* the result in place.                                                    *)
create_connection(v) ==
  /\ Alive /\ v \in Variables /\ handle[v] = None
  /\ adopted[Connection] < MaxGets
  /\ Adopt(Connection, FromTable) /\ Shared
  /\ handle' = [handle EXCEPT ![v] = Connection]
  /\ UNCHANGED named

(* server, boost_dispatcher, <interface>_proxy: the argument is copied to  *)
(* the parameter, that to the member, and the parameter destroyed.         *)
Construct(u, v) ==
  /\ Alive /\ u \in Users /\ v \in Variables
  /\ handle[u] = None /\ handle[v] = Connection
  /\ Counts(Connection, -1, 0, 2)
  /\ handle' = [handle EXCEPT ![u] = Connection]
  /\ UNCHANGED <<lib, named>>

(* The same with create_connection() for the argument: the parameter is    *)
(* the result itself.                                                      *)
ConstructFromResult(u) ==
  /\ Alive /\ u \in Users /\ handle[u] = None
  /\ adopted[Connection] < MaxGets
  /\ Counts(Connection, FromTable + 1, 1, 1) /\ Shared
  /\ handle' = [handle EXCEPT ![u] = Connection]
  /\ UNCHANGED named

(* dbus_ptr(), and dbus_ptr<T>(nullptr).                                   *)
Empty(v) ==
  /\ Alive /\ v \in Variables /\ handle[v] = None
  /\ handle' = [handle EXCEPT ![v] = NULL]
  /\ UNCHANGED <<count, lib, adopted, copied, named>>

(* ~dbus_ptr, of variables and of members.                                 *)
Destroy(h) ==
  /\ Alive /\ h \in Variables \cup Users /\ handle[h] # None
  /\ IF handle[h] = NULL THEN UNCHANGED <<count, adopted, copied>>
                         ELSE Counts(handle[h], -1, 0, 0)
  /\ handle' = [handle EXCEPT ![h] = None]
  /\ UNCHANGED <<lib, named>>

(* operator=, reset: a handle on the new object, which takes a reference,  *)
(* is swapped with this one and destroyed with the old object.             *)
Assign(v, p) ==
  /\ Alive /\ v \in Variables /\ handle[v] # None
  /\ p = NULL \/ \E w \in Variables : handle[w] = Connection
  /\ handle' = [handle EXCEPT ![v] = p]
  /\ IF handle[v] = p THEN UNCHANGED <<count, adopted, copied>>
                      ELSE Counts(Connection, IF p = NULL THEN -1 ELSE 1, 0, 0)
  /\ UNCHANGED <<lib, named>>

swap(v, w) ==
  /\ Alive /\ v \in Variables /\ w \in Variables /\ v # w
  /\ handle[v] # None /\ handle[w] # None
  /\ handle' = [handle EXCEPT ![v] = handle[w], ![w] = handle[v]]
  /\ UNCHANGED <<count, lib, adopted, copied, named>>

-----------------------------------------------------------------------------
(* A message of the generated code: msg and reply of a proxy, result of an *)
(* adaptor. Proxies hold theirs until the operation ends; a reply is never *)
(* sent. libdbus holds what is sent until it is written.                   *)
Fresh(m) == m \in Messages /\ adopted[m] = 0

ProxyMessage(m) ==
  /\ Alive /\ Fresh(m)
  /\ Adopt(m, 0)
  /\ handle' = [handle EXCEPT ![m] = m]
  /\ UNCHANGED <<lib, named>>

Send(m) ==
  /\ Alive /\ m \in Messages /\ handle[m] = m /\ lib[m] = 0
  /\ Counts(m, 1, 0, 0)
  /\ lib' = [lib EXCEPT ![m] = 1]
  /\ UNCHANGED <<handle, named>>

Written(m) ==
  /\ Alive /\ m \in Messages /\ lib[m] = 1
  /\ Counts(m, -1, 0, 0)
  /\ lib' = [lib EXCEPT ![m] = 0]
  /\ UNCHANGED <<handle, named>>

EndOfOperation(m) ==
  /\ Alive /\ m \in Messages /\ handle[m] = m
  /\ Counts(m, -1, 0, 0)
  /\ handle' = [handle EXCEPT ![m] = None]
  /\ UNCHANGED <<lib, named>>

(* handle_message and call_<operation>: the local result is returned - in  *)
(* place, or by a copy and its destruction - then sent and destroyed.      *)
(* Broken variant: a copy more on the way.                                 *)
Reply_copied(m) ==
  /\ Alive /\ Fresh(m)
  /\ Counts(m, 2 - 1 - 1, 1, 2)
  /\ lib' = [lib EXCEPT ![m] = 1]
  /\ UNCHANGED <<handle, named>>

Reply(m) ==
  /\ Alive /\ Fresh(m)
  /\ IF named THEN Counts(m, 2 + 1 - 1, 1, 0) ELSE Counts(m, 2 - 1 + 1 - 1, 1, 1)
  /\ lib' = [lib EXCEPT ![m] = 1]
  /\ UNCHANGED <<handle, named>>

Next ==
  \/ \E v \in Variables : create_connection(v) \/ Empty(v)
  \/ \E h \in Handles : Destroy(h)
  \/ \E v, w \in Variables : swap(v, w)
  \/ \E v \in Variables, p \in {Connection, NULL} : Assign(v, p)
  \/ \E u \in Users, v \in Variables : Construct(u, v)
  \/ \E u \in Users : ConstructFromResult(u)
  \/ \E m \in Messages :
       ProxyMessage(m) \/ Send(m) \/ Written(m) \/ EndOfOperation(m) \/ Reply(m)

Spec == Init /\ [][Next]_vars

-----------------------------------------------------------------------------
(* The law of these handles: what libdbus counts beyond its own references *)
(* and the handles there are is one for each adopted pointer, less one for *)
(* each implicit copy. The first is a leak, the second an early end.       *)
Accounting ==
  \A o \in Objects :
    count[o] + copied[o] = lib[o] + Cardinality(Held(o)) + adopted[o]

(* No count falls below zero, and the law holds.                           *)
CountsKept == TypeOK /\ Accounting

(* Nobody is left with a freed object as long as the implicit copies do    *)
(* not outnumber the adopted pointers - which one server made of a         *)
(* variable's connection already exceeds, though not yet fatally.          *)
FreedEarlyHasCause ==
  \A o \in Objects : Dangling(o) => copied[o] > adopted[o]

(* No message is freed while a proxy or adaptor holds it or libdbus has it *)
(* to send, whether or not the compiler copies the returned result.        *)
MessagesSafe == \A m \in Messages : ~Dangling(m)

(* What the examples' servers live on: with one connection variable, a     *)
(* dispatcher and a server, the connection lasts as long as all three do.  *)
ExamplesServe ==
  adopted[Connection] = 1 /\ copied[Connection] <= 4 /\ Cardinality(Held(Connection)) >= 3
    => ~Dangling(Connection)

(* A message that nobody holds any more is freed if the compiler copied    *)
(* the result, and else keeps one reference for ever.                      *)
MessageEnds ==
  \A m \in Messages :
    adopted[m] = 1 /\ Held(m) = {} /\ lib[m] = 0
      => count[m] = 1 - copied[m] /\ copied[m] \in {0, 1}

(* A message lives as long as someone needs it, and no one's copy ends it  *)
(* twice.                                                                  *)
MessagesCounted == MessagesSafe /\ MessageEnds

(* What they would need to return from main(): test/01-basic-scenario's    *)
(* server hands conn to a dispatcher and a server and ends with return 0,  *)
(* which destroys them one by one: after each destructor the handles that  *)
(* are left must still have the connection.                                *)
KeptForOthers ==
  [][\A u \in Users : Destroy(u) =>
       (Held(Connection)' # {} => count'[Connection] > 0)]_vars

=============================================================================
