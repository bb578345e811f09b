------------------------------- MODULE Server -------------------------------
(***************************************************************************)
(* The dispatch tables of one process that uses dboost:                    *)
(*   - the object tree libdbus keeps for the (process-wide, shared)        *)
(*     connection: which paths have a handler, and which dboost::server    *)
(*     is that handler's user_data;                                        *)
(*   - dboost::server::m_adaptors, interface name -> adaptor*;             *)
(*   - m_objects of every generated adaptor, path -> object*.              *)
(* Each operation is one action: dboost code runs on one thread and none   *)
(* of these operations blocks.  What happens to a method call is the       *)
(* state function Answer: handle_message changes none of the tables.       *)
(***************************************************************************)
CONSTANTS
  Servers,        (* dboost::server instances                              *)
  Adaptors,       (* instances of generated adaptor classes                *)
  Interfaces,     (* D-Bus interface names                                 *)
  Paths,          (* object paths                                          *)
  Objects,        (* the user's implementation objects                     *)
  Methods,        (* member names a caller may use                         *)
  ServerOf,       (* the server& an adaptor is constructed with            *)
  InterfaceName,  (* INTERFACE_NAME of the adaptor's class                 *)
  Vtbl,           (* interface -> members listed in the adaptor's vtbl     *)
  NULL            (* nullptr, or no entry in a map                         *)

ASSUME ConstantsAssumption ==
  /\ ServerOf \in [Adaptors -> Servers]
  /\ InterfaceName \in [Adaptors -> Interfaces]
  /\ Vtbl \in [Interfaces -> SUBSET Methods]
  /\ NULL \notin Servers \cup Adaptors \cup Objects \cup Interfaces

VARIABLES
  created,     (* servers whose constructor has run                        *)
  alive,       (* those whose destructor has not run                       *)
  life,        (* "unborn", "alive" or "dead", for every adaptor           *)
  m_adaptors,  (* per server: interface -> adaptor or NULL                 *)
  m_objects,   (* per adaptor: path -> object or NULL; the last contents   *)
               (* stay visible here after the adaptor's destructor         *)
  tree,        (* libdbus: path -> user_data of its handler, or NULL       *)
  contested    (* history: <<s, i>> once served by two live adaptors       *)

vars == <<created, alive, life, m_adaptors, m_objects, tree, contested>>

TypeOK ==
  /\ created \in SUBSET Servers
  /\ alive \in SUBSET created
  /\ life \in [Adaptors -> {"unborn", "alive", "dead"}]
  /\ m_adaptors \in [Servers -> [Interfaces -> Adaptors \cup {NULL}]]
  /\ m_objects \in [Adaptors -> [Paths -> Objects \cup {NULL}]]
  /\ tree \in [Paths -> Servers \cup {NULL}]
  /\ contested \in SUBSET (Servers \X Interfaces)

Init ==
  /\ created = {}
  /\ alive = {}
  /\ life = [a \in Adaptors |-> "unborn"]
  /\ m_adaptors = [s \in Servers |-> [i \in Interfaces |-> NULL]]
  /\ m_objects = [a \in Adaptors |-> [p \in Paths |-> NULL]]
  /\ tree = [p \in Paths |-> NULL]
  /\ contested = {}

Slot(a) == <<ServerOf[a], InterfaceName[a]>>

Siblings(a) == {b \in Adaptors : b # a /\ life[b] = "alive" /\ Slot(b) = Slot(a)}

-----------------------------------------------------------------------------
(* server::register_adaptor and unregister_adaptor. The first overwrites   *)
(* the entry; the second ignores which adaptor the entry points to.        *)
register_adaptor(a) ==
  m_adaptors' = [m_adaptors EXCEPT ![ServerOf[a]][InterfaceName[a]] = a]

unregister_adaptor(a) ==
  m_adaptors' = [m_adaptors EXCEPT ![ServerOf[a]][InterfaceName[a]] = NULL]

(* The adaptor's constructor and destructor. Servers outlive their         *)
(* adaptors, as in every main(): an adaptor holds a server&.               *)
Construct(a) ==
  /\ life[a] = "unborn"
  /\ ServerOf[a] \in alive
  /\ register_adaptor(a)
  /\ life' = [life EXCEPT ![a] = "alive"]
  /\ contested' = IF Siblings(a) = {} THEN contested ELSE contested \cup {Slot(a)}
  /\ UNCHANGED <<created, alive, m_objects, tree>>

(* Broken variant: the destructor forgets unregister_adaptor.              *)
Destroy_no_unregister(a) ==
  /\ life[a] = "alive"
  /\ life' = [life EXCEPT ![a] = "dead"]
  /\ UNCHANGED <<created, alive, m_adaptors, m_objects, tree, contested>>

Destroy(a) ==
  /\ life[a] = "alive"
  /\ unregister_adaptor(a)
  /\ life' = [life EXCEPT ![a] = "dead"]
  /\ UNCHANGED <<created, alive, m_objects, tree, contested>>

(* add_object: register_object first, then the map. libdbus refuses a path *)
(* that has a handler; DBOOST_CHECK then throws and nothing has changed.   *)
(* Broken variants: a second registration replaces the handler; the        *)
(* user_data is not the server.                                            *)
register_object_replace(s, p) ==
  tree' = [tree EXCEPT ![p] = s]

register_object_no_data(s, p) ==
  /\ tree[p] = NULL
  /\ tree' = [tree EXCEPT ![p] = <<s, p>>]

register_object(s, p) ==
  /\ tree[p] = NULL
  /\ tree' = [tree EXCEPT ![p] = s]

(* Broken variant: fills the map before the registration that may throw.   *)
add_object_map_first(a, t, p) ==
  /\ life[a] = "alive"
  /\ m_objects' = [m_objects EXCEPT ![a][p] = t]
  /\ tree' = IF tree[p] = NULL THEN [tree EXCEPT ![p] = ServerOf[a]] ELSE tree
  /\ UNCHANGED <<created, alive, life, m_adaptors, contested>>

add_object(a, t, p) ==
  /\ life[a] = "alive"
  /\ register_object(ServerOf[a], p)
  /\ m_objects' = [m_objects EXCEPT ![a][p] = t]
  /\ UNCHANGED <<created, alive, life, m_adaptors, contested>>

(* remove_object: a path this adaptor does not have is left alone.         *)
unregister_object(p) ==
  tree' = [tree EXCEPT ![p] = NULL]

(* Broken variant: keeps the handler.                                      *)
remove_object_keep_handler(a, p) ==
  /\ life[a] = "alive"
  /\ m_objects[a][p] # NULL
  /\ m_objects' = [m_objects EXCEPT ![a][p] = NULL]
  /\ UNCHANGED <<created, alive, life, m_adaptors, tree, contested>>

remove_object(a, p) ==
  /\ life[a] = "alive"
  /\ m_objects[a][p] # NULL
  /\ unregister_object(p)
  /\ m_objects' = [m_objects EXCEPT ![a][p] = NULL]
  /\ UNCHANGED <<created, alive, life, m_adaptors, contested>>

(* server::server keeps the connection and the name. That it also asks the *)
(* bus for the name, and gives it back, is in Service.                     *)
CreateServer(s) ==
  /\ s \notin created
  /\ created' = created \cup {s}
  /\ alive' = alive \cup {s}
  /\ UNCHANGED <<life, m_adaptors, m_objects, tree, contested>>

(* server::~server gives the bus name back and frees m_adaptors. Paths     *)
(* still registered keep the dead server as user_data.                     *)
DestroyServer(s) ==
  /\ s \in alive
  /\ \A a \in Adaptors : ServerOf[a] = s => life[a] # "alive"
  /\ alive' = alive \ {s}
  /\ UNCHANGED <<created, life, m_adaptors, m_objects, tree, contested>>

Next ==
  \/ \E a \in Adaptors : Construct(a) \/ Destroy(a)
  \/ \E a \in Adaptors, p \in Paths, t \in Objects : add_object(a, t, p)
  \/ \E a \in Adaptors, p \in Paths : remove_object(a, p)
  \/ \E s \in Servers : CreateServer(s) \/ DestroyServer(s)

Spec == Init /\ [][Next]_vars

-----------------------------------------------------------------------------
(* What a method call gets, as <<kind, object>>.                           *)
(*  "unhandled": NOT_YET_HANDLED, libdbus replies with an UnknownMethod    *)
(*               error;                                                    *)
(*  "silent":    HANDLED but no reply is ever sent;                        *)
(*  "dead":      a freed server or adaptor would be entered;               *)
(*  "exception": m_adaptors.find(nullptr) throws through libdbus;          *)
(*  "call":      the member is called on that object.                      *)
Kinds == {"unhandled", "silent", "dead", "exception", "call"}

handle_message(a, p, member) ==
  CASE life[a] # "alive" -> <<"dead", NULL>>
    [] life[a] = "alive" /\ m_objects[a][p] = NULL -> <<"unhandled", NULL>>
    [] life[a] = "alive" /\ m_objects[a][p] # NULL ->
         IF member \in Vtbl[InterfaceName[a]] THEN <<"call", m_objects[a][p]>>
                                              ELSE <<"silent", NULL>>

message_func(s, p, ifc, member) ==
  CASE s \notin alive -> <<"dead", NULL>>
    [] s \in alive /\ ifc = NULL -> <<"exception", NULL>>
    [] s \in alive /\ ifc # NULL ->
         IF m_adaptors[s][ifc] = NULL THEN <<"unhandled", NULL>>
         ELSE handle_message(m_adaptors[s][ifc], p, member)

Answer(p, ifc, member) ==
  IF tree[p] = NULL THEN <<"unhandled", NULL>>
  ELSE message_func(tree[p], p, ifc, member)

-----------------------------------------------------------------------------
(* A registered adaptor is alive, serves that interface (the assertion at  *)
(* the top of handle_message) and belongs to that server: although         *)
(* register_adaptor overwrites and unregister_adaptor erases blindly, no   *)
(* order of constructors and destructors leaves a dangling adaptor*.       *)
NoDanglingAdaptor ==
  \A s \in Servers, i \in Interfaces :
    m_adaptors[s][i] # NULL =>
      /\ life[m_adaptors[s][i]] = "alive"
      /\ Slot(m_adaptors[s][i]) = <<s, i>>

(* The object tree and the adaptors' maps say the same: a path has a       *)
(* handler exactly when one adaptor holds an object there, that handler is *)
(* the adaptor's server, and no two adaptors hold the same path - even     *)
(* after add_object threw, and counting what dead adaptors left behind.    *)
ObjectTreeExact ==
  \A p \in Paths :
    /\ \A a, b \in Adaptors :
         m_objects[a][p] # NULL /\ m_objects[b][p] # NULL => a = b
    /\ \A a \in Adaptors : m_objects[a][p] # NULL => tree[p] = ServerOf[a]
    /\ tree[p] # NULL => \E a \in Adaptors : m_objects[a][p] # NULL

(* What the four tables have in common beyond the two invariants above:    *)
(* a live adaptor has a live server, an adaptor not yet constructed holds  *)
(* nothing, and a live adaptor that never had a rival is the registered    *)
(* one of its interface.                                                   *)
TablesConsistent ==
  \A a \in Adaptors :
    /\ life[a] = "alive" => ServerOf[a] \in alive
    /\ life[a] = "unborn" => \A p \in Paths : m_objects[a][p] = NULL
    /\ life[a] = "alive" /\ Slot(a) \notin contested =>
         m_adaptors[ServerOf[a]][InterfaceName[a]] = a

(* The tables have their types and say consistent things of every adaptor. *)
TablesRight == TypeOK /\ TablesConsistent

(* An object that was added and not removed answers every member of its    *)
(* interface, as long as no second adaptor of the same interface has been  *)
(* alive on the same server together with its own.                         *)
Reachable ==
  \A a \in Adaptors, p \in Paths :
    life[a] = "alive" /\ m_objects[a][p] # NULL /\ Slot(a) \notin contested =>
      \A member \in Vtbl[InterfaceName[a]] :
        Answer(p, InterfaceName[a], member) = <<"call", m_objects[a][p]>>

(* The objects a dead adaptor left in the object tree are never called:    *)
(* while its server lives, their paths answer as if nothing handled them.  *)
DeadAdaptorSilent ==
  \A a \in Adaptors, p \in Paths :
    life[a] = "dead" /\ m_objects[a][p] # NULL /\ ServerOf[a] \in alive =>
      \A i \in Interfaces, member \in Methods :
        Answer(p, i, member) = <<"unhandled", NULL>>

(* The freed server is the one table entry that can be entered: only on    *)
(* paths that an adaptor of that server never removed.                     *)
DeadServerOnlyByLeftovers ==
  \A p \in Paths, i \in Interfaces, member \in Methods :
    Answer(p, i, member)[1] = "dead" =>
      \E a \in Adaptors : /\ life[a] = "dead"
                          /\ m_objects[a][p] # NULL
                          /\ ServerOf[a] = tree[p]
                          /\ tree[p] \notin alive

(* A path gets or loses its handler only through the adaptor that holds    *)
(* it, while that adaptor is alive; a handler is never replaced.           *)
PathChangedByOwner ==
  [][\A p \in Paths : tree'[p] # tree[p] =>
       /\ tree[p] = NULL \/ tree'[p] = NULL
       /\ \E a \in Adaptors : /\ life[a] = "alive"
                              /\ (m_objects[a][p] = NULL) # (m_objects'[a][p] = NULL)]_vars

=============================================================================
