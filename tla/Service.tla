------------------------------ MODULE Service ------------------------------
(***************************************************************************)
(* The servers of Server together with the bus names they are constructed  *)
(* with. The bus daemon keeps a queue of connections for every name; the   *)
(* first owns the name and receives what is sent to it. All servers of     *)
(* this process share one connection, Here. Their requests have no flags:  *)
(* they neither replace an owner nor let themselves be replaced, and wait  *)
(* in the queue when there is one, which the code takes for success.       *)
(***************************************************************************)
EXTENDS Server, SequencesExt

CONSTANTS
  Names,    (* bus names                                                   *)
  NameOf,   (* the name a server is constructed with                       *)
  Here,     (* the connection of this process                              *)
  Rivals    (* connections of other processes                              *)

ASSUME ServiceAssumption ==
  /\ NameOf \in [Servers -> Names]
  /\ Here \notin Rivals \cup {NULL}
  /\ NULL \notin Rivals

VARIABLE queues   (* the bus daemon: per name, who owns it and who waits   *)

serviceVars == <<vars, queues>>

Connections == Rivals \cup {Here}

ServiceTypeOK == queues \in [Names -> Seq(Connections)]

ServiceInit == Init /\ queues = [n \in Names |-> <<>>]

Owner(n) == IF queues[n] = <<>> THEN NULL ELSE queues[n][1]

Waits(c, n) == Contains(queues[n], c)

Place(c, n) == CHOOSE i \in 1..Len(queues[n]) : queues[n][i] = c

(* RequestName without flags: whoever is in the queue keeps the place.     *)
(* Broken variant: an owner gives way.                                     *)
Requested_replace(c, n) == <<c>> \o Remove(queues[n], c)

Requested(c, n) == IF Waits(c, n) THEN queues[n] ELSE Append(queues[n], c)

(* ReleaseName.                                                            *)
Released(c, n) ==
  IF Waits(c, n) THEN RemoveAt(queues[n], Place(c, n)) ELSE queues[n]

(* server::server. Only -1 is an error, so any place in the queue will do. *)
(* Broken variant: the connection asks for a name once only.               *)
Serve_once(s) ==
  /\ CreateServer(s)
  /\ queues' = IF created = {}
                  THEN [queues EXCEPT ![NameOf[s]] = Requested(Here, NameOf[s])]
                  ELSE queues

Serve(s) ==
  /\ CreateServer(s)
  /\ queues' = [queues EXCEPT ![NameOf[s]] = Requested(Here, NameOf[s])]

(* server::~server. The name is given back also when another server of     *)
(* this process still goes by it. Broken variant: the name is kept.        *)
Retire_keep(s) == DestroyServer(s) /\ UNCHANGED queues

Retire(s) ==
  /\ DestroyServer(s)
  /\ queues' = [queues EXCEPT ![NameOf[s]] = Released(Here, NameOf[s])]

(* Adaptors and objects come and go without the bus noticing.              *)
TablesChange ==
  /\ \/ \E a \in Adaptors : Construct(a) \/ Destroy(a)
     \/ \E a \in Adaptors, p \in Paths, t \in Objects : add_object(a, t, p)
     \/ \E a \in Adaptors, p \in Paths : remove_object(a, p)
  /\ UNCHANGED queues

(* Other processes run servers of the same names, and end.                 *)
RivalRequests(c, n) ==
  /\ ~Waits(c, n)
  /\ queues' = [queues EXCEPT ![n] = Requested(c, n)]
  /\ UNCHANGED vars

RivalReleases(c, n) ==
  /\ Waits(c, n)
  /\ queues' = [queues EXCEPT ![n] = Released(c, n)]
  /\ UNCHANGED vars

ServiceNext ==
  \/ \E s \in Servers : Serve(s) \/ Retire(s)
  \/ TablesChange
  \/ \E c \in Rivals, n \in Names : RivalRequests(c, n) \/ RivalReleases(c, n)

ServiceSpec == ServiceInit /\ [][ServiceNext]_serviceVars

-----------------------------------------------------------------------------
(* A call sent to a name reaches the tables of this process only while it  *)
(* owns the name - and then the tables of all its servers, as they share   *)
(* the connection.                                                         *)
Call(n, p, ifc, member) ==
  IF Owner(n) = Here THEN Answer(p, ifc, member) ELSE <<"elsewhere", Owner(n)>>

ByName(n) == {s \in Servers : NameOf[s] = n}

(* This process stands at most once in the queue of a name, and only       *)
(* for a live server of that name. A live server without a place in the    *)
(* queue has lost it to the destructor of another of the same name.        *)
NamesRight ==
  \A n \in Names :
    /\ IsInjective(queues[n])
    /\ Waits(Here, n) => ByName(n) \cap alive # {}
    /\ ByName(n) \cap alive # {} /\ ByName(n) \cap created \subseteq alive =>
         Waits(Here, n)

(* An object answers calls sent to its server's name when nobody else has  *)
(* asked for the name, no server of the name has been destroyed, and no    *)
(* adaptor has rivalled its own: the three ways in which dboost code that  *)
(* has reported no error leaves a server deaf.                             *)
ServedByName ==
  \A a \in Adaptors, p \in Paths :
    LET n == NameOf[ServerOf[a]] IN
    /\ life[a] = "alive" /\ m_objects[a][p] # NULL /\ Slot(a) \notin contested
    /\ ByName(n) \cap created \subseteq alive
    /\ \A c \in Rivals : ~Waits(c, n)
    => \A member \in Vtbl[InterfaceName[a]] :
         Call(n, p, InterfaceName[a], member) = <<"call", m_objects[a][p]>>

(* A name changes hands only when its owner gives it up, and then to the   *)
(* one who has waited longest: a server that owns its name is not ousted   *)
(* by another process, and one that waits is not overtaken.                *)
OwnerSteady ==
  [][\A n \in Names, c \in Connections : Owner(n) = c /\ Owner(n)' # c =>
       /\ ~Waits(c, n)'
       /\ Owner(n)' = IF Len(queues[n]) = 1 THEN NULL ELSE queues[n][2]]_serviceVars
=============================================================================
