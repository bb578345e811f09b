-------------------------- MODULE DispatcherProofs --------------------------
(***************************************************************************)
(* Proofs about poll_dispatcher, for any size of the arrays, any contents  *)
(* they had before the first registration and any number of messages. The  *)
(* tables stay right because a registration always takes the two slots     *)
(* after the last used, so that the search of remove_watch meets the older *)
(* entry first and never runs past the used slots (SlotsOK).               *)
(* The second part is about boost_dispatcher on the same connection.       *)
(***************************************************************************)
EXTENDS PollDispatcher, BoostDispatcher, FiniteSetTheorems, TLAPS

TableType ==
  [fds : [Slots -> {0, Fd}], ws : [Slots -> Watches \cup {NULL}],
   n : 0 .. MAX_WATCHES, seen : SUBSET (0 .. MAX_WATCHES)]

(* The used slots hold nothing, or only the last two hold the watches.     *)
Blank(t, n) == \A i \in Slots : i < n => t.fds[i] = 0 /\ t.ws[i] = NULL
Pair(t, n) ==
  /\ n >= 2
  /\ Blank(t, n - 2)
  /\ t.fds[n - 2] = Fd /\ t.ws[n - 2] = Writable
  /\ t.fds[n - 1] = Fd /\ t.ws[n - 1] = Readable

SlotsOK ==
  /\ Table \in TableType
  /\ current \in {"none", "this", "other"}
  /\ registered \in 0 .. MaxRegistrations
  /\ max_i = 2 * registered
  /\ IF current = "this" /\ freed = {} THEN Pair(Table, max_i) ELSE Blank(Table, max_i)
  /\ lookups \in SUBSET (0 .. MAX_WATCHES)
  /\ \A i \in lookups : i < max_i

(* No message is counted twice.                                            *)
BusOK ==
  /\ sock \in Nat /\ queue \in Nat /\ sent \in 0 .. MaxMessages
  /\ sock + queue <= sent

(* libdbus frees its watches only while a message is dispatched, and then  *)
(* the process exits; what is queued is dispatched before the next poll.   *)
PhaseOK ==
  /\ pc \in {"setup", "poll", "handle", "dispatch", "left", "exited"}
  /\ snapshot \in SUBSET (Slots \X Watches)
  /\ enabled \in SUBSET Watches
  /\ freed \in {{}, Watches}
  /\ freed # {} => pc \in {"dispatch", "exited"}
  /\ hangup \in BOOLEAN /\ handled \in BOOLEAN
  /\ handled => pc # "setup"
  /\ handled => (pc \in {"poll", "handle"} => queue = 0)

IInv == SlotsOK /\ BusOK /\ PhaseOK

-----------------------------------------------------------------------------
(* What the callbacks do to the tables                                     *)

LEMMA AddAt ==
  ASSUME NEW t \in TableType, NEW w \in Watches, t.n < MAX_WATCHES
  PROVE  /\ add_watch(t, w) \in TableType
         /\ add_watch(t, w).fds = [t.fds EXCEPT ![t.n] = Fd]
         /\ add_watch(t, w).ws = [t.ws EXCEPT ![t.n] = w]
         /\ add_watch(t, w).n = t.n + 1
         /\ add_watch(t, w).seen = t.seen
<1>1. t.n + 1 \in 0 .. MAX_WATCHES /\ t.n \in Slots
  BY PollAssumption, ConnectionAssumption DEF TableType, Slots
<1>2. /\ [t.fds EXCEPT ![t.n] = Fd] \in [Slots -> {0, Fd}]
      /\ [t.ws EXCEPT ![t.n] = w] \in [Slots -> Watches \cup {NULL}]
  BY DEF TableType
<1> QED
  BY <1>1, <1>2 DEF TableType, add_watch

(* The search takes the first slot that holds the watch.                   *)
LEMMA RemoveAt ==
  ASSUME NEW t \in TableType, NEW w \in Watches, NEW f \in Slots, f < t.n, t.ws[f] = w,
         \A i \in Slots : i < f => t.ws[i] # w
  PROVE  /\ remove_watch(t, w) \in TableType
         /\ remove_watch(t, w).fds = [t.fds EXCEPT ![f] = 0]
         /\ remove_watch(t, w).ws = [t.ws EXCEPT ![f] = NULL]
         /\ remove_watch(t, w).n = t.n
         /\ remove_watch(t, w).seen = t.seen \cup 0 .. f
<1> DEFINE hits == {i \in Slots : i <= t.n /\ t.ws[i] = w}
           first == CHOOSE i \in hits : \A j \in hits : i <= j
<1>1. f \in hits /\ \A j \in hits : f <= j
  BY PollAssumption, ConnectionAssumption DEF TableType, Slots
<1>2. first \in hits /\ \A j \in hits : first <= j
  BY <1>1
<1>3. first = f
  <2>1. first \in Slots /\ f \in Slots
    BY <1>2
  <2>2. first <= f /\ f <= first
    BY <1>1, <1>2
  <2> HIDE DEF first
  <2> QED
    BY <2>1, <2>2, PollAssumption, ConnectionAssumption DEF Slots
<1>4. hits # {}
  BY <1>1
<1>5. remove_watch(t, w) =
        [fds |-> [t.fds EXCEPT ![f] = 0], ws |-> [t.ws EXCEPT ![f] = NULL],
         n |-> IF f = t.n /\ t.n > 0 THEN t.n - 1 ELSE t.n, seen |-> t.seen \cup 0 .. f]
  <2> HIDE DEF first
  <2>1. remove_watch(t, w) =
          IF hits = {} THEN [t EXCEPT !.seen = @ \cup 0 .. t.n]
          ELSE [fds |-> [t.fds EXCEPT ![first] = 0], ws |-> [t.ws EXCEPT ![first] = NULL],
                n |-> IF first = t.n /\ t.n > 0 THEN t.n - 1 ELSE t.n,
                seen |-> t.seen \cup 0 .. first]
    BY DEF remove_watch, first
  <2> HIDE DEF hits
  <2> QED
    BY <2>1, <1>3, <1>4
<1>6. f # t.n /\ t.n \in 0 .. MAX_WATCHES /\ t.seen \cup 0 .. f \subseteq 0 .. MAX_WATCHES
  BY PollAssumption, ConnectionAssumption DEF TableType, Slots
<1>7. /\ [t.fds EXCEPT ![f] = 0] \in [Slots -> {0, Fd}]
      /\ [t.ws EXCEPT ![f] = NULL] \in [Slots -> Watches \cup {NULL}]
  BY DEF TableType
<1> HIDE DEF hits, first
<1> QED
  BY <1>5, <1>6, <1>7 DEF TableType

LEMMA Distinct ==
  /\ Readable # Writable /\ Readable # NULL /\ Writable # NULL
  /\ Readable \in Watches /\ Writable \in Watches
BY PollAssumption, ConnectionAssumption DEF Watches

(* Registration takes the next two slots.                                  *)
LEMMA AddAllAt ==
  ASSUME NEW t \in TableType, t.n + 2 <= MAX_WATCHES
  PROVE  /\ AddAll(t) \in TableType
         /\ AddAll(t).fds = [t.fds EXCEPT ![t.n] = Fd, ![t.n + 1] = Fd]
         /\ AddAll(t).ws = [t.ws EXCEPT ![t.n] = Writable, ![t.n + 1] = Readable]
         /\ AddAll(t).n = t.n + 2 /\ AddAll(t).seen = t.seen
<1>1. t.n \in Nat /\ MAX_WATCHES \in Nat /\ t.n < MAX_WATCHES /\ t.n + 1 < MAX_WATCHES
      /\ (t.n + 1) + 1 = t.n + 2
  BY PollAssumption, ConnectionAssumption DEF TableType
<1> DEFINE u == add_watch(t, Writable)
<1>2. /\ u \in TableType /\ u.n = t.n + 1 /\ u.seen = t.seen
      /\ u.fds = [t.fds EXCEPT ![t.n] = Fd] /\ u.ws = [t.ws EXCEPT ![t.n] = Writable]
  BY <1>1, AddAt, Distinct
<1> HIDE DEF u
<1>3. /\ add_watch(u, Readable) \in TableType
      /\ add_watch(u, Readable).fds = [u.fds EXCEPT ![u.n] = Fd]
      /\ add_watch(u, Readable).ws = [u.ws EXCEPT ![u.n] = Readable]
      /\ add_watch(u, Readable).n = u.n + 1 /\ add_watch(u, Readable).seen = u.seen
  BY <1>1, <1>2, AddAt, Distinct
<1>4. AddAll(t) = add_watch(u, Readable)
  BY DEF AddAll, u
<1> QED
  BY <1>1, <1>2, <1>3, <1>4

LEMMA AddBlank ==
  ASSUME NEW t \in TableType, t.n + 2 <= MAX_WATCHES, Blank(t, t.n)
  PROVE  Pair(AddAll(t), t.n + 2)
<1>1. t.n \in Nat /\ (t.n + 2) - 2 = t.n /\ (t.n + 2) - 1 = t.n + 1
      /\ t.n \in Slots /\ t.n + 1 \in Slots /\ t.n # t.n + 1 /\ t.n + 2 >= 2
  BY PollAssumption, ConnectionAssumption DEF TableType, Slots
<1>2. /\ AddAll(t).fds = [t.fds EXCEPT ![t.n] = Fd, ![t.n + 1] = Fd]
      /\ AddAll(t).ws = [t.ws EXCEPT ![t.n] = Writable, ![t.n + 1] = Readable]
  BY AddAllAt
<1>3. \A i \in Slots : i < t.n => i # t.n /\ i # t.n + 1
  BY <1>1 DEF Slots
<1>4. /\ AddAll(t).fds[t.n] = Fd /\ AddAll(t).ws[t.n] = Writable
      /\ AddAll(t).fds[t.n + 1] = Fd /\ AddAll(t).ws[t.n + 1] = Readable
  BY <1>1, <1>2 DEF TableType
<1>5. Blank(AddAll(t), t.n)
  BY <1>2, <1>3 DEF Blank, TableType
<1> QED
  BY <1>1, <1>4, <1>5 DEF Pair

(* The search meets an older pair before a newer one.                      *)
LEMMA RemovePair ==
  ASSUME NEW t \in TableType, NEW n \in Nat, n <= t.n, Pair(t, n)
  PROVE  /\ RemoveAll(t) \in TableType
         /\ RemoveAll(t).fds = [t.fds EXCEPT ![n - 2] = 0, ![n - 1] = 0]
         /\ RemoveAll(t).ws = [t.ws EXCEPT ![n - 2] = NULL, ![n - 1] = NULL]
         /\ RemoveAll(t).n = t.n
         /\ \A i \in RemoveAll(t).seen : i \in t.seen \/ i < n
<1> DEFINE u == remove_watch(t, Writable)
<1>1. n >= 2 /\ n - 2 \in Slots /\ n - 1 \in Slots /\ n - 2 < t.n /\ n - 1 < t.n /\ n - 2 # n - 1
  BY PollAssumption, ConnectionAssumption DEF Pair, TableType, Slots
<1>2. \A i \in Slots : i < n - 2 => t.ws[i] # Writable /\ t.ws[i] # Readable
  BY Distinct DEF Pair, Blank
<1>3. /\ u \in TableType /\ u.n = t.n /\ u.seen = t.seen \cup 0 .. (n - 2)
      /\ u.fds = [t.fds EXCEPT ![n - 2] = 0] /\ u.ws = [t.ws EXCEPT ![n - 2] = NULL]
  BY <1>1, <1>2, RemoveAt, Distinct DEF Pair
<1> HIDE DEF u
<1>4. u.ws[n - 1] = Readable
  BY <1>1, <1>3 DEF Pair, TableType
<1>5. \A i \in Slots : i < n - 1 => u.ws[i] # Readable
  <2> SUFFICES ASSUME NEW i \in Slots, i < n - 1 PROVE u.ws[i] # Readable
    OBVIOUS
  <2>1. i < n - 2 \/ i = n - 2
    BY <1>1 DEF Slots
  <2>2. CASE i = n - 2
    BY <2>2, <1>3, Distinct DEF TableType
  <2>3. CASE i < n - 2 /\ i # n - 2
    BY <2>3, <1>2, <1>3 DEF TableType
  <2> QED
    BY <2>1, <2>2, <2>3
<1>6. /\ remove_watch(u, Readable) \in TableType
      /\ remove_watch(u, Readable).fds = [u.fds EXCEPT ![n - 1] = 0]
      /\ remove_watch(u, Readable).ws = [u.ws EXCEPT ![n - 1] = NULL]
      /\ remove_watch(u, Readable).n = u.n
      /\ remove_watch(u, Readable).seen = u.seen \cup 0 .. (n - 1)
  BY <1>1, <1>3, <1>4, <1>5, RemoveAt, Distinct
<1>7. RemoveAll(t) = remove_watch(u, Readable)
  BY DEF RemoveAll, u
<1>8. \A i \in RemoveAll(t).seen : i \in t.seen \/ i < n
  <2>1. RemoveAll(t).seen = (t.seen \cup 0 .. (n - 2)) \cup 0 .. (n - 1)
    BY <1>3, <1>6, <1>7
  <2> QED
    BY <2>1
<1> QED
  BY <1>3, <1>6, <1>7, <1>8

LEMMA RemoveBlank ==
  ASSUME NEW t \in TableType, Pair(t, t.n)
  PROVE  Blank(RemoveAll(t), t.n)
<1>1. t.n \in Nat /\ t.n <= t.n
  BY DEF TableType
<1>2. /\ RemoveAll(t).fds = [t.fds EXCEPT ![t.n - 2] = 0, ![t.n - 1] = 0]
      /\ RemoveAll(t).ws = [t.ws EXCEPT ![t.n - 2] = NULL, ![t.n - 1] = NULL]
  BY <1>1, RemovePair
<1> SUFFICES ASSUME NEW i \in Slots, i < t.n
             PROVE  RemoveAll(t).fds[i] = 0 /\ RemoveAll(t).ws[i] = NULL
  BY DEF Blank
<1>3. i < t.n - 2 \/ i = t.n - 2 \/ i = t.n - 1
  BY <1>1 DEF Slots
<1> QED
  BY <1>2, <1>3 DEF Pair, Blank, TableType

(* The same dispatcher once more: the older pair goes.                     *)
LEMMA AddAndRemove ==
  ASSUME NEW t \in TableType, t.n + 2 <= MAX_WATCHES, Pair(t, t.n)
  PROVE  LET u == RemoveAll(AddAll(t))
         IN  /\ u \in TableType /\ u.n = t.n + 2 /\ Pair(u, t.n + 2)
             /\ \A i \in u.seen : i \in t.seen \/ i < t.n
<1> DEFINE a == AddAll(t)  u == RemoveAll(a)
<1>1. t.n \in Nat /\ t.n >= 2 /\ t.n \in Slots /\ t.n + 1 \in Slots
  BY PollAssumption, ConnectionAssumption DEF TableType, Slots, Pair
<1>2. /\ a \in TableType /\ a.n = t.n + 2 /\ a.seen = t.seen
      /\ a.fds = [t.fds EXCEPT ![t.n] = Fd, ![t.n + 1] = Fd]
      /\ a.ws = [t.ws EXCEPT ![t.n] = Writable, ![t.n + 1] = Readable]
  BY AddAllAt
<1> HIDE DEF a
<1>3. \A i \in Slots : i < t.n => a.fds[i] = t.fds[i] /\ a.ws[i] = t.ws[i]
  <2> SUFFICES ASSUME NEW i \in Slots, i < t.n PROVE a.fds[i] = t.fds[i] /\ a.ws[i] = t.ws[i]
    OBVIOUS
  <2>1. i # t.n /\ i # t.n + 1
    BY <1>1 DEF Slots
  <2> QED
    BY <1>2, <2>1 DEF TableType
<1>4. Pair(a, t.n)
  <2>1. t.n - 2 \in Slots /\ t.n - 1 \in Slots /\ t.n - 2 < t.n /\ t.n - 1 < t.n
        /\ \A i \in Slots : i < t.n - 2 => i < t.n
    BY <1>1, PollAssumption, ConnectionAssumption DEF Slots
  <2> QED
    BY <1>3, <2>1 DEF Pair, Blank
<1>5. t.n <= a.n
  BY <1>1, <1>2
<1>6. /\ u \in TableType /\ u.n = a.n
      /\ u.fds = [a.fds EXCEPT ![t.n - 2] = 0, ![t.n - 1] = 0]
      /\ u.ws = [a.ws EXCEPT ![t.n - 2] = NULL, ![t.n - 1] = NULL]
      /\ \A i \in u.seen : i \in a.seen \/ i < t.n
  BY <1>1, <1>2, <1>4, <1>5, RemovePair
<1> HIDE DEF u
<1>7. /\ u.fds[t.n] = Fd /\ u.ws[t.n] = Writable
      /\ u.fds[t.n + 1] = Fd /\ u.ws[t.n + 1] = Readable
  <2>1. /\ t.n # t.n - 2 /\ t.n # t.n - 1 /\ t.n + 1 # t.n - 2 /\ t.n + 1 # t.n - 1
        /\ t.n # t.n + 1
    BY <1>1
  <2>2. /\ a.fds[t.n] = Fd /\ a.ws[t.n] = Writable
        /\ a.fds[t.n + 1] = Fd /\ a.ws[t.n + 1] = Readable
    BY <1>1, <1>2, <2>1 DEF TableType
  <2> QED
    BY <1>1, <1>2, <1>6, <2>1, <2>2 DEF TableType
<1>8. Blank(u, t.n)
  <2> SUFFICES ASSUME NEW i \in Slots, i < t.n PROVE u.fds[i] = 0 /\ u.ws[i] = NULL
    BY DEF Blank
  <2>1. i < t.n - 2 \/ i = t.n - 2 \/ i = t.n - 1
    BY <1>1 DEF Slots
  <2> QED
    BY <1>2, <1>4, <1>6, <2>1 DEF Pair, Blank, TableType
<1>9. Pair(u, t.n + 2)
  <2>1. (t.n + 2) - 2 = t.n /\ (t.n + 2) - 1 = t.n + 1 /\ t.n + 2 >= 2
    BY <1>1
  <2> QED
    BY <1>7, <1>8, <2>1 DEF Pair
<1> QED
  BY <1>2, <1>6, <1>9 DEF u, a

-----------------------------------------------------------------------------
(* The tables through any sequence of callbacks                            *)

LEMMA NewTable ==
  ASSUME NEW t \in TableType, SetTable(t), registered' \in 0 .. MaxRegistrations,
         current' \in {"none", "this", "other"}, t.n = 2 * registered',
         IF current' = "this" /\ freed' = {} THEN Pair(t, t.n) ELSE Blank(t, t.n),
         \A i \in t.seen : i < t.n
  PROVE  SlotsOK'
<1>1. pollfds' = t.fds /\ watches' = t.ws /\ max_i' = t.n /\ lookups' = t.seen
  BY DEF SetTable
<1>2. Table' \in TableType /\ Table'.fds = t.fds /\ Table'.ws = t.ws
  BY <1>1 DEF Table, TableType
<1>3. Pair(t, t.n) => Pair(Table', max_i')
  BY <1>1, <1>2 DEF Pair, Blank
<1>4. Blank(t, t.n) => Blank(Table', max_i')
  BY <1>1, <1>2 DEF Blank
<1>5. lookups' \in SUBSET (0 .. MAX_WATCHES) /\ \A i \in lookups' : i < max_i'
  BY <1>1 DEF TableType
<1> QED
  BY <1>1, <1>2, <1>3, <1>4, <1>5 DEF SlotsOK, Pair, Blank

LEMMA TableNow ==
  ASSUME SlotsOK
  PROVE  Table \in TableType /\ Table.n = max_i /\ Table.seen = {}
BY DEF SlotsOK, Table

LEMMA Registers ==
  ASSUME SlotsOK, NEW d \in {"this", "other"}, set_dispatcher(d), UNCHANGED freed
  PROVE  SlotsOK'
<1>1. /\ Table \in TableType /\ Table.n = max_i /\ Table.seen = {}
      /\ freed = {} /\ freed' = {} /\ current' = d
      /\ d = "this" => registered < MaxRegistrations
      /\ registered' = IF d = "this" THEN registered + 1 ELSE registered
  BY TableNow DEF set_dispatcher
<1>2. registered \in Nat /\ max_i = 2 * registered /\ registered <= MaxRegistrations
      /\ MaxRegistrations \in Nat /\ MAX_WATCHES \in Nat /\ 2 * MaxRegistrations <= MAX_WATCHES
  BY PollAssumption, ConnectionAssumption DEF SlotsOK
<1>3. IF current = "this" THEN Pair(Table, max_i) ELSE Blank(Table, max_i)
  BY <1>1 DEF SlotsOK
<1>4. registered' \in 0 .. MaxRegistrations /\ max_i \in Nat
      /\ (d = "this" => Table.n + 2 <= MAX_WATCHES /\ max_i + 2 = 2 * registered')
      /\ (d = "other" => max_i = 2 * registered')
  BY <1>1, <1>2
<1>5. CASE d = "this" /\ current # "this" /\ SetTable(AddAll(Table))
  <2>1. /\ AddAll(Table) \in TableType /\ AddAll(Table).n = max_i + 2 /\ AddAll(Table).seen = {}
        /\ Pair(AddAll(Table), max_i + 2)
    BY <1>1, <1>3, <1>4, <1>5, AddAllAt, AddBlank
  <2> QED
    BY <1>1, <1>4, <1>5, <2>1, NewTable
<1>6. CASE d = "this" /\ current = "this" /\ SetTable(RemoveAll(AddAll(Table)))
  <2> DEFINE u == RemoveAll(AddAll(Table))
  <2>1. /\ u \in TableType /\ u.n = max_i + 2 /\ Pair(u, max_i + 2)
        /\ \A i \in u.seen : i < max_i
    BY <1>1, <1>3, <1>4, <1>6, AddAndRemove
  <2>2. \A i \in u.seen : i < max_i + 2
    BY <1>4, <2>1 DEF TableType
  <2>3. SetTable(u)
    BY <1>6
  <2> HIDE DEF u
  <2> QED
    BY <1>1, <1>4, <1>6, <2>1, <2>2, <2>3, NewTable
<1>7. CASE d = "other" /\ current = "this" /\ SetTable(RemoveAll(Table))
  <2> DEFINE u == RemoveAll(Table)
  <2>1. Pair(Table, Table.n) /\ Table.n \in Nat /\ Table.n <= Table.n
    BY <1>1, <1>3, <1>4, <1>7
  <2>2. /\ u \in TableType /\ u.n = max_i /\ \A i \in u.seen : i < max_i
    BY <1>1, <2>1, RemovePair
  <2>3. Blank(u, max_i)
    BY <1>1, <2>1, RemoveBlank
  <2>4. SetTable(u)
    BY <1>7
  <2> HIDE DEF u
  <2> QED
    BY <1>1, <1>4, <1>7, <2>2, <2>3, <2>4, NewTable
<1> QED
  BY <1>5, <1>6, <1>7 DEF set_dispatcher

LEMMA Disconnects ==
  ASSUME SlotsOK, Disconnect, UNCHANGED <<current, registered>>
  PROVE  SlotsOK'
<1>1. /\ Table \in TableType /\ Table.n = max_i /\ Table.seen = {}
      /\ freed = {} /\ freed' = Watches /\ freed' # {}
  BY TableNow, Distinct DEF Disconnect
<1>2. CASE current = "this" /\ SetTable(RemoveAll(Table))
  <2> DEFINE u == RemoveAll(Table)
  <2>1. Pair(Table, Table.n) /\ Table.n \in Nat /\ Table.n <= Table.n
    BY <1>1, <1>2 DEF SlotsOK, TableType
  <2>2. /\ u \in TableType /\ u.n = max_i /\ \A i \in u.seen : i < max_i
    BY <1>1, <2>1, RemovePair
  <2>3. Blank(u, max_i)
    BY <1>1, <2>1, RemoveBlank
  <2>4. SetTable(u)
    BY <1>2
  <2>5. current' = "this" /\ registered' = registered /\ max_i = 2 * registered
        /\ registered \in 0 .. MaxRegistrations
    BY <1>2 DEF SlotsOK
  <2> HIDE DEF u
  <2> QED
    BY <1>1, <2>2, <2>3, <2>4, <2>5, NewTable
<1>3. CASE current # "this" /\ UNCHANGED <<slots, lookups>>
  BY <1>1, <1>3 DEF SlotsOK, slots, Table, Pair, Blank
<1> QED
  BY <1>2, <1>3 DEF Disconnect

LEMMA NextSlots == IInv /\ [Next]_vars => SlotsOK'
<1> SUFFICES ASSUME IInv, [Next]_vars PROVE SlotsOK'
  OBVIOUS
<1> SlotsOK
  BY DEF IInv
<1>1. ASSUME UNCHANGED <<slots, current, registered, lookups, freed>> PROVE SlotsOK'
  BY <1>1 DEF SlotsOK, slots, Table, Pair, Blank
<1>2. CASE SetUp
  BY <1>2, Registers DEF SetUp
<1>3. CASE LoseConnection
  BY <1>3, Disconnects DEF LoseConnection
<1>4. CASE Handle
  <2>1. PICK w : HandleWatch(w)
    BY <1>4 DEF Handle
  <2>2. UNCHANGED <<current, registered>>
    BY <1>4 DEF Handle
  <2>3. CASE Disconnect
    BY <2>2, <2>3, Disconnects
  <2>4. CASE ~Disconnect
    BY <1>1, <2>1, <2>2, <2>4 DEF HandleWatch, ReadSocket, bus
  <2> QED
    BY <2>3, <2>4
<1>5. CASE DispatchOne
  <2>1. UNCHANGED freed
    BY <1>5 DEF DispatchOne, TakeMessage
  <2>2. CASE \E d \in {"this", "other"} : set_dispatcher(d)
    BY <2>1, <2>2, Registers
  <2>3. CASE UNCHANGED <<slots, current, history>>
    BY <1>1, <2>1, <2>3 DEF history
  <2> QED
    BY <1>5, <2>2, <2>3 DEF DispatchOne, TakeMessage
<1>6. CASE BlockingCall \/ EnterRun \/ PollFails \/ Poll \/ DispatchDone \/ PeerSends \/ PeerCloses
  BY <1>1, <1>6
  DEF BlockingCall, EnterRun, PollFails, Poll, DispatchDone, PeerSends, PeerCloses, history, ReadSocket, Sends, Closes
<1>7. CASE UNCHANGED vars
  BY <1>1, <1>7 DEF vars, history
<1> QED
  BY <1>2, <1>3, <1>4, <1>5, <1>6, <1>7 DEF Next, Loop

-----------------------------------------------------------------------------
(* Messages and phases                                                     *)

LEMMA NextBus == IInv /\ [Next]_vars => BusOK'
<1> SUFFICES ASSUME IInv, [Next]_vars PROVE BusOK'
  OBVIOUS
<1> /\ sock \in Nat /\ queue \in Nat /\ sent \in Nat /\ MaxMessages \in Nat
    /\ sent <= MaxMessages /\ sock + queue <= sent
  BY PollAssumption, ConnectionAssumption DEF IInv, BusOK
<1>1. ASSUME UNCHANGED <<sock, queue, sent>> PROVE BusOK'
  BY <1>1 DEF BusOK
<1>2. ASSUME queue' = queue + sock, sock' = 0, UNCHANGED sent PROVE BusOK'
  BY <1>2 DEF BusOK
<1>3. CASE DispatchOne
  <2>1. queue > 0 /\ queue' = queue - 1 /\ UNCHANGED <<sock, sent>>
    BY <1>3 DEF DispatchOne, TakeMessage
  <2> QED
    BY <2>1 DEF BusOK
<1>4. CASE PeerSends
  <2>1. sent < MaxMessages /\ sent' = sent + 1 /\ sock' = sock + 1 /\ UNCHANGED queue
    BY <1>4 DEF PeerSends, Sends
  <2> QED
    BY <2>1 DEF BusOK
<1>5. CASE Handle
  <2>1. PICK w : HandleWatch(w)
    BY <1>5 DEF Handle
  <2> QED
    BY <1>1, <1>2, <2>1 DEF HandleWatch, ReadSocket, bus
<1>6. CASE BlockingCall
  BY <1>2, <1>6 DEF BlockingCall, ReadSocket
<1> QED
  BY <1>1, <1>3, <1>4, <1>5, <1>6
  DEF Next, Loop, SetUp, LoseConnection, EnterRun, PollFails, Poll, DispatchDone, PeerCloses, bus, vars, Closes

LEMMA NextPhase == IInv /\ [Next]_vars => PhaseOK'
<1> SUFFICES ASSUME IInv, [Next]_vars PROVE PhaseOK'
  OBVIOUS
<1> PhaseOK
  BY DEF IInv
<1>1. ASSUME UNCHANGED <<pc, snapshot, enabled, freed, hangup, handled, queue>> PROVE PhaseOK'
  BY <1>1 DEF PhaseOK
<1>2. CASE SetUp
  BY <1>1, <1>2 DEF SetUp, set_dispatcher, bus
<1>3. CASE BlockingCall
  BY <1>3 DEF BlockingCall, PhaseOK, history, ReadSocket
<1>4. CASE LoseConnection
  BY <1>4 DEF LoseConnection, Disconnect, PhaseOK, bus
<1>5. CASE EnterRun \/ PollFails
  BY <1>5 DEF EnterRun, PollFails, PhaseOK, bus, history
<1>6. CASE Poll
  <2>1. snapshot' \subseteq {<<i, watches[i]>> : i \in Polled}
    BY <1>6 DEF Poll
  <2>2. \A i \in Polled : i \in Slots /\ watches[i] \in Watches
    BY DEF Polled, PhaseOK
  <2>3. snapshot' \in SUBSET (Slots \X Watches)
    BY <2>1, <2>2
  <2>4. /\ pc = "poll" /\ pc' = "handle"
        /\ UNCHANGED <<enabled, freed, hangup, handled, queue>>
    BY <1>6 DEF Poll, bus, history
  <2> QED
    BY <2>3, <2>4 DEF PhaseOK
<1>7. CASE Handle
  <2>1. PICK e \in snapshot : snapshot' = snapshot \ {e} /\ HandleWatch(e[2])
    BY <1>7 DEF Handle
  <2>2. pc' = "dispatch" /\ handled' = TRUE /\ hangup' = hangup
    BY <1>7, <2>1 DEF Handle, HandleWatch, ReadSocket, bus
  <2>3. enabled' \in SUBSET Watches /\ freed' \in {{}, Watches}
    BY <2>1 DEF HandleWatch, Disconnect, PhaseOK, ReadSocket, bus
  <2> QED
    BY <2>1, <2>2, <2>3 DEF PhaseOK
<1>8. CASE DispatchOne
  <2>1. pc = "dispatch" /\ UNCHANGED <<pc, snapshot, freed, hangup>>
    BY <1>8 DEF DispatchOne, TakeMessage
  <2>2. enabled' \in SUBSET Watches /\ handled' = handled
    BY <1>8, Distinct DEF DispatchOne, set_dispatcher, history, PhaseOK, TakeMessage
  <2> QED
    BY <2>1, <2>2 DEF PhaseOK
<1>9. CASE DispatchDone
  BY <1>9 DEF DispatchDone, PhaseOK, bus, history
<1>10. CASE PeerSends
  <2>1. UNCHANGED <<pc, snapshot, enabled, freed, hangup, handled, queue>>
    BY <1>10 DEF PeerSends, history, Sends
  <2> QED
    BY <1>1, <2>1
<1>12. CASE PeerCloses
  <2>1. hangup' = TRUE /\ UNCHANGED <<pc, snapshot, enabled, freed, handled, queue>>
    BY <1>12 DEF PeerCloses, bus, history, Closes
  <2> QED
    BY <2>1 DEF PhaseOK
<1>11. CASE UNCHANGED vars
  BY <1>1, <1>11 DEF vars, bus, history
<1> QED
  BY <1>2, <1>3, <1>4, <1>5, <1>6, <1>7, <1>8, <1>9, <1>10, <1>11, <1>12 DEF Next, Loop

LEMMA InitIInv == Init => IInv
<1> SUFFICES ASSUME Init PROVE IInv
  OBVIOUS
<1>1. SlotsOK
  <2>1. /\ pollfds = [i \in Slots |-> 0] /\ watches \in [Slots -> Junk] /\ max_i = 0
        /\ current = "none" /\ registered = 0 /\ lookups = {}
    BY DEF Init, BusInit
  <2>2. pollfds \in [Slots -> {0, Fd}] /\ watches \in [Slots -> Watches \cup {NULL}]
    BY <2>1, PollAssumption, ConnectionAssumption
  <2>3. Table \in TableType
    BY <2>1, <2>2, PollAssumption, ConnectionAssumption DEF Table, TableType
  <2>4. Blank(Table, max_i)
    BY <2>1, PollAssumption, ConnectionAssumption DEF Blank, Slots
  <2>5. 0 \in 0 .. MaxRegistrations /\ max_i = 2 * registered
    BY <2>1, PollAssumption, ConnectionAssumption
  <2> QED
    BY <2>1, <2>3, <2>4, <2>5 DEF SlotsOK
<1>2. BusOK
  <2>1. sock = 0 /\ queue = 0 /\ sent = 0
    BY DEF Init, BusInit
  <2> QED
    BY <2>1, PollAssumption, ConnectionAssumption DEF BusOK
<1>3. PhaseOK
  BY Distinct DEF Init, PhaseOK, BusInit
<1> QED
  BY <1>1, <1>2, <1>3 DEF IInv

(* Through any sequence of registrations, events and disconnections.       *)
THEOREM Inductive == Spec => []IInv
<1>1. IInv /\ [Next]_vars => IInv'
  BY NextSlots, NextBus, NextPhase DEF IInv
<1> QED
  BY <1>1, InitIInv, PTL DEF Spec

-----------------------------------------------------------------------------
LEMMA PairHolders ==
  ASSUME SlotsOK, Pair(Table, max_i)
  PROVE  /\ Holders(Writable) = {max_i - 2} /\ Holders(Readable) = {max_i - 1}
         /\ max_i - 2 \in Slots /\ max_i - 1 \in Slots
         /\ pollfds[max_i - 2] = Fd /\ pollfds[max_i - 1] = Fd
         /\ \A i \in Slots : i < max_i - 2 => pollfds[i] = 0 /\ watches[i] = NULL
         /\ watches[max_i - 2] = Writable /\ watches[max_i - 1] = Readable
<1>1. max_i \in Nat /\ max_i >= 2 /\ max_i <= MAX_WATCHES
  BY PollAssumption, ConnectionAssumption DEF SlotsOK, TableType, Table, Pair
<1>2. max_i - 2 \in Slots /\ max_i - 1 \in Slots
  BY <1>1, PollAssumption, ConnectionAssumption DEF Slots
<1>3. /\ pollfds[max_i - 2] = Fd /\ pollfds[max_i - 1] = Fd
      /\ watches[max_i - 2] = Writable /\ watches[max_i - 1] = Readable
  BY DEF Pair, Table
<1>4. \A i \in Slots : i < max_i - 2 => pollfds[i] = 0 /\ watches[i] = NULL
  BY DEF Pair, Blank, Table
<1>5. \A i \in Slots : i < max_i => i < max_i - 2 \/ i = max_i - 2 \/ i = max_i - 1
  BY <1>1 DEF Slots
<1>6. max_i - 2 < max_i /\ max_i - 1 < max_i
  BY <1>1
<1>7. Holders(Writable) = {max_i - 2}
  BY <1>2, <1>3, <1>4, <1>5, <1>6, Distinct DEF Holders
<1>8. Holders(Readable) = {max_i - 1}
  BY <1>2, <1>3, <1>4, <1>5, <1>6, Distinct DEF Holders
<1> QED
  BY <1>2, <1>3, <1>4, <1>7, <1>8

(* While libdbus reports to this dispatcher each watch has its slot and is *)
(* polled when enabled, the search never leaves the used slots, and every  *)
(* registration takes two new ones.                                        *)
THEOREM TablesStayRight == Spec => []TablesRight
<1>1. IInv => TablesRight
  <2> SUFFICES ASSUME IInv PROVE TablesRight
    OBVIOUS
  <2> SlotsOK /\ BusOK /\ PhaseOK
    BY DEF IInv
  <2>0. Table \in TableType /\ max_i \in 0 .. MAX_WATCHES
    BY DEF SlotsOK, TableType, Table
  <2>1. TypeOK
    <3>1. pollfds \in [Slots -> {0, Fd}] /\ watches \in [Slots -> Watches \cup {NULL}]
      BY <2>0 DEF TableType, Table
    <3>2. sock \in 0 .. MaxMessages /\ queue \in 0 .. MaxMessages /\ sent \in 0 .. MaxMessages
      BY PollAssumption, ConnectionAssumption DEF BusOK
    <3>3. freed \in SUBSET Watches
      BY DEF PhaseOK
    <3> QED
      BY <2>0, <3>1, <3>2, <3>3 DEF TypeOK, SlotsOK, PhaseOK, BusType
  <2>2. CASE current = "this" /\ freed = {}
    <3>1. Pair(Table, max_i)
      BY <2>2 DEF SlotsOK
    <3>2. OneSlotPerWatch
      <4>1. \A w \in Watches : \E i : Holders(w) = {i} /\ pollfds[i] = Fd
        BY <3>1, PairHolders DEF Watches
      <4> QED
        BY <2>2, <4>1, FS_Singleton DEF OneSlotPerWatch
    <3>3. {watches[i] : i \in Polled} = enabled
      <4>1. Fd # 0 /\ max_i \in Nat /\ enabled \in SUBSET {Readable, Writable}
        BY <2>0, PollAssumption, ConnectionAssumption DEF PhaseOK, Watches
      <4>2. \A w \in enabled : \E i \in Polled : watches[i] = w
        BY <3>1, <4>1, PairHolders DEF Polled
      <4>3. \A i \in Polled : watches[i] \in enabled
        BY DEF Polled
      <4> QED
        BY <4>2, <4>3
    <3> QED
      BY <2>1, <2>2, <3>2, <3>3
      DEF TablesRight, PolledWhenEnabled, SearchStaysInside, SlotsNeverReused, SlotsOK
  <2>3. CASE ~(current = "this" /\ freed = {})
    <3>1. Blank(Table, max_i)
      BY <2>3 DEF SlotsOK
    <3>2. \A i \in Slots : i < max_i => pollfds[i] = 0 /\ watches[i] = NULL
      BY <3>1 DEF Blank, Table
    <3>3. \A w \in Watches : Holders(w) = {}
      BY <3>2, PollAssumption, ConnectionAssumption DEF Holders
    <3>4. OneSlotPerWatch
      BY <2>3, <3>3, FS_EmptySet DEF OneSlotPerWatch
    <3>5. {watches[i] : i \in Polled} = {}
      BY <3>2 DEF Polled
    <3>6. pc = "poll" => current # "this"
      BY <2>3 DEF PhaseOK
    <3> QED
      BY <2>1, <3>4, <3>5, <3>6
      DEF TablesRight, PolledWhenEnabled, SearchStaysInside, SlotsNeverReused, SlotsOK
  <2> QED
    BY <2>2, <2>3
<1> QED
  BY <1>1, Inductive, PTL

(* No watch is handled after libdbus has freed it.                         *)
THEOREM FreedWatchesUntouched == Spec => []NoFreedWatch
<1>1. IInv => NoFreedWatch
  BY DEF IInv, PhaseOK, NoFreedWatch
<1> QED
  BY <1>1, Inductive, PTL

(* No message read from the socket waits for the next event.               *)
THEOREM WakeupsNeverLost == Spec => []NoLostWakeup
<1>1. IInv => NoLostWakeup
  BY DEF IInv, PhaseOK, NoLostWakeup
<1> QED
  BY <1>1, Inductive, PTL

-----------------------------------------------------------------------------
(***************************************************************************)
(* boost_dispatcher, for any number of messages. WaitsOnce is not          *)
(* inductive: that the wait for input is exact while ios.run() waits needs *)
(* to know what main() and the handlers leave behind (Steady), and that is *)
(* so only because every later change of a watch ends the process.         *)
(***************************************************************************)
(* Until the process fails, the readable watch is the only enabled one and *)
(* the only one that knows the descriptor, and it is waited for once,      *)
(* except while its own handler runs or before the dispatcher is installed.*)
Steady ==
  phase # "failed" =>
    /\ enabled = {Readable}
    /\ descriptor = installed
    /\ data = IF installed THEN {Readable} ELSE {}
    /\ armed[Writable] = 0
    /\ armed[Readable] = IF installed /\ phase # "dispatch" THEN 1 ELSE 0
    /\ phase # "main" => installed
    /\ phase = "dispatch" => serving = Readable

(* The types, by what they are of; no message is counted twice.            *)
BoostBusOK ==
  /\ sock \in 0 .. MaxMessages /\ queue \in 0 .. MaxMessages /\ sent \in 0 .. MaxMessages
  /\ hangup \in BOOLEAN
  /\ sock + queue <= sent

WatchesOK ==
  /\ descriptor \in BOOLEAN /\ data \in SUBSET Watches
  /\ armed \in [Watches -> 0 .. 1]
  /\ enabled \in SUBSET Watches /\ installed \in BOOLEAN
  /\ phase \in {"main", "wait", "dispatch", "failed"}
  /\ serving \in Watches \cup {NULL}
  /\ why \in {"none", "resubscribe assert", "remove_watch assert", "bad delete"}
  /\ Steady

BoostIInv == BoostBusOK /\ WatchesOK

(* Starting and ending the wait for input.                                 *)
LEMMA WaitStarts ==
  ASSUME NEW f \in [Watches -> 0 .. 1], f[Readable] = 0, NEW g, g = [f EXCEPT ![Readable] = @ + 1]
  PROVE  g \in [Watches -> 0 .. 1] /\ g[Readable] = 1 /\ g[Writable] = f[Writable]
BY ConnectionAssumption DEF Watches

LEMMA WaitEnds ==
  ASSUME NEW f \in [Watches -> 0 .. 1], f[Readable] = 1, NEW g, g = [f EXCEPT ![Readable] = @ - 1]
  PROVE  g \in [Watches -> 0 .. 1] /\ g[Readable] = 0 /\ g[Writable] = f[Writable]
BY ConnectionAssumption DEF Watches

(* Messages move from the peer to the socket, the queue and the servants.  *)
LEMMA BoostNextBus == BoostBusOK /\ [BoostNext]_boostVars => BoostBusOK'
<1> USE ConnectionAssumption DEF BoostBusOK
<1> SUFFICES ASSUME BoostBusOK, [BoostNext]_boostVars PROVE BoostBusOK'
  OBVIOUS
<1>1. ASSUME UNCHANGED bus PROVE BoostBusOK'
  BY <1>1 DEF bus
<1>2. ASSUME queue' = queue + sock, sock' = 0, UNCHANGED <<sent, hangup>> PROVE BoostBusOK'
  BY <1>2
<1>3. CASE dispatch
  <2>1. queue > 0 /\ queue' = queue - 1 /\ UNCHANGED <<sock, sent, hangup>>
    BY <1>3 DEF dispatch, TakeMessage, state
  <2> QED
    BY <2>1
<1>4. CASE Sends
  <2>1. sent < MaxMessages /\ sent' = sent + 1 /\ sock' = sock + 1 /\ UNCHANGED <<queue, hangup>>
    BY <1>4 DEF Sends
  <2> QED
    BY <2>1
<1>5. CASE Closes
  <2>1. hangup' = TRUE /\ UNCHANGED <<sock, queue, sent>>
    BY <1>5 DEF Closes
  <2> QED
    BY <2>1
<1>6. CASE CallBlocks \/ handle_read
  BY <1>2, <1>6 DEF CallBlocks, handle_read, ReadSocket, state
<1> HIDE DEF BoostBusOK
<1> QED
  BY <1>1, <1>3, <1>4, <1>5, <1>6
  DEF BoostNext, Handlers, SetDispatcher, Run, handler_end, handle_disconnect, WatchToggled, PeerActs, boostVars, state

(* What can happen to the watches: the process fails; a wait for input     *)
(* starts where there was none; a wait ends; or nothing.                   *)
LEMMA WatchSteps ==
  ASSUME WatchesOK, [BoostNext]_boostVars
  PROVE  \/ \E r \in {"resubscribe assert", "remove_watch assert", "bad delete"} :
              /\ Fail(r)
              /\ installed' \in BOOLEAN /\ serving' \in Watches \cup {NULL}
              /\ enabled' \in SUBSET Watches
         \/ /\ phase = "main" /\ ~installed /\ armed[Readable] = 0
            /\ descriptor' = TRUE /\ data' = data \cup {Readable} /\ installed' = TRUE
            /\ armed' = [armed EXCEPT ![Readable] = @ + 1]
            /\ UNCHANGED <<phase, why, enabled, serving>>
         \/ /\ phase = "dispatch" /\ installed /\ armed[Readable] = 0
            /\ phase' = "wait" /\ serving' = NULL
            /\ armed' = [armed EXCEPT ![Readable] = @ + 1]
            /\ UNCHANGED <<descriptor, data, enabled, installed, why>>
         \/ /\ phase = "wait" /\ installed /\ armed[Readable] = 1
            /\ phase' = "dispatch" /\ serving' = Readable
            /\ armed' = [armed EXCEPT ![Readable] = @ - 1]
            /\ UNCHANGED <<descriptor, data, enabled, installed, why>>
         \/ /\ phase = "main" /\ installed /\ phase' = "wait"
            /\ UNCHANGED <<descriptor, data, armed, enabled, installed, serving, why>>
         \/ UNCHANGED <<descriptor, data, armed, enabled, installed, phase, serving, why>>
<1> USE ConnectionAssumption DEF WatchesOK
<1>0. Readable \in Watches /\ Writable \in Watches /\ Readable # Writable
  BY DEF Watches
<1> DEFINE Failing == \E r \in {"resubscribe assert", "remove_watch assert", "bad delete"} :
                        /\ Fail(r)
                        /\ installed' \in BOOLEAN /\ serving' \in Watches \cup {NULL}
                        /\ enabled' \in SUBSET Watches
<1>1. CASE SetDispatcher /\ installed
  <2>1. Fail("remove_watch assert") \/ Fail("bad delete")
    BY <1>1 DEF SetDispatcher, boost_remove_watch
  <2>2. installed' = TRUE /\ UNCHANGED <<enabled, serving>>
    BY <1>1 DEF SetDispatcher
  <2> QED
    BY <2>1, <2>2
<1>2. CASE SetDispatcher /\ ~installed
  <2>1. phase \in {"main", "dispatch"} /\ boost_add_watch(Readable) /\ installed' = TRUE
        /\ UNCHANGED <<enabled, serving>>
    BY <1>2 DEF SetDispatcher
  <2>2. phase = "main" /\ armed[Readable] = 0 /\ ~descriptor
    BY <1>2, <2>1 DEF Steady
  <2> QED
    BY <1>2, <2>1, <2>2 DEF boost_add_watch
<1>3. CASE handle_read
  BY <1>3 DEF handle_read, Complete, Steady, ReadSocket
<1>4. CASE handle_disconnect
  <2>1. Fail("remove_watch assert") \/ Fail("bad delete")
    BY <1>4 DEF handle_disconnect, boost_remove_watch
  <2>2. installed' = installed /\ enabled' = {} /\ serving' = Readable
    BY <1>4 DEF handle_disconnect
  <2> QED
    BY <1>0, <2>1, <2>2
<1>5. CASE handler_end
  <2>1. /\ phase = "dispatch" /\ resubscribe(serving) /\ serving' = NULL
        /\ UNCHANGED <<enabled, installed>>
    BY <1>5 DEF handler_end
  <2>2. serving = Readable /\ installed /\ armed[Readable] = 0 /\ Readable \in data
    BY <2>1 DEF Steady
  <2> QED
    BY <2>1, <2>2 DEF resubscribe
<1>6. CASE WatchToggled
  <2>1. /\ phase = "dispatch" /\ UNCHANGED <<installed, serving>>
        /\ \/ enabled' = enabled \cup {Writable} /\ boost_add_watch(Writable)
           \/ enabled' = enabled \ {Readable} /\ boost_remove_watch(Readable)
    BY <1>6 DEF WatchToggled
  <2>2. descriptor /\ data = {Readable}
    BY <2>1 DEF Steady
  <2>3. Writable \notin data
    BY <1>0, <2>2
  <2>4. enabled' \in SUBSET Watches
    BY <1>0, <2>1
  <2>5. \/ Fail("resubscribe assert") \/ Fail("remove_watch assert") \/ Fail("bad delete")
    BY <2>1, <2>2, <2>3 DEF boost_add_watch, boost_remove_watch
  <2> QED
    BY <2>1, <2>4, <2>5
<1>7. CASE Run
  BY <1>7 DEF Run
<1>8. CASE CallBlocks \/ dispatch \/ PeerActs \/ UNCHANGED boostVars
  BY <1>8 DEF CallBlocks, dispatch, PeerActs, boostVars, state
<1> QED
  BY <1>1, <1>2, <1>3, <1>4, <1>5, <1>6, <1>7, <1>8 DEF BoostNext, Handlers

(* Each of them keeps the wait exact.                                      *)
LEMMA NextWatches == WatchesOK /\ [BoostNext]_boostVars => WatchesOK'
<1> USE ConnectionAssumption DEF WatchesOK
<1> SUFFICES ASSUME WatchesOK, [BoostNext]_boostVars PROVE WatchesOK'
  OBVIOUS
<1>0. Readable \in Watches /\ Writable \in Watches /\ Readable # Writable
  BY DEF Watches
<1>1. ASSUME NEW r \in {"resubscribe assert", "remove_watch assert", "bad delete"}, Fail(r),
             installed' \in BOOLEAN, serving' \in Watches \cup {NULL}, enabled' \in SUBSET Watches
      PROVE WatchesOK'
  BY <1>1 DEF Fail, Steady
<1>2. ASSUME phase = "main", ~installed, armed[Readable] = 0, descriptor' = TRUE,
             data' = data \cup {Readable}, installed' = TRUE,
             armed' = [armed EXCEPT ![Readable] = @ + 1],
             UNCHANGED <<phase, why, enabled, serving>>
      PROVE WatchesOK'
  <2>1. /\ armed' \in [Watches -> 0 .. 1] /\ armed'[Readable] = 1
        /\ armed'[Writable] = armed[Writable]
    BY <1>2, WaitStarts, Zenon
  <2>2. data' = {Readable} /\ enabled' = {Readable} /\ armed'[Writable] = 0
    BY <1>2, <2>1 DEF Steady
  <2> QED
    BY <1>0, <1>2, <2>1, <2>2 DEF Steady
<1>3. ASSUME phase = "dispatch", installed, armed[Readable] = 0, phase' = "wait", serving' = NULL,
             armed' = [armed EXCEPT ![Readable] = @ + 1],
             UNCHANGED <<descriptor, data, enabled, installed, why>>
      PROVE WatchesOK'
  <2>1. /\ armed' \in [Watches -> 0 .. 1] /\ armed'[Readable] = 1
        /\ armed'[Writable] = armed[Writable]
    BY <1>3, WaitStarts, Zenon
  <2> QED
    BY <1>3, <2>1 DEF Steady
<1>4. ASSUME phase = "wait", installed, armed[Readable] = 1, phase' = "dispatch", serving' = Readable,
             armed' = [armed EXCEPT ![Readable] = @ - 1],
             UNCHANGED <<descriptor, data, enabled, installed, why>>
      PROVE WatchesOK'
  <2>1. /\ armed' \in [Watches -> 0 .. 1] /\ armed'[Readable] = 0
        /\ armed'[Writable] = armed[Writable]
    BY <1>4, WaitEnds, Zenon
  <2> QED
    BY <1>0, <1>4, <2>1 DEF Steady
<1>5. ASSUME phase = "main", installed, phase' = "wait",
             UNCHANGED <<descriptor, data, armed, enabled, installed, serving, why>>
      PROVE WatchesOK'
  BY <1>5 DEF Steady
<1>6. ASSUME UNCHANGED <<descriptor, data, armed, enabled, installed, phase, serving, why>>
      PROVE WatchesOK'
  BY <1>6 DEF Steady
<1> HIDE DEF WatchesOK
<1> QED
  BY <1>1, <1>2, <1>3, <1>4, <1>5, <1>6, WatchSteps

(* Before main() installs the dispatcher nothing waits.                    *)
THEOREM BoostInductive == BoostSpec => []BoostIInv
<1>1. BoostInit => BoostIInv
  <2> SUFFICES ASSUME BoostInit PROVE BoostBusOK /\ WatchesOK
    BY DEF BoostIInv
  <2>1. BoostBusOK
    <3>1. sock = 0 /\ queue = 0 /\ sent = 0 /\ hangup = FALSE
      BY DEF BoostInit, BusInit
    <3>2. 0 \in 0 .. MaxMessages /\ 0 + 0 <= 0
      BY ConnectionAssumption
    <3> QED
      BY <3>1, <3>2 DEF BoostBusOK
  <2>2. WatchesOK
    <3>1. /\ descriptor = FALSE /\ data = {} /\ enabled = {Readable} /\ installed = FALSE
          /\ phase = "main" /\ serving = NULL /\ why = "none"
      BY DEF BoostInit, BusInit
    <3>2. armed = [w \in Watches |-> 0]
      BY DEF BoostInit, BusInit
    <3>3. 0 \in 0 .. 1 /\ Readable \in Watches /\ Writable \in Watches
      BY DEF Watches
    <3>4. armed \in [Watches -> 0 .. 1] /\ armed[Readable] = 0 /\ armed[Writable] = 0
      BY <3>2, <3>3
    <3> QED
      BY <3>1, <3>3, <3>4 DEF WatchesOK, Steady
  <2> QED
    BY <2>1, <2>2
<1> QED
  BY <1>1, BoostNextBus, NextWatches, PTL DEF BoostSpec, BoostIInv

(* While ios.run() waits, it waits once for input and for nothing else, so *)
(* it neither runs out of work nor handles an event twice.                 *)
THEOREM WaitsAreRight == BoostSpec => []WaitsRight
<1>1. BoostIInv => WaitsRight
  <2> SUFFICES ASSUME BoostIInv PROVE WatchesTyped /\ WaitsOnce
    BY DEF WaitsRight
  <2>1. WatchesTyped
    BY DEF BoostIInv, BoostBusOK, WatchesOK, WatchesTyped, BusType
  <2>2. WaitsOnce
    <3>1. phase = "wait" => armed[Readable] = 1 /\ armed[Writable] = 0
      BY DEF BoostIInv, WatchesOK, Steady
    <3> QED
      BY <3>1 DEF BoostIInv, WatchesOK, WaitsOnce, Watches
  <2> QED
    BY <2>1, <2>2
<1> QED
  BY <1>1, BoostInductive, PTL

(* The process lives only while libdbus wants exactly its readable watch.  *)
THEOREM OnlyStaticWatchesSurvive == BoostSpec => []OnlyStaticWatches
<1>1. BoostIInv => OnlyStaticWatches
  BY DEF BoostIInv, WatchesOK, Steady, OnlyStaticWatches
<1> QED
  BY <1>1, BoostInductive, PTL

=============================================================================
