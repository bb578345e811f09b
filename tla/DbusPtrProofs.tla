--------------------------- MODULE DbusPtrProofs ---------------------------
(* Proofs about DbusPtr for any number of handles, messages and gets: the  *)
(* law of the counts is inductive; that messages are never freed early and *)
(* that only copies free the connection early follow from it.              *)
EXTENDS DbusPtr, FiniteSetTheorems, TLAPS

(* A message is copied at most as often as it is adopted.                  *)
FewCopies == \A m \in Messages : copied[m] <= adopted[m]

IInv == TypeOK /\ Accounting /\ FewCopies

(* Variables and members are for the connection, a message's handle for    *)
(* the message, and a message not yet made is nobody's.                    *)
Placed ==
  /\ \A h \in Variables \cup Users : handle[h] \in {Connection, NULL, None}
  /\ \A m \in Messages : /\ handle[m] \in {m, None}
                         /\ adopted[m] = 0 => handle[m] = None /\ lib[m] = 0
  /\ adopted[Connection] > 0 => lib[Connection] = 1

HeldIn(f, o) == {h \in Handles : f[h] = o}
Number(f, o) == Cardinality(HeldIn(f, o))
Is(p, o) == IF p = o THEN 1 ELSE 0
Pointers == Objects \cup {NULL, None}
Total(f) == f \in [Handles -> Pointers]
Put(f, h, b) == [f EXCEPT ![h] = b]

(* One handle has gone from p to q.                                        *)
Moves(p, q) ==
  /\ handle' \in [Handles -> Pointers]
  /\ \A o \in Objects : Number(handle', o) = Number(handle, o) + Is(q, o) - Is(p, o)

(* Handles are finitely many, so an object's can be counted.               *)
LEMMA HeldFinite ==
  ASSUME NEW f, NEW o
  PROVE  /\ IsFiniteSet(HeldIn(f, o))
         /\ Cardinality(HeldIn(f, o)) \in Nat
         /\ Cardinality(HeldIn(f, o)) = 0 <=> HeldIn(f, o) = {}
<1>1. HeldIn(f, o) \subseteq Handles
  BY DEF HeldIn
<1>2. IsFiniteSet(HeldIn(f, o))
  BY <1>1, PtrAssumption, FS_Subset
<1> QED BY <1>2, FS_CardinalityType, FS_EmptySet

(* When one handle goes from one object to another, the first loses it and *)
(* the second gains it.                                                    *)
LEMMA HandleMoves ==
  ASSUME NEW f, Total(f), NEW h \in Handles, NEW a, f[h] = a, NEW b, NEW o
  PROVE  Number(Put(f, h, b), o) = Number(f, o) + Is(b, o) - Is(a, o)
<1> USE DEF Total
<1> DEFINE g == [f EXCEPT ![h] = b]
           A == HeldIn(f, o)
           B == HeldIn(g, o)
<1>1. IsFiniteSet(A) /\ Cardinality(A) \in Int
  BY HeldFinite
<1>2. h \in A <=> f[h] = o
  BY DEF HeldIn
<1>3. b = o => Cardinality(B) = Cardinality(A \cup {h})
  <2>1. b = o => B = A \cup {h}
    BY DEF HeldIn
  <2> QED BY <2>1, Zenon
<1>4. b # o => Cardinality(B) = Cardinality(A \ {h})
  <2>1. b # o => B = A \ {h}
    BY DEF HeldIn
  <2> QED BY <2>1, Zenon
<1>5. Cardinality(A \cup {h}) = IF h \in A THEN Cardinality(A) ELSE Cardinality(A) + 1
  BY <1>1, FS_AddElement
<1>6. Cardinality(A \ {h}) = IF h \in A THEN Cardinality(A) - 1 ELSE Cardinality(A)
  BY <1>1, FS_RemoveElement
<1> HIDE DEF A, B
<1>7. Cardinality(B) = Cardinality(A) + (IF b = o THEN 1 ELSE 0) - (IF f[h] = o THEN 1 ELSE 0)
  <2>1. CASE b = o
    BY <1>1, <1>2, <1>3, <1>5, <2>1
  <2>2. CASE b # o
    BY <1>1, <1>2, <1>4, <1>6, <2>2
  <2> QED BY <2>1, <2>2
<1> QED BY <1>7 DEF A, B, Number, Is, Put

(* A handle on an object that is not dangling can be given back.           *)
LEMMA Counted ==
  ASSUME TypeOK, Alive, NEW o \in Objects, Held(o) # {} \/ lib[o] = 1
  PROVE  count[o] \in Nat /\ count[o] > 0
BY DEF TypeOK, Alive, Dangling

(* A step that takes refs, adopts and copies for one object, moves a       *)
(* handle and sets lib keeps the law if it keeps the balance.              *)
LEMMA Balance ==
  ASSUME IInv, NEW o \in Objects,
         NEW refs \in Int, NEW adopts \in Nat, NEW copies \in Nat,
         count[o] + refs >= 0,
         Counts(o, refs, adopts, copies),
         handle' \in [Handles -> Pointers],
         lib' \in [Objects -> 0 .. 1],
         named' \in BOOLEAN,
         \A q \in Objects \ {o} : lib'[q] = lib[q] /\ Number(handle', q) = Number(handle, q),
         refs + copies - adopts =
           (lib'[o] - lib[o]) + (Number(handle', o) - Number(handle, o)),
         o \in Messages => copied[o] + copies <= adopted[o] + adopts
  PROVE  IInv'
<1> USE DEF Counts
<1>0. TypeOK
  BY DEF IInv
<1>1. TypeOK'
  <2>1. /\ count[o] + refs \in Nat /\ adopted[o] + adopts \in Nat /\ copied[o] + copies \in Nat
    BY <1>0 DEF TypeOK
  <2>2. count' \in [Objects -> Nat] /\ adopted' \in [Objects -> Nat] /\ copied' \in [Objects -> Nat]
    BY <1>0, <2>1 DEF TypeOK
  <2> QED BY <2>2 DEF TypeOK, Pointers
<1>2. ASSUME NEW q \in Objects
      PROVE  count'[q] + copied'[q] = lib'[q] + Cardinality(Held(q)') + adopted'[q]
  <2> DEFINE new == Number(handle', q)
             old == Number(handle, q)
  <2>1. Cardinality(Held(q)') = new /\ Cardinality(Held(q)) = old
    BY DEF Held, HeldIn, Number
  <2>2. new \in Nat /\ old \in Nat
    BY HeldFinite DEF Number
  <2>3. count[q] + copied[q] = lib[q] + old + adopted[q]
    BY <2>1 DEF IInv, Accounting
  <2>4. /\ count[q] \in Nat /\ copied[q] \in Nat /\ adopted[q] \in Nat
        /\ lib[q] \in 0 .. 1 /\ lib'[q] \in 0 .. 1
    BY <1>0 DEF TypeOK
  <2> HIDE DEF new, old
  <2>5. CASE q = o
    <3>1. count'[q] = count[q] + refs /\ copied'[q] = copied[q] + copies /\ adopted'[q] = adopted[q] + adopts
      BY <1>0, <2>5 DEF TypeOK
    <3>2. refs + copies - adopts = (lib'[q] - lib[q]) + (new - old)
      BY <2>5 DEF new, old
    <3>3. (count[q] + refs) + (copied[q] + copies) = lib'[q] + new + (adopted[q] + adopts)
      <4> DEFINE c == count[q]
                 k == copied[q]
                 l == lib[q]
                 l2 == lib'[q]
                 a == adopted[q]
      <4>1. c \in Int /\ k \in Int /\ l \in Int /\ l2 \in Int /\ a \in Int /\ new \in Int /\ old \in Int
        BY <2>2, <2>4
      <4>2. c + k = l + old + a /\ refs + copies - adopts = (l2 - l) + (new - old)
        BY <2>3, <3>2
      <4> HIDE DEF c, k, l, l2, a
      <4>3. (c + refs) + (k + copies) = l2 + new + (a + adopts)
        BY <4>1, <4>2
      <4> QED BY <4>3 DEF c, k, l, l2, a
    <3> QED BY <2>1, <3>1, <3>3 DEF new
  <2>6. CASE q # o
    <3>1. count'[q] = count[q] /\ copied'[q] = copied[q] /\ adopted'[q] = adopted[q]
      BY <1>0, <2>6 DEF TypeOK
    <3>2. lib'[q] = lib[q] /\ new = old
      BY <2>6 DEF new, old
    <3>3. count'[q] + copied'[q] = lib'[q] + new + adopted'[q]
      BY <2>2, <2>3, <2>4, <3>1, <3>2
    <3> QED BY <2>1, <3>3 DEF new
  <2> QED BY <2>5, <2>6
<1>3. Accounting'
  BY <1>2 DEF Accounting
<1>4. FewCopies'
  BY DEF IInv, TypeOK, FewCopies, Objects
<1> QED BY <1>1, <1>3, <1>4 DEF IInv

(* The same with the balance under a name.                                 *)
Balanced(o, refs, adopts, copies) ==
  /\ refs \in Int /\ adopts \in Nat /\ copies \in Nat
  /\ count[o] + refs >= 0
  /\ handle' \in [Handles -> Pointers] /\ lib' \in [Objects -> 0 .. 1] /\ named' \in BOOLEAN
  /\ \A q \in Objects \ {o} : lib'[q] = lib[q] /\ Number(handle', q) = Number(handle, q)
  /\ refs + copies - adopts = (lib'[o] - lib[o]) + (Number(handle', o) - Number(handle, o))
  /\ o \in Messages => copied[o] + copies <= adopted[o] + adopts

LEMMA BalancedIInv ==
  ASSUME IInv, NEW o \in Objects, NEW refs, NEW adopts, NEW copies,
         Counts(o, refs, adopts, copies), Balanced(o, refs, adopts, copies)
  PROVE  IInv'
BY Balance DEF Balanced

(* A step that only moves handles keeps the law if nobody gains or loses.  *)
LEMMA OnlyMoves ==
  ASSUME IInv, UNCHANGED <<count, lib, adopted, copied, named>>,
         handle' \in [Handles -> Pointers],
         \A o \in Objects : Number(handle', o) = Number(handle, o)
  PROVE  IInv'
<1>1. TypeOK'
  BY DEF IInv, TypeOK, Pointers
<1>2. \A o \in Objects : /\ Cardinality(Held(o)') = Number(handle', o)
                         /\ Cardinality(Held(o)) = Number(handle, o)
  BY DEF Held, HeldIn, Number
<1>3. Accounting'
  BY <1>2 DEF IInv, Accounting
<1>4. FewCopies'
  BY DEF IInv, FewCopies
<1> QED BY <1>1, <1>3, <1>4 DEF IInv

(* What moving one handle does to every object's handles.                  *)
LEMMA Moved ==
  ASSUME TypeOK, NEW h \in Handles, NEW p, handle[h] = p, NEW q \in Pointers,
         handle' = [handle EXCEPT ![h] = q]
  PROVE  Moves(p, q)
<1>1. Total(handle)
  BY DEF TypeOK, Pointers, Total
<1>2. handle' \in [Handles -> Pointers] /\ handle' = Put(handle, h, q)
  BY <1>1 DEF Total, Put
<1>3. \A o \in Objects : Number(handle', o) = Number(handle, o) + Is(q, o) - Is(p, o)
  <2>1. \A o : Number(Put(handle, h, q), o) = Number(handle, o) + Is(q, o) - Is(p, o)
    BY <1>1, HandleMoves
  <2> QED BY <1>2, <2>1, Zenon
<1> QED BY <1>2, <1>3 DEF Moves

LEMMA Numbers == \A f, o : Number(f, o) \in Nat
BY HeldFinite DEF Number

LEMMA Distinct ==
  /\ Connection \in Objects /\ Connection \notin Messages
  /\ Messages \subseteq Objects /\ Messages \subseteq Handles
  /\ Variables \subseteq Handles /\ Users \subseteq Handles
  /\ \A o \in Objects : o # NULL /\ o # None /\ o \in Pointers
  /\ NULL \in Pointers /\ None \in Pointers /\ NULL # None
BY PtrAssumption DEF Objects, Handles, Pointers

LEMMA InitIInv == Init => IInv
<1> SUFFICES ASSUME Init PROVE IInv
  OBVIOUS
<1> USE DEF Init
<1>1. TypeOK
  BY DEF TypeOK
<1>2. ASSUME NEW o \in Objects PROVE Cardinality(Held(o)) = 0
  <2>1. HeldIn(handle, o) = {}
    BY Distinct DEF HeldIn
  <2>2. Cardinality(HeldIn(handle, o)) = 0
    BY <2>1, HeldFinite
  <2>3. Held(o) = HeldIn(handle, o)
    BY DEF Held, HeldIn
  <2> QED BY <2>2, <2>3
<1>3. Accounting
  BY <1>2 DEF Accounting
<1>4. FewCopies
  BY Distinct DEF FewCopies
<1> QED BY <1>1, <1>3, <1>4 DEF IInv

LEMMA create_connection_IInv ==
  ASSUME IInv, NEW v \in Variables, create_connection(v) PROVE IInv'
<1> DEFINE refs == 2 + (1 - lib[Connection])
<1>1. TypeOK /\ v \in Handles /\ handle[v] = None
  BY Distinct DEF IInv, create_connection
<1>2. lib[Connection] \in 0 .. 1 /\ count[Connection] \in Nat
  BY <1>1, Distinct DEF TypeOK
<1>3. /\ lib' \in [Objects -> 0 .. 1] /\ lib'[Connection] = 1
      /\ \A q \in Objects \ {Connection} : lib'[q] = lib[q]
  BY <1>1, Distinct DEF TypeOK, create_connection, Shared
<1>4. named' \in BOOLEAN
  BY <1>1 DEF TypeOK, create_connection
<1>5. Moves(None, Connection)
  BY <1>1, Moved, Distinct, Zenon DEF create_connection
<1>6. /\ Number(handle', Connection) - Number(handle, Connection) = 1
      /\ \A o \in Objects \ {Connection} : Number(handle', o) = Number(handle, o)
  BY <1>5, Numbers, Distinct DEF Is, Moves
<1>7. Counts(Connection, refs, 1, 0)
  BY DEF create_connection, Adopt, FromTable
<1>8. /\ refs \in Int /\ count[Connection] + refs >= 0
      /\ refs + 0 - 1 = (lib'[Connection] - lib[Connection]) + 1
  BY <1>2, <1>3
<1> HIDE DEF refs
<1> QED BY <1>3, <1>4, <1>5, <1>6, <1>7, <1>8, Balance, Distinct DEF Moves

LEMMA ConstructFromResult_IInv ==
  ASSUME IInv, NEW u \in Users, ConstructFromResult(u) PROVE IInv'
<1> DEFINE refs == (1 - lib[Connection]) + 1
<1>1. TypeOK /\ u \in Handles /\ handle[u] = None
  BY Distinct DEF IInv, ConstructFromResult
<1>2. lib[Connection] \in 0 .. 1 /\ count[Connection] \in Nat
  BY <1>1, Distinct DEF TypeOK
<1>3. /\ lib' \in [Objects -> 0 .. 1] /\ lib'[Connection] = 1
      /\ \A q \in Objects \ {Connection} : lib'[q] = lib[q]
  BY <1>1, Distinct DEF TypeOK, ConstructFromResult, Shared
<1>4. named' \in BOOLEAN
  BY <1>1 DEF TypeOK, ConstructFromResult
<1>5. Moves(None, Connection)
  BY <1>1, Moved, Distinct, Zenon DEF ConstructFromResult
<1>6. /\ Number(handle', Connection) - Number(handle, Connection) = 1
      /\ \A o \in Objects \ {Connection} : Number(handle', o) = Number(handle, o)
  BY <1>5, Numbers, Distinct DEF Is, Moves
<1>7. Counts(Connection, refs, 1, 1)
  BY DEF ConstructFromResult, FromTable
<1>8. /\ refs \in Int /\ count[Connection] + refs >= 0
      /\ refs + 1 - 1 = (lib'[Connection] - lib[Connection]) + 1
  BY <1>2, <1>3
<1> HIDE DEF refs
<1> QED BY <1>3, <1>4, <1>5, <1>6, <1>7, <1>8, Balance, Distinct DEF Moves

(* The copies of the argument give back one reference more than they take: *)
(* the variable still has one to give.                                     *)
LEMMA Construct_IInv ==
  ASSUME IInv, NEW u \in Users, NEW v \in Variables, Construct(u, v) PROVE IInv'
<1>1. TypeOK /\ u \in Handles /\ handle[u] = None
  BY Distinct DEF IInv, Construct
<1>2. count[Connection] \in Nat /\ count[Connection] > 0
  <2>1. v \in Held(Connection)
    BY Distinct DEF Held, Construct
  <2> QED BY <1>1, <2>1, Counted, Distinct DEF Construct
<1>3. lib' \in [Objects -> 0 .. 1] /\ lib' = lib /\ lib[Connection] \in 0 .. 1
  BY <1>1, Distinct DEF TypeOK, Construct
<1>4. named' \in BOOLEAN
  BY <1>1 DEF TypeOK, Construct
<1>5. Moves(None, Connection)
  BY <1>1, Moved, Distinct, Zenon DEF Construct
<1>6. /\ Number(handle', Connection) - Number(handle, Connection) = 1
      /\ \A o \in Objects \ {Connection} : Number(handle', o) = Number(handle, o)
  BY <1>5, Numbers, Distinct DEF Is, Moves
<1>7. Counts(Connection, -1, 0, 2)
  BY DEF Construct
<1>8. /\ count[Connection] + (-1) >= 0
      /\ -1 + 2 - 0 = (lib'[Connection] - lib[Connection]) + 1
  BY <1>2, <1>3
<1> QED BY <1>3, <1>4, <1>5, <1>6, <1>7, <1>8, Balance, Distinct DEF Moves

LEMMA Empty_IInv ==
  ASSUME IInv, NEW v \in Variables, Empty(v) PROVE IInv'
<1>1. TypeOK /\ v \in Handles /\ handle[v] = None
  BY Distinct DEF IInv, Empty
<1>2. Moves(None, NULL)
  BY <1>1, Moved, Distinct, Zenon DEF Empty
<1>3. \A o \in Objects : Number(handle', o) = Number(handle, o)
  BY <1>2, Numbers, Distinct DEF Is, Moves
<1> QED BY <1>2, <1>3, OnlyMoves DEF Empty, Moves

LEMMA Destroy_IInv ==
  ASSUME IInv, NEW h \in Handles, Destroy(h) PROVE IInv'
<1> DEFINE p == handle[h]
<1>1. TypeOK /\ p # None /\ p \in Objects \cup {NULL}
  BY DEF IInv, TypeOK, Destroy
<1>2. Moves(p, None)
  BY <1>1, Moved, Distinct, Zenon DEF Destroy
<1>3. CASE p = NULL
  <2>1. \A o \in Objects : Number(handle', o) = Number(handle, o)
    BY <1>2, <1>3, Numbers, Distinct DEF Is, Moves
  <2> QED BY <1>2, <1>3, <2>1, OnlyMoves DEF Destroy, Moves
<1>4. CASE p \in Objects
  <2>1. count[p] \in Nat /\ count[p] > 0
    <3>1. h \in Held(p)
      BY DEF Held
    <3> QED BY <1>1, <1>4, <3>1, Counted DEF Destroy
  <2>2. lib' \in [Objects -> 0 .. 1] /\ lib' = lib /\ lib[p] \in 0 .. 1 /\ named' \in BOOLEAN
    BY <1>1, <1>4 DEF TypeOK, Destroy
  <2>3. Counts(p, -1, 0, 0)
    BY <1>4, Distinct DEF Destroy
  <2> HIDE DEF p
  <2>4. /\ Number(handle', p) - Number(handle, p) = -1
        /\ \A o \in Objects \ {p} : Number(handle', o) = Number(handle, o)
    BY <1>2, <1>4, Numbers, Distinct DEF Is, Moves
  <2>5. /\ count[p] + (-1) >= 0
        /\ -1 + 0 - 0 = (lib'[p] - lib[p]) + (-1)
        /\ p \in Messages => copied[p] + 0 <= adopted[p] + 0
    BY <1>1, <1>4, <2>1, <2>2 DEF IInv, TypeOK, FewCopies
  <2> QED BY <1>2, <1>4, <2>2, <2>3, <2>4, <2>5, Balance DEF Moves
<1> QED BY <1>1, <1>3, <1>4

(* Assigning the connection to a handle that has it changes nothing; else  *)
(* it gains or loses one handle and one reference.                         *)
LEMMA Assign_IInv ==
  ASSUME IInv, NEW v \in Variables, NEW p \in {Connection, NULL}, Assign(v, p),
         handle[v] \in {Connection, NULL}
  PROVE  IInv'
<1>1. TypeOK /\ v \in Handles /\ p \in Pointers
  BY Distinct DEF IInv
<1>2. Moves(handle[v], p)
  BY <1>1, Moved, Zenon DEF Assign
<1>3. lib' \in [Objects -> 0 .. 1] /\ lib' = lib /\ lib[Connection] \in 0 .. 1 /\ named' \in BOOLEAN
  BY <1>1, Distinct DEF TypeOK, Assign
<1>4. CASE handle[v] = p
  <2>1. \A o \in Objects : Number(handle', o) = Number(handle, o)
    BY <1>2, <1>4, Numbers DEF Is, Moves
  <2> QED BY <1>2, <1>4, <2>1, OnlyMoves DEF Assign, Moves
<1>5. CASE handle[v] = NULL /\ p = Connection
  <2>1. Counts(Connection, 1, 0, 0)
    BY <1>5, Distinct DEF Assign
  <2>2. /\ Number(handle', Connection) - Number(handle, Connection) = 1
        /\ \A o \in Objects \ {Connection} : Number(handle', o) = Number(handle, o)
    BY <1>2, <1>5, Numbers, Distinct DEF Is, Moves
  <2>3. /\ count[Connection] + 1 >= 0
        /\ 1 + 0 - 0 = (lib'[Connection] - lib[Connection]) + 1
    BY <1>1, <1>3, Distinct DEF TypeOK
  <2> QED BY <1>2, <1>3, <2>1, <2>2, <2>3, Balance, Distinct DEF Moves
<1>6. CASE handle[v] = Connection /\ p = NULL
  <2>1. count[Connection] \in Nat /\ count[Connection] > 0
    <3>1. v \in Held(Connection)
      BY <1>1, <1>6 DEF Held
    <3> QED BY <1>1, <3>1, Counted, Distinct DEF Assign
  <2>2. Counts(Connection, -1, 0, 0)
    BY <1>6, Distinct DEF Assign
  <2>3. /\ Number(handle', Connection) - Number(handle, Connection) = -1
        /\ \A o \in Objects \ {Connection} : Number(handle', o) = Number(handle, o)
    BY <1>2, <1>6, Numbers, Distinct DEF Is, Moves
  <2>4. /\ count[Connection] + (-1) >= 0
        /\ -1 + 0 - 0 = (lib'[Connection] - lib[Connection]) + (-1)
    BY <1>3, <2>1
  <2> QED BY <1>2, <1>3, <2>2, <2>3, <2>4, Balance, Distinct DEF Moves
<1> QED BY <1>4, <1>5, <1>6

(* A swap is two moves, by way of a state where both have the same object. *)
LEMMA swap_IInv ==
  ASSUME IInv, NEW v \in Variables, NEW w \in Variables, swap(v, w) PROVE IInv'
<1>1. PICK p, q : handle[v] = p /\ handle[w] = q
  OBVIOUS
<1> DEFINE mid == Put(handle, v, q)
<1>2. Total(handle) /\ v \in Handles /\ w \in Handles /\ v # w
  BY Distinct DEF IInv, TypeOK, Pointers, Total, swap
<1>3. p \in Pointers /\ Total(mid) /\ mid[w] = q
  BY <1>1, <1>2 DEF Total, Put
<1>4. \A o : Number(mid, o) = Number(handle, o) + Is(q, o) - Is(p, o)
  BY <1>1, <1>2, HandleMoves
<1>5. handle' = Put(mid, w, p)
  BY <1>1, <1>2 DEF swap, Put, Total
<1> HIDE DEF mid
<1>6. \A o : Number(handle', o) = Number(mid, o) + Is(p, o) - Is(q, o)
  BY <1>2, <1>3, <1>5, HandleMoves
<1>7. \A o \in Objects : Number(handle', o) = Number(handle, o)
  BY <1>4, <1>6, Numbers DEF Is
<1>8. handle' \in [Handles -> Pointers]
  BY <1>3, <1>5 DEF Total, Put
<1> QED BY <1>7, <1>8, OnlyMoves DEF swap

(* Messages: each step takes as many references as it fills places, except *)
(* that the adopted one stays, and that a copied result took none.         *)
LEMMA ProxyMessage_IInv ==
  ASSUME IInv, NEW m \in Messages, ProxyMessage(m), handle[m] = None PROVE IInv'
<1>1. TypeOK /\ m \in Handles /\ m \in Objects
  BY Distinct DEF IInv
<1>2. lib' \in [Objects -> 0 .. 1] /\ lib' = lib /\ lib[m] \in 0 .. 1 /\ named' \in BOOLEAN
  BY <1>1 DEF TypeOK, ProxyMessage
<1>3. Moves(None, m)
  BY <1>1, Moved, Distinct, Zenon DEF ProxyMessage
<1>4. /\ Number(handle', m) - Number(handle, m) = 1
      /\ \A o \in Objects \ {m} : Number(handle', o) = Number(handle, o)
  BY <1>1, <1>3, Numbers, Distinct DEF Is, Moves
<1>5. Counts(m, 2, 1, 0)
  BY DEF ProxyMessage, Adopt
<1>6. /\ count[m] + 2 >= 0
      /\ 2 + 0 - 1 = (lib'[m] - lib[m]) + 1
      /\ copied[m] + 0 <= adopted[m] + 1
  BY <1>1, <1>2 DEF IInv, TypeOK, FewCopies
<1> QED BY <1>1, <1>2, <1>3, <1>4, <1>5, <1>6, Balance DEF Moves

LEMMA Send_IInv ==
  ASSUME IInv, NEW m \in Messages, Send(m) PROVE IInv'
<1>1. TypeOK /\ m \in Objects
  BY Distinct DEF IInv
<1>2. /\ lib' \in [Objects -> 0 .. 1] /\ lib[m] = 0 /\ lib'[m] = 1 /\ named' \in BOOLEAN
      /\ \A o \in Objects \ {m} : lib'[o] = lib[o]
      /\ handle' = handle /\ handle' \in [Handles -> Pointers]
  BY <1>1 DEF TypeOK, Pointers, Send
<1>3. /\ Number(handle', m) - Number(handle, m) = 0
      /\ \A o \in Objects \ {m} : Number(handle', o) = Number(handle, o)
  BY <1>2, Numbers
<1>4. Counts(m, 1, 0, 0)
  BY DEF Send
<1>5. /\ count[m] + 1 >= 0
      /\ 1 + 0 - 0 = (lib'[m] - lib[m]) + 0
      /\ copied[m] + 0 <= adopted[m] + 0
  BY <1>1, <1>2 DEF IInv, TypeOK, FewCopies
<1>6. Balanced(m, 1, 0, 0)
  BY <1>2, <1>3, <1>5, Numbers DEF Balanced
<1> QED BY <1>1, <1>4, <1>6, BalancedIInv

LEMMA Written_IInv ==
  ASSUME IInv, NEW m \in Messages, Written(m) PROVE IInv'
<1>1. TypeOK /\ m \in Objects
  BY Distinct DEF IInv
<1>2. /\ lib' \in [Objects -> 0 .. 1] /\ lib[m] = 1 /\ lib'[m] = 0 /\ named' \in BOOLEAN
      /\ \A o \in Objects \ {m} : lib'[o] = lib[o]
      /\ handle' = handle /\ handle' \in [Handles -> Pointers]
  BY <1>1 DEF TypeOK, Pointers, Written
<1>3. /\ Number(handle', m) - Number(handle, m) = 0
      /\ \A o \in Objects \ {m} : Number(handle', o) = Number(handle, o)
  BY <1>2, Numbers
<1>4. Counts(m, -1, 0, 0)
  BY DEF Written
<1>5. count[m] \in Nat /\ count[m] > 0
  BY <1>1, <1>2, Counted DEF Written
<1>6. /\ count[m] + (-1) >= 0
      /\ -1 + 0 - 0 = (lib'[m] - lib[m]) + 0
      /\ copied[m] + 0 <= adopted[m] + 0
  BY <1>1, <1>2, <1>5 DEF IInv, TypeOK, FewCopies
<1> QED BY <1>1, <1>2, <1>3, <1>4, <1>6, Balance

LEMMA EndOfOperation_IInv ==
  ASSUME IInv, NEW m \in Messages, EndOfOperation(m) PROVE IInv'
<1>1. TypeOK /\ m \in Handles /\ m \in Objects /\ handle[m] = m
  BY Distinct DEF IInv, EndOfOperation
<1>2. lib' \in [Objects -> 0 .. 1] /\ lib' = lib /\ lib[m] \in 0 .. 1 /\ named' \in BOOLEAN
  BY <1>1 DEF TypeOK, EndOfOperation
<1>3. Moves(m, None)
  BY <1>1, Moved, Distinct, Zenon DEF EndOfOperation
<1>4. /\ Number(handle', m) - Number(handle, m) = -1
      /\ \A o \in Objects \ {m} : Number(handle', o) = Number(handle, o)
  BY <1>1, <1>3, Numbers, Distinct DEF Is, Moves
<1>5. Counts(m, -1, 0, 0)
  BY DEF EndOfOperation
<1>6. count[m] \in Nat /\ count[m] > 0
  <2>1. m \in Held(m)
    BY <1>1 DEF Held
  <2> QED BY <1>1, <2>1, Counted DEF EndOfOperation
<1>7. /\ count[m] + (-1) >= 0
      /\ -1 + 0 - 0 = (lib'[m] - lib[m]) + (-1)
      /\ copied[m] + 0 <= adopted[m] + 0
  BY <1>1, <1>2, <1>6 DEF IInv, TypeOK, FewCopies
<1> QED BY <1>1, <1>2, <1>3, <1>4, <1>5, <1>7, Balance DEF Moves

LEMMA Reply_IInv ==
  ASSUME IInv, NEW m \in Messages, Reply(m), lib[m] = 0 PROVE IInv'
<1>1. TypeOK /\ m \in Objects
  BY Distinct DEF IInv
<1>2. /\ lib' \in [Objects -> 0 .. 1] /\ lib'[m] = 1 /\ named' \in BOOLEAN
      /\ \A o \in Objects \ {m} : lib'[o] = lib[o]
      /\ handle' = handle /\ handle' \in [Handles -> Pointers]
  BY <1>1 DEF TypeOK, Pointers, Reply
<1>3. /\ Number(handle', m) - Number(handle, m) = 0
      /\ \A o \in Objects \ {m} : Number(handle', o) = Number(handle, o)
  BY <1>2, Numbers
<1>4. count[m] \in Nat /\ copied[m] <= adopted[m] /\ copied[m] \in Nat /\ adopted[m] \in Nat
  BY <1>1 DEF IInv, TypeOK, FewCopies
<1>5. CASE named
  <2>1. Counts(m, 2, 1, 0)
    BY <1>5 DEF Reply
  <2>2. /\ count[m] + 2 >= 0
        /\ 2 + 0 - 1 = (lib'[m] - lib[m]) + 0
        /\ copied[m] + 0 <= adopted[m] + 1
    BY <1>2, <1>4
  <2> QED BY <1>1, <1>2, <1>3, <2>1, <2>2, Balance
<1>6. CASE ~named
  <2>1. Counts(m, 1, 1, 1)
    BY <1>6 DEF Reply
  <2>2. /\ count[m] + 1 >= 0
        /\ 1 + 1 - 1 = (lib'[m] - lib[m]) + 0
        /\ copied[m] + 1 <= adopted[m] + 1
    BY <1>2, <1>4
  <2> QED BY <1>1, <1>2, <1>3, <2>1, <2>2, Balance
<1> QED BY <1>5, <1>6

LEMMA Apart ==
  /\ Variables \cap Messages = {} /\ Users \cap Messages = {}
  /\ Connection \notin Messages /\ Connection \in Objects
  /\ Messages \subseteq Objects
  /\ Handles = Variables \cup Users \cup Messages
BY PtrAssumption DEF Objects, Handles

LEMMA InitPlaced == Init => Placed
BY Apart DEF Init, Placed

LEMMA StepPlaced == TypeOK /\ Placed /\ [Next]_vars => Placed'
<1> SUFFICES ASSUME TypeOK, Placed, [Next]_vars PROVE Placed'
  OBVIOUS
<1> USE Apart DEF TypeOK, Placed
<1>1. ASSUME NEW v \in Variables, create_connection(v) PROVE Placed'
  BY <1>1 DEF create_connection, Adopt, Counts, Shared
<1>2. ASSUME NEW v \in Variables, Empty(v) PROVE Placed'
  BY <1>2 DEF Empty
<1>3. ASSUME NEW h \in Handles, Destroy(h) PROVE Placed'
  <2>1. h \notin Messages /\ handle[h] \in {Connection, NULL}
    BY <1>3 DEF Destroy
  <2>2. adopted' = adopted
    BY <1>3, <2>1 DEF Destroy, Counts
  <2> QED BY <1>3, <2>1, <2>2 DEF Destroy
<1>4. ASSUME NEW v \in Variables, NEW w \in Variables, swap(v, w) PROVE Placed'
  BY <1>4 DEF swap
<1>5. ASSUME NEW v \in Variables, NEW p \in {Connection, NULL}, Assign(v, p) PROVE Placed'
  <2>1. adopted' = adopted
    BY <1>5 DEF Assign, Counts
  <2> QED BY <1>5, <2>1 DEF Assign
<1>6. ASSUME NEW u \in Users, NEW v \in Variables, Construct(u, v) PROVE Placed'
  <2>1. adopted' = adopted
    BY <1>6 DEF Construct, Counts
  <2> QED BY <1>6, <2>1 DEF Construct
<1>7. ASSUME NEW u \in Users, ConstructFromResult(u) PROVE Placed'
  BY <1>7 DEF ConstructFromResult, Counts, Shared
<1>8. ASSUME NEW m \in Messages, ProxyMessage(m) PROVE Placed'
  BY <1>8 DEF ProxyMessage, Fresh, Adopt, Counts
<1>9. ASSUME NEW m \in Messages, Send(m) PROVE Placed'
  <2>1. adopted' = adopted
    BY <1>9 DEF Send, Counts
  <2>2. adopted[m] # 0
    BY <1>9, Distinct DEF Send
  <2>3. \A o \in Objects \ {m} : lib'[o] = lib[o]
    BY <1>9 DEF Send
  <2> QED BY <1>9, <2>1, <2>2, <2>3 DEF Send
<1>10. ASSUME NEW m \in Messages, Written(m) PROVE Placed'
  <2>1. adopted' = adopted
    BY <1>10 DEF Written, Counts
  <2> QED BY <1>10, <2>1 DEF Written
<1>11. ASSUME NEW m \in Messages, EndOfOperation(m) PROVE Placed'
  <2>1. adopted' = adopted
    BY <1>11 DEF EndOfOperation, Counts
  <2> QED BY <1>11, <2>1 DEF EndOfOperation
<1>12. ASSUME NEW m \in Messages, Reply(m) PROVE Placed'
  <2>1. adopted' = [adopted EXCEPT ![m] = @ + 1]
    BY <1>12 DEF Reply, Counts
  <2> QED BY <1>12, <2>1 DEF Reply, Fresh
<1>13. CASE UNCHANGED vars
  BY <1>13 DEF vars
<1> QED BY <1>1, <1>2, <1>3, <1>4, <1>5, <1>6, <1>7, <1>8, <1>9, <1>10, <1>11, <1>12, <1>13 DEF Next

LEMMA StepIInv == IInv /\ Placed /\ [Next]_vars => IInv'
<1> SUFFICES ASSUME IInv, Placed, [Next]_vars PROVE IInv'
  OBVIOUS
<1>1. ASSUME NEW v \in Variables, create_connection(v) PROVE IInv'
  BY <1>1, create_connection_IInv
<1>2. ASSUME NEW v \in Variables, Empty(v) PROVE IInv'
  BY <1>2, Empty_IInv
<1>3. ASSUME NEW h \in Handles, Destroy(h) PROVE IInv'
  BY <1>3, Destroy_IInv
<1>4. ASSUME NEW v \in Variables, NEW w \in Variables, swap(v, w) PROVE IInv'
  BY <1>4, swap_IInv
<1>5. ASSUME NEW v \in Variables, NEW p \in {Connection, NULL}, Assign(v, p) PROVE IInv'
  <2>1. handle[v] \in {Connection, NULL}
    BY <1>5 DEF Placed, Assign
  <2> QED BY <1>5, <2>1, Assign_IInv
<1>6. ASSUME NEW u \in Users, NEW v \in Variables, Construct(u, v) PROVE IInv'
  BY <1>6, Construct_IInv
<1>7. ASSUME NEW u \in Users, ConstructFromResult(u) PROVE IInv'
  BY <1>7, ConstructFromResult_IInv
<1>8. ASSUME NEW m \in Messages, ProxyMessage(m) PROVE IInv'
  <2>1. handle[m] = None
    BY <1>8 DEF Placed, ProxyMessage, Fresh
  <2> QED BY <1>8, <2>1, ProxyMessage_IInv
<1>9. ASSUME NEW m \in Messages, Send(m) PROVE IInv'
  BY <1>9, Send_IInv
<1>10. ASSUME NEW m \in Messages, Written(m) PROVE IInv'
  BY <1>10, Written_IInv
<1>11. ASSUME NEW m \in Messages, EndOfOperation(m) PROVE IInv'
  BY <1>11, EndOfOperation_IInv
<1>12. ASSUME NEW m \in Messages, Reply(m) PROVE IInv'
  <2>1. lib[m] = 0
    BY <1>12 DEF Placed, Reply, Fresh
  <2> QED BY <1>12, <2>1, Reply_IInv
<1>13. CASE UNCHANGED vars
  BY <1>13 DEF vars, IInv, TypeOK, Accounting, FewCopies, Held
<1> QED BY <1>1, <1>2, <1>3, <1>4, <1>5, <1>6, <1>7, <1>8, <1>9, <1>10, <1>11, <1>12, <1>13 DEF Next

(* The strengthened invariant holds in every state.                        *)
THEOREM Inductive == Spec => [](IInv /\ Placed)
<1>1. Init => IInv /\ Placed
  BY InitIInv, InitPlaced
<1>2. (IInv /\ Placed) /\ [Next]_vars => (IInv /\ Placed)'
  BY StepIInv, StepPlaced DEF IInv
<1> QED BY <1>1, <1>2, PTL DEF Spec

(* No step gives back a reference to an object without one, as long as     *)
(* nobody touches a freed object, and the law of include/dbus_ptr.h holds, *)
(* for any number of handles.                                              *)
THEOREM CountsAlwaysKept == Spec => []CountsKept
<1>1. IInv => CountsKept
  BY DEF IInv, CountsKept
<1> QED BY <1>1, Inductive, PTL

(* What the law says of one object, in numbers.                            *)
LEMMA Law ==
  ASSUME IInv, NEW o \in Objects
  PROVE  /\ count[o] \in Nat /\ copied[o] \in Nat /\ adopted[o] \in Nat /\ lib[o] \in 0 .. 1
         /\ Cardinality(Held(o)) \in Nat
         /\ Cardinality(Held(o)) = 0 <=> Held(o) = {}
         /\ count[o] + copied[o] = lib[o] + Cardinality(Held(o)) + adopted[o]
<1>1. Held(o) = HeldIn(handle, o)
  BY DEF Held, HeldIn
<1> QED BY <1>1, HeldFinite DEF IInv, TypeOK, Accounting

(* Only implicit copies free an object that others still hold.             *)
THEOREM FreedEarlyOnlyByCopies == Spec => []FreedEarlyHasCause
<1>1. IInv => FreedEarlyHasCause
  BY Law DEF FreedEarlyHasCause, Dangling
<1> QED BY <1>1, Inductive, PTL

(* No message is freed early, and one that nobody holds keeps a reference  *)
(* for ever unless its result was copied.                                  *)
THEOREM MessagesAlwaysCounted == Spec => []MessagesCounted
<1>1. IInv => MessagesSafe
  BY Law, Distinct DEF IInv, FewCopies, MessagesSafe, Dangling
<1>2. IInv => MessageEnds
  BY Law, Distinct DEF MessageEnds
<1>3. IInv => MessagesCounted
  BY <1>1, <1>2 DEF MessagesCounted
<1> QED BY <1>3, Inductive, PTL

(* A variable, a dispatcher and a server on one connection keep it, as     *)
(* long as the three are there.                                            *)
THEOREM ExamplesKeepTheConnection == Spec => []ExamplesServe
<1>1. IInv /\ Placed => ExamplesServe
  BY Law, Distinct DEF Placed, ExamplesServe, Dangling
<1> QED BY <1>1, Inductive, PTL

=============================================================================
