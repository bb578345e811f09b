---------------------------- MODULE ServerProofs ----------------------------
(***************************************************************************)
(* Proofs about the dispatch tables, for any servers, adaptors, interfaces,*)
(* paths and objects. The inductive invariant is the conjunction of the    *)
(* typing, the two table invariants and TablesConsistent; Reachable,       *)
(* DeadAdaptorSilent and DeadServerOnlyByLeftovers follow from it. The     *)
(* second part is about the bus names: Service only adds to Server, so     *)
(* what holds of the tables holds of both, and the queues of the names     *)
(* have an inductive invariant of their own.                               *)
(***************************************************************************)
EXTENDS Service, SequenceTheorems, TLAPS

IInv == TypeOK /\ NoDanglingAdaptor /\ ObjectTreeExact /\ TablesConsistent

(* Every table starts empty, so the invariant holds before the first call. *)
LEMMA InitIInv == Init => IInv
<1> USE ConstantsAssumption
<1> QED
  BY DEF Init, IInv, TypeOK, NoDanglingAdaptor, ObjectTreeExact, TablesConsistent

(* No operation of the tables leaves their types.                          *)
LEMMA NextTypeOK == TypeOK /\ [Next]_vars => TypeOK'
<1> USE ConstantsAssumption DEF TypeOK
<1> SUFFICES ASSUME TypeOK, [Next]_vars PROVE TypeOK'
  OBVIOUS
<1>1. ASSUME NEW a \in Adaptors, Construct(a) PROVE TypeOK'
  BY <1>1 DEF Construct, register_adaptor, Slot
<1>2. ASSUME NEW a \in Adaptors, Destroy(a) PROVE TypeOK'
  BY <1>2 DEF Destroy, unregister_adaptor
<1>3. ASSUME NEW a \in Adaptors, NEW p \in Paths, NEW t \in Objects, add_object(a, t, p)
      PROVE TypeOK'
  BY <1>3 DEF add_object, register_object
<1>4. ASSUME NEW a \in Adaptors, NEW p \in Paths, remove_object(a, p) PROVE TypeOK'
  BY <1>4 DEF remove_object, unregister_object
<1>5. ASSUME NEW s \in Servers, CreateServer(s) \/ DestroyServer(s) PROVE TypeOK'
  BY <1>5 DEF CreateServer, DestroyServer
<1>6. CASE UNCHANGED vars
  BY <1>6 DEF vars
<1> QED
  BY <1>1, <1>2, <1>3, <1>4, <1>5, <1>6 DEF Next

(* The blind erase of unregister_adaptor cannot leave a dead adaptor in a  *)
(* slot: the adaptor that dies is either in its own slot, which is erased, *)
(* or in none.                                                             *)
LEMMA NextNoDangling == IInv /\ [Next]_vars => NoDanglingAdaptor'
<1> USE ConstantsAssumption DEF IInv, TypeOK, NoDanglingAdaptor, Slot
<1> SUFFICES ASSUME IInv, [Next]_vars PROVE NoDanglingAdaptor'
  OBVIOUS
<1>1. ASSUME NEW a \in Adaptors, Construct(a) PROVE NoDanglingAdaptor'
  BY <1>1 DEF Construct, register_adaptor
<1>2. ASSUME NEW a \in Adaptors, Destroy(a) PROVE NoDanglingAdaptor'
  BY <1>2 DEF Destroy, unregister_adaptor
<1>3. ASSUME UNCHANGED <<life, m_adaptors>> PROVE NoDanglingAdaptor'
  BY <1>3
<1> QED
  BY <1>1, <1>2, <1>3
  DEF Next, add_object, remove_object, CreateServer, DestroyServer, vars

(* add_object finds no holder of the path it gets, and remove_object frees *)
(* the path of its only holder.                                            *)
LEMMA NextObjectTree == IInv /\ [Next]_vars => ObjectTreeExact'
<1> USE ConstantsAssumption DEF IInv, TypeOK
<1> SUFFICES ASSUME IInv, [Next]_vars PROVE ObjectTreeExact'
  OBVIOUS
<1>1. ASSUME NEW a \in Adaptors, NEW p \in Paths, NEW t \in Objects, add_object(a, t, p)
      PROVE ObjectTreeExact'
  <2>1. /\ tree[p] = NULL /\ t # NULL /\ ServerOf[a] # NULL
        /\ tree' = [tree EXCEPT ![p] = ServerOf[a]]
        /\ m_objects' = [m_objects EXCEPT ![a][p] = t]
    BY <1>1 DEF add_object, register_object
  <2>2. \A b \in Adaptors : m_objects[b][p] = NULL
    BY <2>1 DEF ObjectTreeExact
  <2>3. \A b \in Adaptors, q \in Paths :
          m_objects'[b][q] = IF b = a /\ q = p THEN t ELSE m_objects[b][q]
    BY <2>1
  <2>4. \A q \in Paths : tree'[q] = IF q = p THEN ServerOf[a] ELSE tree[q]
    BY <2>1
  <2> QED
    BY <2>1, <2>2, <2>3, <2>4 DEF ObjectTreeExact
<1>2. ASSUME NEW a \in Adaptors, NEW p \in Paths, remove_object(a, p)
      PROVE ObjectTreeExact'
  <2>1. /\ m_objects[a][p] # NULL
        /\ tree' = [tree EXCEPT ![p] = NULL]
        /\ m_objects' = [m_objects EXCEPT ![a][p] = NULL]
    BY <1>2 DEF remove_object, unregister_object
  <2>2. \A b \in Adaptors : b # a => m_objects[b][p] = NULL
    BY <2>1 DEF ObjectTreeExact
  <2>3. \A b \in Adaptors, q \in Paths :
          m_objects'[b][q] = IF b = a /\ q = p THEN NULL ELSE m_objects[b][q]
    BY <2>1
  <2>4. \A q \in Paths : tree'[q] = IF q = p THEN NULL ELSE tree[q]
    BY <2>1
  <2> SUFFICES ASSUME NEW q \in Paths
               PROVE /\ \A b, c \in Adaptors :
                          m_objects'[b][q] # NULL /\ m_objects'[c][q] # NULL => b = c
                     /\ \A b \in Adaptors : m_objects'[b][q] # NULL => tree'[q] = ServerOf[b]
                     /\ tree'[q] # NULL => \E b \in Adaptors : m_objects'[b][q] # NULL
    BY DEF ObjectTreeExact
  <2>5. CASE q = p
    BY <2>2, <2>3, <2>4, <2>5
  <2>6. CASE q # p
    <3>1. tree'[q] = tree[q] /\ \A b \in Adaptors : m_objects'[b][q] = m_objects[b][q]
      BY <2>3, <2>4, <2>6
    <3>2. /\ \A b, c \in Adaptors :
               m_objects[b][q] # NULL /\ m_objects[c][q] # NULL => b = c
          /\ \A b \in Adaptors : m_objects[b][q] # NULL => tree[q] = ServerOf[b]
          /\ tree[q] # NULL => \E b \in Adaptors : m_objects[b][q] # NULL
      BY DEF ObjectTreeExact
    <3> QED
      BY ONLY <3>1, <3>2
  <2> QED
    BY <2>5, <2>6
<1>3. ASSUME UNCHANGED <<m_objects, tree>> PROVE ObjectTreeExact'
  BY <1>3 DEF ObjectTreeExact
<1> QED
  BY <1>1, <1>2, <1>3 DEF Next, Construct, Destroy, CreateServer, DestroyServer, vars

(* The adaptor that loses its slot to the constructor of a rival, or to    *)
(* the rival's destructor, has a contested slot.                           *)
LEMMA NextConsistent == IInv /\ [Next]_vars => TablesConsistent'
<1> USE ConstantsAssumption DEF IInv, TypeOK, TablesConsistent
<1> SUFFICES ASSUME IInv, [Next]_vars PROVE TablesConsistent'
  OBVIOUS
<1>1. ASSUME NEW a \in Adaptors, Construct(a) PROVE TablesConsistent'
  <2>1. /\ life[a] = "unborn" /\ ServerOf[a] \in alive
        /\ life' = [life EXCEPT ![a] = "alive"]
        /\ m_adaptors' = [m_adaptors EXCEPT ![ServerOf[a]][InterfaceName[a]] = a]
        /\ contested \subseteq contested'
        /\ UNCHANGED <<alive, m_objects>>
    BY <1>1 DEF Construct, register_adaptor
  <2>2. \A b \in Adaptors : b # a /\ life[b] = "alive" /\ Slot(b) = Slot(a)
                              => Slot(b) \in contested'
    BY <1>1 DEF Construct, Siblings
  <2> QED
    BY <2>1, <2>2 DEF Slot
<1>2. ASSUME NEW a \in Adaptors, Destroy(a) PROVE TablesConsistent'
  BY <1>2 DEF Destroy, unregister_adaptor, Slot
<1>3. ASSUME NEW a \in Adaptors, NEW p \in Paths, NEW t \in Objects, add_object(a, t, p)
      PROVE TablesConsistent'
  BY <1>3 DEF add_object, Slot
<1>4. ASSUME NEW a \in Adaptors, NEW p \in Paths, remove_object(a, p)
      PROVE TablesConsistent'
  BY <1>4 DEF remove_object, Slot
<1>5. ASSUME NEW s \in Servers, CreateServer(s) \/ DestroyServer(s)
      PROVE TablesConsistent'
  BY <1>5 DEF CreateServer, DestroyServer, Slot
<1>6. CASE UNCHANGED vars
  BY <1>6 DEF vars, Slot
<1> QED
  BY <1>1, <1>2, <1>3, <1>4, <1>5, <1>6 DEF Next

(* The invariant holds in every reachable state of the tables.             *)
THEOREM Inductive == Spec => []IInv
<1>1. IInv /\ [Next]_vars => IInv'
  BY NextTypeOK, NextNoDangling, NextObjectTree, NextConsistent DEF IInv
<1> QED
  BY InitIInv, <1>1, PTL DEF Spec

(* The tables keep their types and say consistent things of every adaptor. *)
THEOREM TablesAreRight == Spec => []TablesRight
BY Inductive, PTL DEF IInv, TablesRight

(* No order of constructors and destructors leaves a dangling adaptor* in  *)
(* m_adaptors, although both operations ignore what they overwrite.        *)
THEOREM AdaptorsNeverDangle == Spec => []NoDanglingAdaptor
BY Inductive, PTL DEF IInv

(* The object tree of libdbus and the adaptors' maps never disagree.       *)
THEOREM ObjectTreeIsExact == Spec => []ObjectTreeExact
BY Inductive, PTL DEF IInv

(* What the invariant says of the answers to calls.                        *)
LEMMA IInvAnswers == IInv => Reachable /\ DeadAdaptorSilent /\ DeadServerOnlyByLeftovers
<1> USE ConstantsAssumption DEF IInv, TypeOK, NoDanglingAdaptor, ObjectTreeExact,
                                TablesConsistent, Slot
<1> SUFFICES ASSUME IInv PROVE Reachable /\ DeadAdaptorSilent /\ DeadServerOnlyByLeftovers
  OBVIOUS
<1>1. Reachable
  <2> SUFFICES ASSUME NEW a \in Adaptors, NEW p \in Paths,
                      life[a] = "alive", m_objects[a][p] # NULL, Slot(a) \notin contested,
                      NEW member \in Vtbl[InterfaceName[a]]
               PROVE Answer(p, InterfaceName[a], member) = <<"call", m_objects[a][p]>>
    BY DEF Reachable
  <2>1. tree[p] = ServerOf[a] /\ ServerOf[a] \in alive /\ ServerOf[a] # NULL
    OBVIOUS
  <2>2. m_adaptors[ServerOf[a]][InterfaceName[a]] = a /\ a # NULL /\ InterfaceName[a] # NULL
    OBVIOUS
  <2>3. handle_message(a, p, member) = <<"call", m_objects[a][p]>>
    BY DEF handle_message
  <2>4. message_func(ServerOf[a], p, InterfaceName[a], member) = handle_message(a, p, member)
    BY <2>1, <2>2 DEF message_func
  <2> QED
    BY <2>1, <2>3, <2>4 DEF Answer
<1>2. \A s \in Servers, i \in Interfaces, p \in Paths, member \in Methods :
        s \in alive => message_func(s, p, i, member)[1] # "dead"
  <2> SUFFICES ASSUME NEW s \in Servers, NEW i \in Interfaces, NEW p \in Paths,
                      NEW member \in Methods, s \in alive
               PROVE message_func(s, p, i, member)[1] # "dead"
    OBVIOUS
  <2>1. CASE m_adaptors[s][i] = NULL
    BY <2>1 DEF message_func
  <2>2. CASE m_adaptors[s][i] # NULL
    <3>1. life[m_adaptors[s][i]] = "alive"
      BY <2>2
    <3>2. handle_message(m_adaptors[s][i], p, member)[1] # "dead"
      BY <3>1 DEF handle_message
    <3> QED
      BY <2>2, <3>2 DEF message_func
  <2> QED
    BY <2>1, <2>2
<1>3. DeadAdaptorSilent
  <2> SUFFICES ASSUME NEW a \in Adaptors, NEW p \in Paths,
                      life[a] = "dead", m_objects[a][p] # NULL, ServerOf[a] \in alive,
                      NEW i \in Interfaces, NEW member \in Methods
               PROVE Answer(p, i, member) = <<"unhandled", NULL>>
    BY DEF DeadAdaptorSilent
  <2> DEFINE b == m_adaptors[ServerOf[a]][i]
  <2>1. tree[p] = ServerOf[a] /\ tree[p] # NULL /\ i # NULL
    OBVIOUS
  <2>2. CASE b = NULL
    BY <2>1, <2>2 DEF Answer, message_func
  <2>3. CASE b # NULL
    <3>1. b \in Adaptors /\ life[b] = "alive" /\ m_objects[b][p] = NULL
      BY <2>3
    <3>2. handle_message(b, p, member) = <<"unhandled", NULL>>
      BY <3>1 DEF handle_message
    <3> QED
      BY <2>1, <2>3, <3>2 DEF Answer, message_func
  <2> QED
    BY <2>2, <2>3
<1>4. DeadServerOnlyByLeftovers
  <2> SUFFICES ASSUME NEW p \in Paths, NEW i \in Interfaces, NEW member \in Methods,
                      Answer(p, i, member)[1] = "dead"
               PROVE \E a \in Adaptors : /\ life[a] = "dead"
                                         /\ m_objects[a][p] # NULL
                                         /\ ServerOf[a] = tree[p]
                                         /\ tree[p] \notin alive
    BY DEF DeadServerOnlyByLeftovers
  <2>1. tree[p] # NULL
    BY DEF Answer
  <2>2. tree[p] \notin alive
    BY <1>2, <2>1 DEF Answer
  <2>3. PICK a \in Adaptors : m_objects[a][p] # NULL
    BY <2>1
  <2>4. ServerOf[a] = tree[p]
    BY <2>3
  <2>5. life[a] # "unborn"
    <3>1. life[a] = "unborn" => \A q \in Paths : m_objects[a][q] = NULL
      BY ONLY IInv, a \in Adaptors DEF IInv, TablesConsistent
    <3> QED
      BY ONLY <2>3, <3>1, p \in Paths
  <2>6. life[a] # "alive"
    BY ONLY <2>2, <2>3, <2>4, IInv DEF IInv, TablesConsistent
  <2>7. life[a] = "dead"
    BY ONLY <2>3, <2>5, <2>6, IInv DEF IInv, TypeOK
  <2> QED
    BY ONLY <2>2, <2>3, <2>4, <2>7
<1> QED
  BY <1>1, <1>3, <1>4

(* An object that was added and not removed answers the members of its     *)
(* interface as long as its adaptor had no rival.                          *)
THEOREM ObjectsReachable == Spec => []Reachable
BY Inductive, IInvAnswers, PTL

(* Objects left in the tree by a dead adaptor are never called.            *)
THEOREM DeadAdaptorsSilent == Spec => []DeadAdaptorSilent
BY Inductive, IInvAnswers, PTL

(* The only freed object a call can enter is a destroyed server, and only  *)
(* on a path one of its adaptors did not remove.                           *)
THEOREM DeadServersOnlyByLeftovers == Spec => []DeadServerOnlyByLeftovers
BY Inductive, IInvAnswers, PTL

(* A handler is installed and removed only by the adaptor that holds the   *)
(* path.                                                                   *)
THEOREM PathsChangedByOwner == Spec => PathChangedByOwner
<1> USE ConstantsAssumption DEF IInv, TypeOK
<1> DEFINE Rightful(p) == tree'[p] # tree[p] =>
             /\ tree[p] = NULL \/ tree'[p] = NULL
             /\ \E a \in Adaptors :
                  /\ life[a] = "alive"
                  /\ (m_objects[a][p] = NULL) # (m_objects'[a][p] = NULL)
<1>1. IInv /\ [Next]_vars => [\A p \in Paths : Rightful(p)]_vars
  <2> SUFFICES ASSUME IInv, Next, NEW p \in Paths, tree'[p] # tree[p] PROVE Rightful(p)
    OBVIOUS
  <2>1. ASSUME NEW a \in Adaptors, NEW q \in Paths, NEW t \in Objects, add_object(a, t, q)
        PROVE Rightful(p)
    <3>1. q = p /\ tree[p] = NULL /\ life[a] = "alive" /\ t # NULL
      BY <2>1 DEF add_object, register_object
    <3>2. m_objects[a][p] = NULL /\ m_objects'[a][p] = t
      BY <2>1, <3>1 DEF add_object, ObjectTreeExact
    <3> QED
      BY <3>1, <3>2
  <2>2. ASSUME NEW a \in Adaptors, NEW q \in Paths, remove_object(a, q) PROVE Rightful(p)
    BY <2>2 DEF remove_object, unregister_object
  <2> QED
    BY <2>1, <2>2 DEF Next, Construct, Destroy, CreateServer, DestroyServer
<1> QED
  BY <1>1, Inductive, PTL DEF Spec, PathChangedByOwner

-----------------------------------------------------------------------------
(* A server asks for its name besides what Server says it does, so the     *)
(* tables behave as if there were no names.                                *)
THEOREM ServiceKeepsTables == ServiceSpec => Spec
<1>1. ServiceInit => Init
  BY DEF ServiceInit
<1>2. [ServiceNext]_serviceVars => [Next]_vars
  BY DEF ServiceNext, serviceVars, Serve, Retire, TablesChange, RivalRequests,
         RivalReleases, Next
<1> QED
  BY <1>1, <1>2, PTL DEF ServiceSpec, Spec

(* What a queue without doublets looks like when somebody leaves it.       *)
LEMMA LeavingQueue ==
  ASSUME NEW S, NEW q \in Seq(S), IsInjective(q), NEW i \in 1..Len(q)
  PROVE  /\ RemoveAt(q, i) \in Seq(S)
         /\ IsInjective(RemoveAt(q, i))
         /\ \A c : Contains(RemoveAt(q, i), c) <=> Contains(q, c) /\ c # q[i]
         /\ Len(RemoveAt(q, i)) = Len(q) - 1
         /\ i # 1 => RemoveAt(q, i)[1] = q[1]
         /\ i = 1 /\ Len(q) > 1 => RemoveAt(q, i)[1] = q[2]
<1> DEFINE r == RemoveAt(q, i)
           front == SubSeq(q, 1, i - 1)
           back == SubSeq(q, i + 1, Len(q))
<1>0. /\ Len(q) \in Nat /\ DOMAIN q = 1..Len(q)
      /\ \A j \in 1..Len(q) : q[j] \in S
  BY LenProperties
<1>1. /\ r \in Seq(S) /\ Len(r) = Len(q) - 1 /\ DOMAIN r = 1..Len(r)
      /\ \A j \in 1..Len(r) : r[j] = IF j < i THEN q[j] ELSE q[j + 1]
  <2>1. /\ front \in Seq(S) /\ Len(front) = i - 1
        /\ \A j \in 1..i - 1 : front[j] = q[j]
    <3>1. \A j \in 1..(i - 1) : q[j] \in S
      BY <1>0
    <3> QED
      BY <1>0, <3>1, SubSeqProperties
  <2>2. /\ back \in Seq(S) /\ Len(back) = Len(q) - i
        /\ \A j \in 1..Len(q) - i : back[j] = q[i + j]
    <3>1. \A j \in (i + 1)..Len(q) : q[j] \in S
      BY <1>0
    <3>2. /\ back \in Seq(S) /\ Len(back) = IF i + 1 <= Len(q) THEN Len(q) - (i + 1) + 1 ELSE 0
          /\ \A j \in 1..Len(q) - (i + 1) + 1 : back[j] = q[(i + 1) + j - 1]
      BY <1>0, <3>1, SubSeqProperties
    <3> HIDE DEF back
    <3>3. Len(q) \in Nat /\ i \in 1..Len(q)
      BY <1>0
    <3>4. Len(back) = Len(q) - i
      BY ONLY <3>2, <3>3
    <3>5. ASSUME NEW j \in 1..Len(q) - i PROVE back[j] = q[i + j]
      <4>1. j \in 1..Len(q) - (i + 1) + 1 /\ (i + 1) + j - 1 = i + j
        BY ONLY <3>3, j \in 1..Len(q) - i
      <4>2. back[j] = q[(i + 1) + j - 1]
        BY ONLY <3>2, <4>1
      <4> QED
        BY ONLY <4>1, <4>2
    <3> QED
      BY ONLY <3>2, <3>4, <3>5
  <2>3. r = front \o back
    BY DEF RemoveAt
  <2> HIDE DEF r, front, back
  <2>4. /\ r \in Seq(S) /\ Len(r) = Len(front) + Len(back)
        /\ \A j \in 1..Len(front) + Len(back) :
              r[j] = IF j <= Len(front) THEN front[j] ELSE back[j - Len(front)]
    BY ONLY <2>1, <2>2, <2>3, ConcatProperties
  <2>5. DOMAIN r = 1..Len(r)
    BY ONLY <2>4, LenProperties
  <2>6. Len(q) \in Nat /\ i \in 1..Len(q) /\ Len(r) = Len(q) - 1
    BY ONLY <1>0, <2>1, <2>2, <2>4, i \in 1..Len(q)
  <2>7. ASSUME NEW j \in 1..Len(r) PROVE r[j] = IF j < i THEN q[j] ELSE q[j + 1]
    <3>1. r[j] = IF j <= Len(front) THEN front[j] ELSE back[j - Len(front)]
      BY ONLY <2>1, <2>2, <2>4, <2>6, j \in 1..Len(r)
    <3>2. CASE j < i
      <4>1. j \in 1..i - 1 /\ j <= Len(front)
        BY ONLY <2>1, <2>6, <3>2, j \in 1..Len(r)
      <4> QED
        BY ONLY <2>1, <3>1, <3>2, <4>1
    <3>3. CASE ~(j < i)
      <4>1. /\ ~(j <= Len(front)) /\ j - Len(front) \in 1..Len(q) - i
            /\ i + (j - Len(front)) = j + 1
        BY ONLY <2>1, <2>6, <3>3, j \in 1..Len(r)
      <4>2. back[j - Len(front)] = q[i + (j - Len(front))]
        BY ONLY <2>2, <4>1
      <4> QED
        BY ONLY <3>1, <3>3, <4>1, <4>2
    <3> QED
      BY ONLY <3>2, <3>3
  <2> QED
    BY ONLY <2>4, <2>5, <2>6, <2>7
<1> HIDE DEF r
<1>2. IsInjective(r)
  <2> SUFFICES ASSUME NEW j \in 1..Len(r), NEW k \in 1..Len(r), r[j] = r[k] PROVE j = k
    BY <1>1 DEF IsInjective
  <2> QED
    BY <1>0, <1>1 DEF IsInjective
<1>3. ASSUME NEW c PROVE Contains(r, c) <=> Contains(q, c) /\ c # q[i]
  <2>1. ASSUME NEW j \in 1..Len(r), r[j] = c PROVE Contains(q, c) /\ c # q[i]
    <3>1. \E k \in 1..Len(q) : k # i /\ q[k] = c
      <4>1. CASE j < i
        BY <1>0, <1>1, <2>1, <4>1
      <4>2. CASE j >= i
        <5>1. j + 1 \in 1..Len(q) /\ j + 1 # i /\ q[j + 1] = c
          BY <1>0, <1>1, <2>1, <4>2
        <5> QED
          BY <5>1
      <4> QED
        BY <1>0, <1>1, <4>1, <4>2
    <3> QED
      BY <1>0, <3>1 DEF Contains, IsInjective
  <2>2. ASSUME NEW j \in 1..Len(q), q[j] = c, c # q[i] PROVE Contains(r, c)
    <3>1. CASE j < i
      BY <1>0, <1>1, <2>2, <3>1 DEF Contains
    <3>2. CASE j > i
      <4>1. j - 1 \in 1..Len(r) /\ r[j - 1] = c
        BY <1>0, <1>1, <2>2, <3>2
      <4> QED
        BY <4>1 DEF Contains
    <3> QED
      BY <2>2, <3>1, <3>2
  <2> QED
    BY <2>1, <2>2 DEF Contains
<1>4. i # 1 => 1 < i /\ 1 \in 1..Len(r)
  BY <1>0, <1>1
<1>5. i = 1 /\ Len(q) > 1 => 1 \in 1..Len(r)
  BY <1>0, <1>1
<1>6. /\ i # 1 => r[1] = q[1]
      /\ i = 1 /\ Len(q) > 1 => r[1] = q[2]
  BY <1>1, <1>4, <1>5
<1> QED
  BY <1>1, <1>2, <1>3, <1>6 DEF r

(* And when somebody who is not in it joins.                               *)
LEMMA JoiningQueue ==
  ASSUME NEW S, NEW q \in Seq(S), IsInjective(q), NEW c \in S, ~Contains(q, c)
  PROVE  /\ Append(q, c) \in Seq(S)
         /\ IsInjective(Append(q, c))
         /\ \A d : Contains(Append(q, c), d) <=> Contains(q, d) \/ d = c
         /\ q # <<>> => Append(q, c)[1] = q[1]
<1>1. /\ Append(q, c) \in Seq(S) /\ Len(Append(q, c)) = Len(q) + 1
      /\ \A j \in 1..Len(q) : Append(q, c)[j] = q[j]
      /\ Append(q, c)[Len(q) + 1] = c
  OBVIOUS
<1>2. IsInjective(Append(q, c))
  BY <1>1 DEF IsInjective, Contains
<1>3. ASSUME NEW d PROVE Contains(Append(q, c), d) <=> Contains(q, d) \/ d = c
  BY <1>1 DEF Contains
<1> QED
  BY <1>1, <1>2, <1>3

(* The queues alone: their type, and no connection twice.                  *)
QueuesRight ==
  /\ ServiceTypeOK
  /\ \A n \in Names : IsInjective(queues[n])

(* Requests and releases, whoever makes them.                              *)
LEMMA QueueSteps ==
  ASSUME QueuesRight, NEW c \in Connections, NEW n \in Names
  PROVE  /\ Requested(c, n) \in Seq(Connections) /\ IsInjective(Requested(c, n))
         /\ \A d : Contains(Requested(c, n), d) <=> Waits(d, n) \/ d = c
         /\ queues[n] # <<>> => Requested(c, n) # <<>> /\ Requested(c, n)[1] = queues[n][1]
         /\ Released(c, n) \in Seq(Connections) /\ IsInjective(Released(c, n))
         /\ \A d : Contains(Released(c, n), d) <=> Waits(d, n) /\ d # c
         /\ queues[n] # <<>> /\ queues[n][1] # c =>
              Released(c, n) # <<>> /\ Released(c, n)[1] = queues[n][1]
         /\ queues[n] # <<>> /\ queues[n][1] = c =>
              IF Len(queues[n]) = 1 THEN Released(c, n) = <<>>
              ELSE Released(c, n) # <<>> /\ Released(c, n)[1] = queues[n][2]
<1>1. queues[n] \in Seq(Connections) /\ IsInjective(queues[n])
  BY DEF QueuesRight, ServiceTypeOK
<1>2. /\ Requested(c, n) \in Seq(Connections) /\ IsInjective(Requested(c, n))
      /\ \A d : Contains(Requested(c, n), d) <=> Waits(d, n) \/ d = c
      /\ queues[n] # <<>> => Requested(c, n) # <<>> /\ Requested(c, n)[1] = queues[n][1]
  <2>1. CASE Waits(c, n)
    BY <1>1, <2>1 DEF Requested, Waits
  <2>2. CASE ~Waits(c, n)
    <3>1. Requested(c, n) = Append(queues[n], c) /\ ~Contains(queues[n], c)
      BY <2>2 DEF Requested, Waits
    <3> QED
      BY <1>1, <3>1, JoiningQueue DEF Waits
  <2> QED
    BY <2>1, <2>2
<1>3. CASE Waits(c, n)
  <2> DEFINE q == queues[n]
             i == Place(c, n)
  <2>1. i \in 1..Len(q) /\ q[i] = c
    BY <1>3 DEF Waits, Contains, Place
  <2>2. Released(c, n) = RemoveAt(q, i)
    BY <1>3 DEF Released
  <2>0. q \in Seq(Connections) /\ IsInjective(q)
    BY <1>1
  <2> HIDE DEF q, i
  <2>3. /\ RemoveAt(q, i) \in Seq(Connections)
        /\ IsInjective(RemoveAt(q, i))
        /\ \A d : Contains(RemoveAt(q, i), d) <=> Contains(q, d) /\ d # q[i]
        /\ Len(RemoveAt(q, i)) = Len(q) - 1
        /\ i # 1 => RemoveAt(q, i)[1] = q[1]
        /\ i = 1 /\ Len(q) > 1 => RemoveAt(q, i)[1] = q[2]
    BY ONLY <2>0, <2>1, LeavingQueue
  <2>4. /\ q[1] = c <=> i = 1
        /\ q # <<>> /\ Len(q) \in Nat /\ (Len(q) = 1 => i = 1)
    <3>1. Len(q) \in Nat /\ DOMAIN q = 1..Len(q) /\ q # <<>>
      BY <2>0, <2>1, LenProperties, EmptySeq
    <3> QED
      BY <2>0, <2>1, <3>1 DEF IsInjective
  <2>5. /\ RemoveAt(q, i) = <<>> <=> Len(q) = 1
        /\ Len(q) # 1 => Len(q) > 1
    <3>1. RemoveAt(q, i) = <<>> <=> Len(RemoveAt(q, i)) = 0
      BY <2>3, EmptySeq
    <3> QED
      BY <2>1, <2>3, <2>4, <3>1
  <2>6. /\ Released(c, n) \in Seq(Connections) /\ IsInjective(Released(c, n))
        /\ \A d : Contains(Released(c, n), d) <=> Contains(q, d) /\ d # c
        /\ q[1] # c => Released(c, n) # <<>> /\ Released(c, n)[1] = q[1]
        /\ q[1] = c => IF Len(q) = 1 THEN Released(c, n) = <<>>
                       ELSE Released(c, n) # <<>> /\ Released(c, n)[1] = q[2]
    BY ONLY <2>1, <2>2, <2>3, <2>4, <2>5
  <2> QED
    BY <1>2, <2>6 DEF q, Waits
<1>4. CASE ~Waits(c, n)
  <2>1. Released(c, n) = queues[n]
    BY <1>4 DEF Released
  <2>2. queues[n] # <<>> => queues[n][1] # c
    BY <1>1, <1>4 DEF Waits, Contains
  <2> QED
    BY <1>1, <1>2, <1>4, <2>1, <2>2 DEF Waits
<1> QED
  BY <1>3, <1>4

(* The queues and the servers change together.                             *)
NInv == TypeOK /\ QueuesRight /\ NamesRight

LEMMA ServiceTypes == NULL \notin Connections /\ Here \in Connections
BY ServiceAssumption DEF Connections

(* Each step changes the queue of one name by one connection; Here joins   *)
(* when a server of the name appears and leaves when one goes.             *)
LEMMA NextNames == NInv /\ [ServiceNext]_serviceVars => NamesRight' /\ QueuesRight'
<1> USE ServiceTypes
<1> SUFFICES ASSUME NInv, [ServiceNext]_serviceVars PROVE NamesRight' /\ QueuesRight'
  OBVIOUS
<1>0. /\ alive \subseteq created /\ created \subseteq Servers
      /\ NameOf \in [Servers -> Names]
      /\ queues \in [Names -> Seq(Connections)]
      /\ QueuesRight
  BY ServiceAssumption DEF NInv, TypeOK, QueuesRight, ServiceTypeOK
<1> DEFINE Kept(n) == /\ IsInjective(queues[n])
                      /\ Waits(Here, n) => ByName(n) \cap alive # {}
                      /\ ByName(n) \cap alive # {} /\ ByName(n) \cap created \subseteq alive =>
                           Waits(Here, n)
<1>1. \A n \in Names : Kept(n)
  BY DEF NInv, NamesRight
<1>2. ASSUME NEW c \in Connections, NEW m \in Names,
             \/ queues' = [queues EXCEPT ![m] = Requested(c, m)]
             \/ queues' = [queues EXCEPT ![m] = Released(c, m)]
      PROVE  /\ QueuesRight'
             /\ \A n \in Names : IsInjective(queues'[n])
             /\ \A n \in Names : \A d : n # m \/ d # c => (Waits(d, n)' <=> Waits(d, n))
             /\ Waits(c, m)' <=> queues' = [queues EXCEPT ![m] = Requested(c, m)]
  <2>1. CASE queues' = [queues EXCEPT ![m] = Requested(c, m)]
    <3>1. /\ Requested(c, m) \in Seq(Connections) /\ IsInjective(Requested(c, m))
          /\ \A d : Contains(Requested(c, m), d) <=> Waits(d, m) \/ d = c
      BY <1>0, QueueSteps
    <3>2. \A n \in Names : queues'[n] = IF n = m THEN Requested(c, m) ELSE queues[n]
      BY <1>0, <2>1
    <3>3. queues' \in [Names -> Seq(Connections)] /\ \A n \in Names : IsInjective(queues'[n])
      BY <1>0, <2>1, <3>1, <3>2 DEF QueuesRight
    <3> QED
      BY <2>1, <3>1, <3>2, <3>3 DEF QueuesRight, ServiceTypeOK, Waits
  <2>2. CASE queues' = [queues EXCEPT ![m] = Released(c, m)]
    <3>1. /\ Released(c, m) \in Seq(Connections) /\ IsInjective(Released(c, m))
          /\ \A d : Contains(Released(c, m), d) <=> Waits(d, m) /\ d # c
          /\ \A d : Contains(Requested(c, m), d) <=> Waits(d, m) \/ d = c
      BY <1>0, QueueSteps
    <3>2. \A n \in Names : queues'[n] = IF n = m THEN Released(c, m) ELSE queues[n]
      BY <1>0, <2>2
    <3>3. queues' \in [Names -> Seq(Connections)] /\ \A n \in Names : IsInjective(queues'[n])
      BY <1>0, <2>2, <3>1, <3>2 DEF QueuesRight
    <3>4. ~Waits(c, m)' /\ queues' # [queues EXCEPT ![m] = Requested(c, m)]
      <4>1. ~Contains(queues'[m], c) /\ Contains(Requested(c, m), c)
        BY <3>1, <3>2
      <4>2. [queues EXCEPT ![m] = Requested(c, m)][m] = Requested(c, m)
        BY <1>0
      <4> QED
        BY <4>1, <4>2 DEF Waits
    <3> QED
      BY <3>1, <3>2, <3>3, <3>4 DEF QueuesRight, ServiceTypeOK, Waits
  <2> QED
    BY <1>2, <2>1, <2>2
<1>3. ASSUME NEW s \in Servers, Serve(s) PROVE NamesRight' /\ QueuesRight'
  <2>1. /\ created' = created \cup {s} /\ alive' = alive \cup {s} /\ NameOf[s] \in Names
        /\ queues' = [queues EXCEPT ![NameOf[s]] = Requested(Here, NameOf[s])]
    BY <1>0, <1>3 DEF Serve, CreateServer
  <2>2. /\ QueuesRight'
        /\ \A n \in Names : IsInjective(queues'[n])
        /\ \A n \in Names : n # NameOf[s] => (Waits(Here, n)' <=> Waits(Here, n))
        /\ Waits(Here, NameOf[s])'
    BY <1>2, <2>1
  <2> QED
    BY <1>0, <1>1, <2>1, <2>2 DEF NamesRight, ByName
<1>4. ASSUME NEW s \in Servers, Retire(s) PROVE NamesRight' /\ QueuesRight'
  <2>1. /\ s \in alive /\ created' = created /\ alive' = alive \ {s} /\ NameOf[s] \in Names
        /\ queues' = [queues EXCEPT ![NameOf[s]] = Released(Here, NameOf[s])]
    BY <1>0, <1>4 DEF Retire, DestroyServer
  <2>2. /\ QueuesRight'
        /\ \A n \in Names : IsInjective(queues'[n])
        /\ \A n \in Names : n # NameOf[s] => (Waits(Here, n)' <=> Waits(Here, n))
    BY <1>2, <2>1
  <2>3. ~Waits(Here, NameOf[s])'
    <3>1. \A d : Contains(Released(Here, NameOf[s]), d) => d # Here
      BY <1>0, <2>1, QueueSteps
    <3>2. queues'[NameOf[s]] = Released(Here, NameOf[s])
      BY <1>0, <2>1
    <3> QED
      BY <3>1, <3>2 DEF Waits
  <2>4. s \in ByName(NameOf[s]) \cap created'
    BY <1>0, <2>1 DEF ByName
  <2>5. ASSUME NEW n \in Names, n # NameOf[s]
        PROVE ByName(n) \cap alive' = ByName(n) \cap alive
    BY <2>1, <2>5 DEF ByName
  <2>6. ASSUME NEW n \in Names
        PROVE /\ IsInjective(queues'[n])
              /\ Waits(Here, n)' => ByName(n) \cap alive' # {}
              /\ ByName(n) \cap alive' # {} /\ ByName(n) \cap created' \subseteq alive' =>
                   Waits(Here, n)'
    <3>1. CASE n = NameOf[s]
      BY <2>1, <2>2, <2>3, <2>4, <3>1
    <3>2. CASE n # NameOf[s]
      <4>1. ByName(n) \cap created \subseteq alive <=> ByName(n) \cap created' \subseteq alive'
        BY <2>1, <3>2 DEF ByName
      <4> QED
        BY <1>1, <2>2, <2>5, <3>2, <4>1
    <3> QED
      BY <3>1, <3>2
  <2> QED
    BY <2>2, <2>6 DEF NamesRight, ByName
<1>5. ASSUME NEW c \in Rivals, NEW n \in Names, RivalRequests(c, n) \/ RivalReleases(c, n)
      PROVE NamesRight' /\ QueuesRight'
  <2>1. /\ UNCHANGED <<created, alive>> /\ c \in Connections /\ c # Here
        /\ \/ queues' = [queues EXCEPT ![n] = Requested(c, n)]
           \/ queues' = [queues EXCEPT ![n] = Released(c, n)]
    BY <1>5, ServiceAssumption DEF RivalRequests, RivalReleases, vars, Connections
  <2>2. /\ QueuesRight'
        /\ \A m \in Names : IsInjective(queues'[m]) /\ (Waits(Here, m)' <=> Waits(Here, m))
    BY <1>2, <2>1
  <2> QED
    BY <1>1, <2>1, <2>2 DEF NamesRight, ByName
<1>6. ASSUME UNCHANGED <<created, alive, queues>> PROVE NamesRight' /\ QueuesRight'
  BY <1>0, <1>1, <1>6 DEF NamesRight, ByName, Waits, QueuesRight, ServiceTypeOK
<1>7. TablesChange \/ UNCHANGED serviceVars => UNCHANGED <<created, alive, queues>>
  BY DEF TablesChange, Construct, Destroy, add_object, remove_object, serviceVars, vars
<1> QED
  BY <1>3, <1>4, <1>5, <1>6, <1>7 DEF ServiceNext

(* Types of the tables, and the queues of the names, in every state.       *)
THEOREM NamesInductive == ServiceSpec => []NInv
<1>1. ServiceInit => QueuesRight /\ NamesRight
  BY DEF ServiceInit, QueuesRight, ServiceTypeOK, NamesRight, Waits, Contains, Init, IsInjective
<1>2. ServiceSpec => []TypeOK
  BY ServiceKeepsTables, TablesAreRight, PTL DEF TablesRight
<1>3. NInv /\ [ServiceNext]_serviceVars => NamesRight' /\ QueuesRight'
  BY NextNames
<1> QED
  BY <1>1, <1>2, <1>3, PTL DEF ServiceSpec, NInv

(* This process waits for a name only on behalf of a live server, and a    *)
(* live server without its name lost it to another's destructor.           *)
THEOREM NamesAreRight == ServiceSpec => []NamesRight
BY NamesInductive, PTL DEF NInv

(* With no rival of any kind, an object is reached by its server's name.   *)
THEOREM ObjectsServedByName == ServiceSpec => []ServedByName
<1>1. ASSUME NInv, IInv PROVE ServedByName
  <2> SUFFICES ASSUME NEW a \in Adaptors, NEW p \in Paths,
                      life[a] = "alive" /\ m_objects[a][p] # NULL /\ Slot(a) \notin contested,
                      ByName(NameOf[ServerOf[a]]) \cap created \subseteq alive,
                      \A c \in Rivals : ~Waits(c, NameOf[ServerOf[a]]),
                      NEW member \in Vtbl[InterfaceName[a]]
               PROVE  Call(NameOf[ServerOf[a]], p, InterfaceName[a], member)
                        = <<"call", m_objects[a][p]>>
    BY DEF ServedByName
  <2> DEFINE n == NameOf[ServerOf[a]]
  <2>1. ServerOf[a] \in alive /\ ServerOf[a] \in Servers
    BY <1>1, ConstantsAssumption DEF IInv, TablesConsistent
  <2>2. n \in Names /\ ServerOf[a] \in ByName(n)
    BY <2>1, ServiceAssumption DEF ByName
  <2>3. Waits(Here, n)
    BY <1>1, <2>1, <2>2 DEF NInv, NamesRight
  <2>4. Owner(n) = Here
    <3>1. queues[n] \in Seq(Connections)
      BY <1>1, <2>2 DEF NInv, QueuesRight, ServiceTypeOK
    <3>2. Len(queues[n]) \in Nat /\ Len(queues[n]) # 0 /\ queues[n] # <<>>
      BY <2>3, <3>1, LenProperties, EmptySeq DEF Waits, Contains
    <3>3. queues[n][1] \in Connections /\ Waits(queues[n][1], n)
      BY <3>1, <3>2, ElementOfSeq DEF Waits, Contains
    <3> QED
      BY <3>2, <3>3 DEF Owner, Connections
  <2>5. Answer(p, InterfaceName[a], member) = <<"call", m_objects[a][p]>>
    BY <1>1, IInvAnswers DEF Reachable
  <2> QED
    BY <2>4, <2>5 DEF Call
<1> QED
  BY <1>1, NamesInductive, ServiceKeepsTables, Inductive, PTL

(* No owner of a name is ousted and nobody who waits is overtaken.         *)
THEOREM OwnersAreSteady == ServiceSpec => OwnerSteady
<1> DEFINE Steady == \A n \in Names, c \in Connections : Owner(n) = c /\ Owner(n)' # c =>
             /\ ~Waits(c, n)'
             /\ Owner(n)' = IF Len(queues[n]) = 1 THEN NULL ELSE queues[n][2]
<1>1. NInv /\ [ServiceNext]_serviceVars => [Steady]_serviceVars
  <2> SUFFICES ASSUME NInv, ServiceNext, NEW n \in Names, NEW c \in Connections,
                      Owner(n) = c, Owner(n)' # c
               PROVE  /\ ~Waits(c, n)'
                      /\ Owner(n)' = IF Len(queues[n]) = 1 THEN NULL ELSE queues[n][2]
    OBVIOUS
  <2>1. queues[n] # <<>> /\ queues[n][1] = c
    BY ServiceTypes DEF Owner
  <2>2. queues \in [Names -> Seq(Connections)] /\ QueuesRight
    BY DEF NInv, QueuesRight, ServiceTypeOK
  <2>3. PICK d \in Connections, m \in Names :
               \/ queues' = [queues EXCEPT ![m] = Requested(d, m)]
               \/ queues' = [queues EXCEPT ![m] = Released(d, m)]
    <3>1. queues' # queues
      BY DEF Owner
    <3>2. \A s \in Servers : NameOf[s] \in Names
      BY ServiceAssumption
    <3> QED
      BY <3>1, <3>2, ServiceTypes DEF ServiceNext, Serve, Retire, TablesChange,
         RivalRequests, RivalReleases, Connections
  <2>4. m = n
    BY <2>2, <2>3 DEF Owner
  <2>5. /\ queues[n] # <<>> => Requested(d, n) # <<>> /\ Requested(d, n)[1] = queues[n][1]
        /\ \A e : Contains(Released(d, n), e) <=> Waits(e, n) /\ e # d
        /\ queues[n] # <<>> /\ queues[n][1] # d =>
             Released(d, n) # <<>> /\ Released(d, n)[1] = queues[n][1]
        /\ queues[n] # <<>> /\ queues[n][1] = d =>
             IF Len(queues[n]) = 1 THEN Released(d, n) = <<>>
             ELSE Released(d, n) # <<>> /\ Released(d, n)[1] = queues[n][2]
    BY <2>2, QueueSteps
  <2>6. queues'[n] # Requested(d, n)
    BY <2>1, <2>5 DEF Owner
  <2>7. queues'[n] = Released(d, n) /\ d = c
    BY <2>1, <2>2, <2>3, <2>4, <2>5, <2>6 DEF Owner
  <2> QED
    BY <2>1, <2>5, <2>7 DEF Owner, Waits
<1> QED
  BY <1>1, NamesInductive, PTL DEF ServiceSpec, OwnerSteady

=============================================================================
