----------------------------- MODULE IdlProofs -----------------------------
(***************************************************************************)
(* For every directory of IDL files and every order and overlap of the     *)
(* runs: a completed run's adaptors and proxies are whole and its own      *)
(* where no other run sees the interface, failed runs leave nothing else   *)
(* than what they had begun, and what is usable of all that. It follows    *)
(* from one invariant: an output is pending, open or written by a run, in  *)
(* that order and once. What an adaptor's table holds is by induction on   *)
(* the number of modules.                                                  *)
(***************************************************************************)
EXTENDS IdlBackend, Integers, WellFoundedInduction, SequenceTheorems, TLAPS

(* An output has a text by a run only after that run has opened and closed *)
(* it, and the text is whole unless the visitor raised.                    *)
Written ==
  \A f \in DOMAIN dir, o \in Outputs : text[o] # NULL =>
    \A t \in text[o] : t.by = f =>
      /\ o \notin pending[f]
      /\ open[f] # o
      /\ t.whole = ~RaisesAt(f, o)
      /\ RaisesAt(f, o) => f \in aborted

(* The outputs still to come are the run's; the open one is not among      *)
(* them.                                                                   *)
Progress ==
  \A f \in DOMAIN dir :
    /\ pending[f] \subseteq Generated(f)
    /\ open[f] # NULL => open[f] \in Generated(f) \ pending[f] /\ text[open[f]] # NULL
    /\ f \in aborted => BadPragma(f) \/ \E o \in Generated(f) : RaisesAt(f, o)

(* What only the run of f generates has only its text.                     *)
Own(f, o) == o \in Generated(f) /\ \A g \in DOMAIN dir \ {f} : o \notin Generated(g)

OwnWritten ==
  \A f \in DOMAIN dir, o \in Outputs : Own(f, o) =>
    \/ o \in pending[f] /\ text[o] = NULL
    \/ open[f] = o /\ text[o] = {}
    \/ /\ o \notin pending[f] /\ open[f] # o
       /\ text[o] = {[by |-> f, whole |-> ~RaisesAt(f, o)]}

(* A text is in an output of the run it is by.                             *)
Generates == \A o \in Outputs : text[o] # NULL => \A t \in text[o] : o \in Generated(t.by)

IInv == TypeOK /\ Written /\ Progress /\ OwnWritten /\ Generates

-----------------------------------------------------------------------------
LEMMA KindsListed ==
  ToSet(Kinds) = {"hpp", "adaptor.hpp", "adaptor.cpp", "proxy.hpp", "proxy.cpp", "util.hpp"}
<1>1. DOMAIN Kinds = {1, 2, 3, 4, 5, 6}
  BY DEF Kinds
<1>2. ToSet(Kinds) = {Kinds[1], Kinds[2], Kinds[3], Kinds[4], Kinds[5], Kinds[6]}
  BY <1>1 DEF ToSet
<1> QED BY <1>2 DEF Kinds

(* A run generates outputs, and sees the interfaces of its own file.       *)
LEMMA GeneratedAreOutputs ==
  ASSUME dir \in Directories, NEW f \in DOMAIN dir
  PROVE  /\ Generated(f) \subseteq Outputs
         /\ Declared(f) \subseteq Interfaces(f)
         /\ f \in Names
<1>1. DOMAIN dir \subseteq Names /\ \A g \in DOMAIN dir : Declared(g) \subseteq Names
  BY IdlAssumption DEF Declared, Modules
<1>2. Interfaces(f) \subseteq Names
  BY <1>1 DEF Interfaces, Visible
<1>3. f \in Visible(f)
  BY DEF Visible
<1>4. Declared(f) \subseteq Interfaces(f)
  BY <1>3 DEF Interfaces
<1> QED BY <1>1, <1>2, <1>4, KindsListed DEF Generated, Outputs, PerInterface

-----------------------------------------------------------------------------
LEMMA InitEstablishes == Init => IInv
<1> SUFFICES ASSUME Init PROVE IInv
  OBVIOUS
<1>1. \A f \in DOMAIN dir : Generated(f) \subseteq Outputs
  BY GeneratedAreOutputs DEF Init
<1>2. TypeOK
  BY <1>1 DEF Init, TypeOK
<1>3. Written
  BY DEF Init, Written
<1>4. Progress
  BY DEF Init, Progress
<1>5. OwnWritten
  BY DEF Init, OwnWritten, Own
<1>6. Generates
  BY DEF Init, Generates
<1> QED BY <1>2, <1>3, <1>4, <1>5, <1>6 DEF IInv

(* What the visitors make of a file does not change.                       *)
LEMMA FixedFiles ==
  ASSUME UNCHANGED dir, NEW f, NEW o
  PROVE  /\ Generated(f)' = Generated(f)
         /\ RaisesAt(f, o)' = RaisesAt(f, o)
         /\ BadPragma(f)' = BadPragma(f)
         /\ Own(f, o)' = Own(f, o)
<1>1. /\ \A g : Modules(g)' = Modules(g)
      /\ Visible(f)' = Visible(f)
  BY DEF Modules, Visible
<1>2. \A g : Declared(g)' = Declared(g)
  BY <1>1 DEF Declared
<1>3. \A g : Generated(g)' = Generated(g)
  BY DEF Generated, Interfaces, HasStructs, Visible, Declared, Modules
<1>4. RaisesAt(f, o)' = RaisesAt(f, o)
  BY <1>1 DEF RaisesAt
<1>5. BadPragma(f)' = BadPragma(f)
  BY DEF BadPragma
<1> QED BY <1>3, <1>4, <1>5 DEF Own

LEMMA FixedGenerated == ASSUME UNCHANGED dir PROVE \A g : Generated(g)' = Generated(g)
  BY FixedFiles

LEMMA SplitFailsKeeps ==
  ASSUME IInv, NEW f \in DOMAIN dir, SplitFails(f)
  PROVE  IInv'
<1>1. TypeOK'
  BY DEF IInv, TypeOK, SplitFails
<1>2. Written'
  BY FixedFiles DEF IInv, Written, SplitFails
<1>3. Progress'
  BY FixedFiles DEF IInv, Progress, SplitFails
<1>4. OwnWritten'
  BY FixedFiles DEF IInv, OwnWritten, SplitFails
<1>5. Generates'
  <2>1. UNCHANGED <<dir, text>> /\ Generates
    BY DEF IInv, SplitFails
  <2> QED BY <2>1, FixedGenerated DEF Generates
<1> QED BY <1>1, <1>2, <1>3, <1>4, <1>5 DEF IInv

LEMMA OpenKeeps ==
  ASSUME IInv, NEW f \in DOMAIN dir, NEW o \in Outputs, Open(f, o)
  PROVE  IInv'
<1>1. /\ UNCHANGED <<dir, aborted>> /\ open[f] = NULL /\ o \in pending[f]
      /\ pending' = [pending EXCEPT ![f] = @ \ {o}]
      /\ open' = [open EXCEPT ![f] = o]
      /\ text' = [text EXCEPT ![o] = {}]
  BY DEF Open
<1>2. /\ dir \in Directories
      /\ pending \in [DOMAIN dir -> SUBSET Outputs]
      /\ open \in [DOMAIN dir -> Outputs \cup {NULL}]
  BY DEF IInv, TypeOK
<1>. HIDE DEF Outputs
<1>3. TypeOK'
  BY <1>1 DEF IInv, TypeOK
<1>4. Written'
  <2> SUFFICES ASSUME NEW g \in DOMAIN dir, NEW q \in Outputs, NEW t \in text'[q], text'[q] # NULL,
                      t.by = g
               PROVE  /\ q \notin pending'[g]
                      /\ open'[g] # q
                      /\ t.whole = ~RaisesAt(g, q)
                      /\ RaisesAt(g, q) => g \in aborted
    BY <1>1, FixedFiles DEF Written
  <2>1. q # o /\ text'[q] = text[q]
    BY <1>1, <1>2 DEF IInv, TypeOK
  <2>2. /\ q \notin pending[g] /\ open[g] # q
        /\ t.whole = ~RaisesAt(g, q)
        /\ RaisesAt(g, q) => g \in aborted
    <3>1. t \in text[q] /\ text[q] # NULL
      BY <2>1
    <3> QED BY <3>1, Zenon DEF IInv, Written
  <2>3. q \notin pending'[g] /\ open'[g] # q
    BY <1>1, <1>2, <2>1, <2>2
  <2> QED BY <2>2, <2>3
<1>5. Progress'
  <2> SUFFICES ASSUME NEW g \in DOMAIN dir
               PROVE  /\ pending'[g] \subseteq Generated(g)
                      /\ open'[g] # NULL => /\ open'[g] \in Generated(g) \ pending'[g]
                                            /\ text'[open'[g]] # NULL
                      /\ g \in aborted => BadPragma(g) \/ \E q \in Generated(g) : RaisesAt(g, q)
    BY <1>1, FixedFiles DEF Progress
  <2>1. text'[o] # NULL /\ \A q \in Outputs \ {o} : text'[q] = text[q]
    BY <1>1, <1>2, NullAssumption DEF IInv, TypeOK
  <2>2. /\ pending[g] \subseteq Generated(g)
        /\ open[g] # NULL => open[g] \in Generated(g) \ pending[g] /\ text[open[g]] # NULL
        /\ g \in aborted => BadPragma(g) \/ \E q \in Generated(g) : RaisesAt(g, q)
    BY Zenon DEF IInv, Progress
  <2> QED BY <1>1, <1>2, <2>1, <2>2
<1>6. OwnWritten'
  <2> SUFFICES ASSUME NEW g \in DOMAIN dir, NEW q \in Outputs, Own(g, q)
               PROVE  \/ q \in pending'[g] /\ text'[q] = NULL
                      \/ open'[g] = q /\ text'[q] = {}
                      \/ /\ q \notin pending'[g] /\ open'[g] # q
                         /\ text'[q] = {[by |-> g, whole |-> ~RaisesAt(g, q)]}
    BY <1>1, FixedFiles DEF OwnWritten
  <2>1. CASE q = o
    <3>1. o \in Generated(f)
      BY <1>1 DEF IInv, Progress
    <3>2. g = f
      BY <2>1, <3>1 DEF Own
    <3> QED BY <1>1, <1>2, <2>1, <3>2 DEF IInv, TypeOK
  <2>2. CASE q # o
    <3>1. text'[q] = text[q] /\ (q \in pending'[g] <=> q \in pending[g])
      BY <1>1, <1>2, <2>2 DEF IInv, TypeOK
    <3>2. open'[g] = q <=> open[g] = q
      BY <1>1, <1>2, <2>2, NullAssumption
    <3>3. \/ q \in pending[g] /\ text[q] = NULL
          \/ open[g] = q /\ text[q] = {}
          \/ /\ q \notin pending[g] /\ open[g] # q
             /\ text[q] = {[by |-> g, whole |-> ~RaisesAt(g, q)]}
      BY Zenon DEF IInv, OwnWritten
    <3> QED BY <3>1, <3>2, <3>3
  <2> QED BY <2>1, <2>2
<1>7. Generates'
  <2> SUFFICES ASSUME NEW q \in Outputs, text'[q] # NULL, NEW t \in text'[q] PROVE q \in Generated(t.by)
    BY <1>1, FixedGenerated DEF Generates
  <2>1. q # o /\ text'[q] = text[q]
    BY <1>1, <1>2 DEF IInv, TypeOK
  <2> QED BY <2>1, Zenon DEF IInv, Generates
<1> QED BY <1>3, <1>4, <1>5, <1>6, <1>7 DEF IInv

LEMMA CloseKeeps ==
  ASSUME IInv, NEW f \in DOMAIN dir, Close(f)
  PROVE  IInv'
<1> DEFINE o == open[f]
           new == [by |-> f, whole |-> ~RaisesAt(f, o)]
<1>1. /\ UNCHANGED <<dir, pending>> /\ o # NULL /\ f \notin aborted
      /\ text' = [text EXCEPT ![o] = @ \cup {new}]
      /\ open' = [open EXCEPT ![f] = NULL]
      /\ aborted' = IF RaisesAt(f, o) THEN aborted \cup {f} ELSE aborted
  BY DEF Close
<1>2. /\ dir \in Directories
      /\ pending \in [DOMAIN dir -> SUBSET Outputs]
      /\ open \in [DOMAIN dir -> Outputs \cup {NULL}]
      /\ text \in [Outputs -> {NULL} \cup SUBSET [by : DOMAIN dir, whole : BOOLEAN]]
      /\ aborted \subseteq DOMAIN dir
  BY DEF IInv, TypeOK
<1>3. o \in Outputs /\ o \in Generated(f) \ pending[f] /\ text[o] # NULL
  <2>1. o \in Outputs
    BY <1>1, <1>2
  <2>2. o \in Generated(f) \ pending[f] /\ text[o] # NULL
    BY <1>1, Zenon DEF IInv, Progress
  <2> QED BY <2>1, <2>2
<1>4. new \in [by : DOMAIN dir, whole : BOOLEAN] /\ new.by = f /\ new.whole = ~RaisesAt(f, o)
  BY DEF RaisesAt
<1> HIDE DEF o, new
<1>5. /\ text'[o] = text[o] \cup {new}
      /\ \A q \in Outputs \ {o} : text'[q] = text[q]
      /\ open'[f] = NULL
      /\ \A g \in DOMAIN dir \ {f} : open'[g] = open[g]
  BY <1>1, <1>2, <1>3
<1>6. aborted \subseteq aborted' /\ (RaisesAt(f, o) => f \in aborted')
  BY <1>1
<1>7. TypeOK'
  <2>1. text' \in [Outputs -> {NULL} \cup SUBSET [by : DOMAIN dir, whole : BOOLEAN]]
    <3>1. text[o] \cup {new} \in SUBSET [by : DOMAIN dir, whole : BOOLEAN]
      BY <1>2, <1>3, <1>4
    <3> HIDE DEF Outputs
    <3> QED BY <1>1, <1>2, <3>1
  <2>2. open' \in [DOMAIN dir -> Outputs \cup {NULL}]
    BY <1>1, <1>2
  <2>3. aborted' \subseteq DOMAIN dir
    BY <1>1, <1>2
  <2> QED BY <1>1, <1>2, <2>1, <2>2, <2>3 DEF TypeOK
<1>8. Written'
  <2> SUFFICES ASSUME NEW g \in DOMAIN dir, NEW q \in Outputs, NEW t \in text'[q], text'[q] # NULL,
                      t.by = g
               PROVE  /\ q \notin pending[g]
                      /\ open'[g] # q
                      /\ t.whole = ~RaisesAt(g, q)
                      /\ RaisesAt(g, q) => g \in aborted'
    BY <1>1, FixedFiles DEF Written
  <2>1. CASE q = o /\ t = new
    <3>1. g = f
      BY <1>4, <2>1
    <3>2. open'[g] # q
      BY <1>1, <1>3, <1>5, <2>1, <3>1, NullAssumption
    <3> QED BY <1>3, <1>4, <1>6, <2>1, <3>1, <3>2
  <2>2. CASE ~(q = o /\ t = new)
    <3>1. t \in text[q] /\ text[q] # NULL
      BY <1>3, <1>5, <2>2
    <3>2. /\ q \notin pending[g] /\ open[g] # q
          /\ t.whole = ~RaisesAt(g, q)
          /\ RaisesAt(g, q) => g \in aborted
      BY <3>1, Zenon DEF IInv, Written
    <3>3. open'[g] # q
      BY <1>5, <3>2, NullAssumption
    <3> QED BY <1>6, <3>2, <3>3
  <2> QED BY <2>1, <2>2
<1>9. Progress'
  <2> SUFFICES ASSUME NEW g \in DOMAIN dir
               PROVE  /\ pending[g] \subseteq Generated(g)
                      /\ open'[g] # NULL => /\ open'[g] \in Generated(g) \ pending[g]
                                            /\ text'[open'[g]] # NULL
                      /\ g \in aborted' => BadPragma(g) \/ \E q \in Generated(g) : RaisesAt(g, q)
    BY <1>1, FixedFiles DEF Progress
  <2>1. /\ pending[g] \subseteq Generated(g)
        /\ open[g] # NULL => open[g] \in Generated(g) \ pending[g] /\ text[open[g]] # NULL
        /\ g \in aborted => BadPragma(g) \/ \E q \in Generated(g) : RaisesAt(g, q)
    BY Zenon DEF IInv, Progress
  <2>2. text'[o] # NULL
    <3>1. text'[o] \in SUBSET Texts
      BY <1>2, <1>3, <1>4, <1>5, GeneratedAreOutputs DEF Texts
    <3> QED BY <3>1, NullAssumption
  <2>3. open'[g] # NULL => open'[g] = open[g] /\ text'[open'[g]] # NULL
    BY <1>2, <1>5, <2>1, <2>2
  <2>4. g \in aborted' => g \in aborted \/ (g = f /\ RaisesAt(f, o))
    BY <1>1
  <2> QED BY <1>3, <2>1, <2>3, <2>4
<1>10. OwnWritten'
  <2> SUFFICES ASSUME NEW g \in DOMAIN dir, NEW q \in Outputs, Own(g, q)
               PROVE  \/ q \in pending[g] /\ text'[q] = NULL
                      \/ open'[g] = q /\ text'[q] = {}
                      \/ /\ q \notin pending[g] /\ open'[g] # q
                         /\ text'[q] = {[by |-> g, whole |-> ~RaisesAt(g, q)]}
    BY <1>1, FixedFiles DEF OwnWritten
  <2>1. \/ q \in pending[g] /\ text[q] = NULL
        \/ open[g] = q /\ text[q] = {}
        \/ /\ q \notin pending[g] /\ open[g] # q
           /\ text[q] = {[by |-> g, whole |-> ~RaisesAt(g, q)]}
    BY Zenon DEF IInv, OwnWritten
  <2>2. CASE q = o
    <3>1. g = f
      BY <1>3, <2>2 DEF Own
    <3>2. text[q] = {} /\ q \notin pending[g]
      BY <1>3, <2>1, <2>2, <3>1 DEF o
    <3>3. text'[q] = {[by |-> g, whole |-> ~RaisesAt(g, q)]}
      BY <1>5, <2>2, <3>1, <3>2 DEF new
    <3>4. open'[g] # q
      BY <1>5, <3>1, NullAssumption
    <3> QED BY <3>2, <3>3, <3>4
  <2>3. CASE q # o
    <3>1. text'[q] = text[q] /\ (open'[g] = q <=> open[g] = q)
      BY <1>5, <2>3, NullAssumption DEF o
    <3> QED BY <2>1, <3>1
  <2> QED BY <2>2, <2>3
<1>11. Generates'
  <2> SUFFICES ASSUME NEW q \in Outputs, text'[q] # NULL, NEW t \in text'[q] PROVE q \in Generated(t.by)
    BY <1>1, FixedGenerated DEF Generates
  <2>1. CASE q = o /\ t = new
    BY <1>3, <1>4, <2>1
  <2>2. CASE ~(q = o /\ t = new)
    <3>1. t \in text[q] /\ text[q] # NULL
      BY <1>3, <1>5, <2>2
    <3> QED BY <3>1, Zenon DEF IInv, Generates
  <2> QED BY <2>1, <2>2
<1> QED BY <1>7, <1>8, <1>9, <1>10, <1>11 DEF IInv

(* The invariant of any runs on any directory.                             *)
THEOREM Inductive == Spec => []IInv
<1>1. IInv /\ [Next]_vars => IInv'
  <2> SUFFICES ASSUME IInv, [Next]_vars PROVE IInv'
    OBVIOUS
  <2>1. ASSUME NEW f \in DOMAIN dir, SplitFails(f) PROVE IInv'
    BY <2>1, SplitFailsKeeps
  <2>2. ASSUME NEW f \in DOMAIN dir, Close(f) PROVE IInv'
    BY <2>2, CloseKeeps
  <2>3. ASSUME NEW f \in DOMAIN dir, NEW o \in Outputs, Open(f, o) PROVE IInv'
    BY <2>3, OpenKeeps
  <2>4. CASE UNCHANGED vars
    <3>1. TypeOK' /\ Written' /\ Progress' /\ OwnWritten'
      BY <2>4, FixedFiles DEF vars, IInv, TypeOK, Written, Progress, OwnWritten
    <3>2. Generates'
      <4>1. UNCHANGED <<dir, text>> /\ Generates
        BY <2>4 DEF vars, IInv
      <4> QED BY <4>1, FixedGenerated DEF Generates
    <3> QED BY <3>1, <3>2 DEF IInv
  <2> QED BY <2>1, <2>2, <2>3, <2>4 DEF Next
<1> QED BY InitEstablishes, <1>1, PTL DEF Spec

-----------------------------------------------------------------------------
(* What only a completed run generates is whole and its own.               *)
LEMMA OwnAreWhole ==
  ASSUME IInv, NEW f \in DOMAIN dir, Completed(f), NEW o \in Outputs, Own(f, o)
  PROVE  WrittenBy(o, f) /\ text[o] # NULL
<1>1. pending[f] = {} /\ open[f] = NULL /\ f \notin aborted
  BY DEF Completed, Ended
<1>2. text[o] = {[by |-> f, whole |-> ~RaisesAt(f, o)]}
  <2>1. \/ o \in pending[f] /\ text[o] = NULL
        \/ open[f] = o /\ text[o] = {}
        \/ text[o] = {[by |-> f, whole |-> ~RaisesAt(f, o)]}
    BY Zenon DEF IInv, OwnWritten
  <2>2. o \notin pending[f] /\ open[f] # o
    BY <1>1, NullAssumption
  <2> QED BY <2>1, <2>2, Zenon
<1>3. text[o] # NULL
  <2>1. f \in Names
    BY GeneratedAreOutputs DEF IInv, TypeOK
  <2>2. [by |-> f, whole |-> ~RaisesAt(f, o)] \in Texts
    BY <2>1 DEF RaisesAt, Texts
  <2>3. text[o] \in SUBSET Texts
    BY <1>2, <2>2, Zenon
  <2> QED BY <2>3, NullAssumption
<1>4. ~RaisesAt(f, o)
  <2>1. PICK t \in text[o] : t.by = f
    BY <1>2
  <2>2. RaisesAt(f, o) => f \in aborted
    BY <1>3, <2>1, Zenon DEF IInv, Written
  <2> QED BY <1>1, <2>2
<1> QED BY <1>2, <1>3, <1>4 DEF WrittenBy

(* When all runs have ended, an interface that only one file's run sees    *)
(* has its adaptor and proxy from that run, whole - if it completed.       *)
THEOREM OutputsAlwaysKept == Spec => []OutputsKept
<1>1. ASSUME IInv, AllEnded, NEW f \in DOMAIN dir, Completed(f), NEW i \in Declared(f),
             \A g \in DOMAIN dir \ {f} : i \notin Interfaces(g), NEW k \in PerInterface
      PROVE  WrittenBy(<<i, k>>, f)
  <2> DEFINE o == <<i, k>>
  <2>1. /\ \A g \in DOMAIN dir : Generated(g) \subseteq Outputs
        /\ i \in Interfaces(f)
    BY <1>1, GeneratedAreOutputs DEF IInv, TypeOK
  <2>2. o \in Generated(f)
    BY <2>1 DEF Generated
  <2>3. \A g \in DOMAIN dir \ {f} : o \notin Generated(g)
    BY <1>1 DEF Generated, PerInterface
  <2>4. o \in Outputs /\ Own(f, o)
    BY <2>1, <2>2, <2>3 DEF Own
  <2> HIDE DEF o
  <2>5. WrittenBy(o, f)
    BY <1>1, <2>4, OwnAreWhole
  <2> QED BY <2>5 DEF o
<1>2. IInv => OutputsKept
  BY <1>1 DEF OutputsKept
<1> QED BY <1>2, Inductive, PTL

(* Failed runs had a reason in their own file, and left nothing but what   *)
(* they had begun; no text is cut short but by them, and no adaptor's.     *)
THEOREM FailuresStayContained == Spec => []FailuresContained
<1>1. ASSUME IInv, NEW f \in aborted
      PROVE  /\ \/ BadPragma(f)
                \/ dir[f].raises
                \/ \E op \in Operations(f) : op.comment = "malformed"
             /\ \A o \in pending[f] : text[o] = NULL \/ \A t \in text[o] : t.by # f
  <2>1. f \in DOMAIN dir /\ dir \in Directories /\ pending[f] \subseteq Outputs
    BY <1>1 DEF IInv, TypeOK
  <2>2. BadPragma(f) \/ \E o \in Generated(f) : RaisesAt(f, o)
    BY <1>1, <2>1, Zenon DEF IInv, Progress
  <2>3. ASSUME NEW o \in Generated(f), RaisesAt(f, o)
        PROVE  dir[f].raises \/ \E op \in Operations(f) : op.comment = "malformed"
    <3>1. o[1] \in Names
      BY <2>1, <2>3, GeneratedAreOutputs DEF Outputs
    <3> QED BY <2>3, <3>1 DEF RaisesAt, Operations
  <2>4. ASSUME NEW o \in pending[f], text[o] # NULL, NEW t \in text[o] PROVE t.by # f
    BY <1>1, <2>1, <2>4, Zenon DEF IInv, Written
  <2>5. \/ BadPragma(f)
        \/ dir[f].raises
        \/ \E op \in Operations(f) : op.comment = "malformed"
    BY <2>2, <2>3, Zenon
  <2> QED BY <2>4, <2>5
<1>2. ASSUME IInv, NEW o \in Outputs, text[o] # NULL, NEW t \in text[o], ~t.whole
      PROVE  t.by \in aborted /\ o[2] \in {"hpp", "proxy.cpp"}
  <2>1. t.by \in DOMAIN dir
    BY <1>2 DEF IInv, TypeOK
  <2>2. t.whole = ~RaisesAt(t.by, o) /\ (RaisesAt(t.by, o) => t.by \in aborted)
    BY <1>2, <2>1, Zenon DEF IInv, Written
  <2> QED BY <1>2, <2>2 DEF RaisesAt
<1>3. IInv => AbortHasCause
  BY <1>1 DEF AbortHasCause
<1>4. IInv => CutShort
  BY <1>2 DEF CutShort
<1>5. IInv => FailuresContained
  BY <1>3, <1>4 DEF IInv, FailuresContained
<1> QED BY <1>5, Inductive, PTL

-----------------------------------------------------------------------------
(* Induction over numbers, as membership of a set.                         *)
LEMMA Least == \A S \in SUBSET Nat : S # {} => \E x \in S : \A y \in S : x <= y
<1> SUFFICES ASSUME NEW S \in SUBSET Nat, S # {} PROVE \E x \in S : \A y \in S : x <= y
  OBVIOUS
<1>1. PICK x \in S : \A y \in S : <<y, x>> \notin OpToRel(<, Nat)
  BY NatLessThanWellFounded, WFMin
<1>2. \A y \in S : ~(y < x)
  BY <1>1 DEF OpToRel
<1> QED BY <1>2

LEMMA Steps ==
  ASSUME NEW n \in Nat, NEW S, 1 \in S, \A m \in 1 .. n - 1 : m \in S => m + 1 \in S
  PROVE  \A m \in 1 .. n : m \in S
<1> SUFFICES ASSUME \E m \in 1 .. n : m \notin S PROVE FALSE
  OBVIOUS
<1> DEFINE Out == {k \in 1 .. n : k \notin S}
<1>1. PICK m \in Out : \A k \in Out : m <= k
  <2>1. Out \in SUBSET Nat /\ Out # {}
    OBVIOUS
  <2> HIDE DEF Out
  <2> QED BY <2>1, Least
<1>2. m # 1 /\ m - 1 \in 1 .. n - 1
  BY <1>1
<1>3. m - 1 \in S
  BY <1>1, <1>2
<1> QED BY <1>1, <1>2, <1>3

(* A sequence of sequences one after another has the elements of all.      *)
LEMMA ConcatRange ==
  ASSUME NEW T, NEW s \in Seq(T), NEW t \in Seq(T)
  PROVE  s \o t \in Seq(T) /\ ToSet(s \o t) = ToSet(s) \cup ToSet(t)
<1>1. /\ s \o t \in Seq(T) /\ Len(s) \in Nat /\ Len(t) \in Nat /\ Len(s \o t) = Len(s) + Len(t)
      /\ DOMAIN s = 1 .. Len(s) /\ DOMAIN t = 1 .. Len(t) /\ DOMAIN (s \o t) = 1 .. Len(s) + Len(t)
  OBVIOUS
<1>2. /\ \A j \in 1 .. Len(s) : (s \o t)[j] = s[j]
      /\ \A j \in 1 .. Len(t) : (s \o t)[Len(s) + j] = t[j]
  OBVIOUS
<1> DEFINE u == s \o t
<1> HIDE DEF u
<1>3. \A x \in ToSet(s) : x \in ToSet(u)
  BY <1>1, <1>2 DEF ToSet, u
<1>4. \A x \in ToSet(t) : x \in ToSet(u)
  <2> TAKE x \in ToSet(t)
  <2>1. PICK j \in 1 .. Len(t) : t[j] = x
    BY <1>1 DEF ToSet
  <2>2. Len(s) + j \in DOMAIN u /\ u[Len(s) + j] = x
    BY <1>1, <1>2, <2>1 DEF u
  <2> QED BY <2>2 DEF ToSet
<1>5. \A x \in ToSet(u) : x \in ToSet(s) \cup ToSet(t)
  <2> TAKE x \in ToSet(u)
  <2>1. PICK j \in 1 .. Len(s) + Len(t) : u[j] = x
    BY <1>1 DEF ToSet, u
  <2>2. CASE j <= Len(s)
    <3>1. j \in DOMAIN s /\ s[j] = x
      BY <1>1, <1>2, <2>1, <2>2 DEF u
    <3> QED BY <3>1 DEF ToSet
  <2>3. CASE j > Len(s)
    <3>1. j - Len(s) \in 1 .. Len(t) /\ Len(s) + (j - Len(s)) = j
      BY <1>1, <2>1, <2>3
    <3>2. j - Len(s) \in DOMAIN t /\ t[j - Len(s)] = x
      BY <1>1, <1>2, <2>1, <3>1 DEF u
    <3> QED BY <3>2 DEF ToSet
  <2> QED BY <1>1, <2>1, <2>2, <2>3
<1> QED BY <1>1, <1>3, <1>4, <1>5 DEF u

LEMMA FlattenRange ==
  ASSUME NEW T, NEW n \in Nat \ {0}, NEW seqs, seqs = [k \in 1 .. n |-> seqs[k]],
         \A k \in 1 .. n : seqs[k] \in Seq(T)
  PROVE  /\ FlattenSeq(seqs) \in Seq(T)
         /\ \A x : x \in ToSet(FlattenSeq(seqs)) <=> \E k \in 1 .. n : x \in ToSet(seqs[k])
         /\ n = 1 => FlattenSeq(seqs) = seqs[1]
<1> DEFINE From(g, m) == IF m = 1 THEN seqs[m] ELSE g[m - 1] \o seqs[m]
           Is(g, m) == g = [i \in 1 .. m |-> From(g, i)]
           S == {m \in Nat : \E g : Is(g, m)}
<1>1. 1 \in S
  <2>1. Is([i \in 1 .. 1 |-> seqs[i]], 1)
    OBVIOUS
  <2> QED BY <2>1
<1>2. ASSUME NEW m \in 1 .. n - 1, m \in S PROVE m + 1 \in S
  <2>1. PICK g : Is(g, m)
    BY <1>2
  <2> DEFINE h == [i \in 1 .. m + 1 |-> From(g, i)]
  <2>2. \A i \in 1 .. m : h[i] = g[i]
    <3> TAKE i \in 1 .. m
    <3>1. g[i] = From(g, i)
      BY <2>1
    <3> QED BY <3>1
  <2>3. \A i \in 1 .. m + 1 : From(h, i) = From(g, i)
    <3> HIDE DEF h
    <3> TAKE i \in 1 .. m + 1
    <3>1. i # 1 => h[i - 1] = g[i - 1]
      BY <2>2
    <3> QED BY <3>1
  <2> HIDE DEF From
  <2>4. h = [i \in 1 .. m + 1 |-> From(h, i)]
    <3>1. [i \in 1 .. m + 1 |-> From(h, i)] = [i \in 1 .. m + 1 |-> From(g, i)]
      BY <2>3
    <3> QED BY <3>1
  <2>5. Is(h, m + 1)
    BY <2>4
  <2>6. m + 1 \in Nat
    BY <1>2
  <2> HIDE DEF Is, h
  <2> QED BY <2>5, <2>6
<1>3. \E g : Is(g, n)
  <2> HIDE DEF Is
  <2>1. n \in S
    <3> HIDE DEF S
    <3> QED BY <1>1, <1>2, Steps
  <2> QED BY <2>1
<1>4. Len(seqs) = n
  <2>1. seqs \in Seq({seqs[k] : k \in 1 .. n}) /\ DOMAIN seqs = 1 .. n
    OBVIOUS
  <2> QED BY <2>1
<1> DEFINE f == CHOOSE g : Is(g, n)
<1>5. Is(f, n)
  <2> HIDE DEF Is
  <2> QED BY <1>3
<1>6. FlattenSeq(seqs) = f[n]
  BY <1>4 DEF FlattenSeq
<1> HIDE DEF f
<1>7. \A i \in 1 .. n : f[i] = From(f, i)
  BY <1>5
<1> HIDE DEF Is
<1> DEFINE Elements(m) == \A x : x \in ToSet(f[m]) <=> \E k \in 1 .. m : x \in ToSet(seqs[k])
           R == {m \in 1 .. n : f[m] \in Seq(T) /\ Elements(m)}
<1>8. 1 \in R
  <2>1. f[1] = seqs[1] /\ 1 \in 1 .. n
    BY <1>7
  <2>2. \A k : k \in 1 .. 1 <=> k = 1
    OBVIOUS
  <2> QED BY <2>1, <2>2
<1>9. ASSUME NEW m \in 1 .. n - 1, m \in R PROVE m + 1 \in R
  <2>0. f[m] \in Seq(T) /\ Elements(m)
    BY <1>9
  <2>1. m + 1 \in 1 .. n /\ m + 1 # 1 /\ (m + 1) - 1 = m
    <3> HIDE DEF R
    <3> QED OBVIOUS
  <2>2. f[m + 1] = f[m] \o seqs[m + 1]
    BY <1>7, <2>1
  <2>3. f[m + 1] \in Seq(T) /\ ToSet(f[m + 1]) = ToSet(f[m]) \cup ToSet(seqs[m + 1])
    BY <2>0, <2>1, <2>2, ConcatRange
  <2>4. \A k : k \in 1 .. m + 1 <=> k \in 1 .. m \/ k = m + 1
    OBVIOUS
  <2>5. Elements(m + 1)
    BY <2>0, <2>3, <2>4
  <2> HIDE DEF Elements
  <2> QED BY <2>1, <2>3, <2>5
<1>10. n \in R
  <2> HIDE DEF R
  <2> QED BY <1>8, <1>9, Steps
<1> QED BY <1>6, <1>7, <1>10

(* The modules of a file in a directory, and the operations in them.       *)
LEMMA FilesAre ==
  ASSUME dir \in Directories, NEW f \in DOMAIN dir
  PROVE  /\ f \in Names
         /\ DOMAIN dir[f].modules = 1 .. Len(dir[f].modules) /\ Len(dir[f].modules) \in Nat
         /\ \A m : m \in Modules(f) <=> \E n \in DOMAIN dir[f].modules : m = dir[f].modules[n]
         /\ \A j, k \in DOMAIN dir[f].modules :
              j # k /\ dir[f].modules[j].id = dir[f].modules[k].id =>
                DOMAIN dir[f].modules[j].interfaces \cap DOMAIN dir[f].modules[k].interfaces = {}
<1>1. f \in Names /\ dir[f].modules \in Seq(ToSet(dir[f].modules))
  BY IdlAssumption
<1>2. \A j, k \in DOMAIN dir[f].modules :
        j # k /\ dir[f].modules[j].id = dir[f].modules[k].id =>
          DOMAIN dir[f].modules[j].interfaces \cap DOMAIN dir[f].modules[k].interfaces = {}
  BY IdlAssumption
<1>3. DOMAIN dir[f].modules = 1 .. Len(dir[f].modules) /\ Len(dir[f].modules) \in Nat
  <2> DEFINE s == dir[f].modules  T == ToSet(s)
  <2>1. s \in Seq(T)
    BY <1>1
  <2> HIDE DEF s, T
  <2>2. DOMAIN s = 1 .. Len(s) /\ Len(s) \in Nat
    BY <2>1
  <2> QED BY <2>2 DEF s
<1> QED BY <1>1, <1>2, <1>3 DEF Modules, ToSet

LEMMA OpsAre ==
  ASSUME dir \in Directories, NEW f \in DOMAIN dir, NEW m \in Modules(f), NEW i
  PROVE  /\ OpsIn(m, i) \in Seq(ToSet(OpsIn(m, i)))
         /\ DOMAIN OpsIn(m, i) = 1 .. Len(OpsIn(m, i))
         /\ \A j, k \in DOMAIN OpsIn(m, i) : OpsIn(m, i)[j].id = OpsIn(m, i)[k].id => j = k
<1> DEFINE ops == OpsIn(m, i)
<1>1. ops \in Seq(ToSet(ops)) /\ \A j, k \in DOMAIN ops : ops[j].id = ops[k].id => j = k
  <2>1. CASE i \in DOMAIN m.interfaces
    <3>1. ops = m.interfaces[i].ops
      BY <2>1 DEF OpsIn
    <3>2. LET o == m.interfaces[i].ops
          IN  o \in Seq(ToSet(o)) /\ \A j, k \in DOMAIN o : o[j].id = o[k].id => j = k
      BY <2>1, IdlAssumption DEF Modules
    <3> QED BY <3>1, <3>2
  <2>2. CASE i \notin DOMAIN m.interfaces
    BY <2>2 DEF OpsIn
  <2> QED BY <2>1, <2>2
<1> HIDE DEF ops
<1>2. DOMAIN ops = 1 .. Len(ops)
  BY <1>1
<1> QED BY <1>1, <1>2 DEF ops

(* A vtbl has the operations that the modules so far declare.              *)
LEMMA VtblIs ==
  ASSUME dir \in Directories, NEW f \in DOMAIN dir, NEW i, NEW n \in DOMAIN dir[f].modules
  PROVE  /\ \A x : x \in ToSet(Vtbl(f, i, n)) <=>
                     \E k \in 1 .. n : x \in ToSet(Ids(OpsIn(dir[f].modules[k], i)))
         /\ n = 1 => Vtbl(f, i, n) = Ids(OpsIn(dir[f].modules[1], i))
<1> DEFINE seqs == [k \in 1 .. n |-> Ids(OpsIn(dir[f].modules[k], i))]
           T == UNION {ToSet(seqs[k]) : k \in 1 .. n}
<1>1. n \in Nat \ {0} /\ 1 .. n \subseteq DOMAIN dir[f].modules
  BY FilesAre
<1>2. \A k \in 1 .. n : seqs[k] \in Seq(T)
  <2> TAKE k \in 1 .. n
  <2> DEFINE ops == OpsIn(dir[f].modules[k], i)
  <2>1. dir[f].modules[k] \in Modules(f)
    BY <1>1, FilesAre
  <2>2. ops \in Seq(ToSet(ops))
    BY <2>1, OpsAre
  <2> DEFINE O == ToSet(ops)  ids == Ids(ops)
  <2>3. seqs[k] = ids /\ ToSet(ids) \subseteq T
    OBVIOUS
  <2>4. DOMAIN ids = DOMAIN ops /\ \A j \in DOMAIN ops : ids[j] = ops[j].id
    BY DEF Ids
  <2>5. ids = [j \in DOMAIN ops |-> ids[j]]
    BY DEF Ids
  <2> HIDE DEF T, seqs, ops, ids
  <2>6. DOMAIN ops = 1 .. Len(ops) /\ Len(ops) \in Nat
    BY <2>2
  <2>7. \A j \in 1 .. Len(ops) : ids[j] \in T
    BY <2>3, <2>4, <2>6 DEF ToSet
  <2> QED BY <2>3, <2>5, <2>6, <2>7
<1>3. seqs = [k \in 1 .. n |-> seqs[k]] /\ \A k \in 1 .. n : seqs[k] = Ids(OpsIn(dir[f].modules[k], i))
  OBVIOUS
<1>4. Vtbl(f, i, n) = FlattenSeq(seqs)
  BY DEF Vtbl
<1> HIDE DEF seqs, T
<1>5. /\ \A x : x \in ToSet(FlattenSeq(seqs)) <=> \E k \in 1 .. n : x \in ToSet(seqs[k])
      /\ n = 1 => FlattenSeq(seqs) = seqs[1]
  BY <1>1, <1>2, <1>3, FlattenRange
<1> QED BY <1>1, <1>3, <1>4, <1>5

(* In whatever the runs leave of any directory: what a proxy calls is in   *)
(* the table of the adaptor beside it, and both order arguments alike.     *)
THEOREM WiresAlwaysAgree == Spec => []WireAgrees
<1>1. ASSUME dir \in Directories, NEW f \in DOMAIN dir, NEW i, NEW n \in DOMAIN dir[f].modules,
             NEW op \in ToSet(OpsIn(dir[f].modules[n], i))
      PROVE  LET entries == {k \in DOMAIN Vtbl(f, i, n) : Vtbl(f, i, n)[k] = op.id} IN
               /\ entries # {}
               /\ Len(dir[f].modules) = 1 => \E k \in entries : entries = {k}
               /\ ProxySends(op) = AdaptorReads(op)
               /\ AdaptorReplies(op) = ProxyReads(op)
  <2> DEFINE ops == OpsIn(dir[f].modules[n], i)  table == Vtbl(f, i, n)
             entries == {k \in DOMAIN table : table[k] = op.id}
  <2>1. PICK j \in DOMAIN ops : ops[j] = op
    BY <1>1 DEF ToSet
  <2>2. op.id \in ToSet(Ids(ops)) /\ n \in 1 .. n
    BY <1>1, <2>1, FilesAre DEF Ids, ToSet
  <2>3. op.id \in ToSet(table)
    BY <1>1, <2>2, VtblIs
  <2>4. entries # {}
    BY <2>3 DEF ToSet
  <2>5. ASSUME Len(dir[f].modules) = 1 PROVE \E k \in entries : entries = {k}
    <3>1. n = 1 /\ dir[f].modules[n] \in Modules(f)
      BY <1>1, <2>5, FilesAre
    <3>2. table = Ids(ops)
      BY <1>1, <3>1, VtblIs
    <3>3. DOMAIN table = DOMAIN ops /\ \A k \in DOMAIN ops : table[k] = ops[k].id
      BY <3>2 DEF Ids
    <3>4. \A k, l \in DOMAIN ops : ops[k].id = ops[l].id => k = l
      BY <1>1, <3>1, OpsAre
    <3>5. entries = {j}
      BY <2>1, <3>3, <3>4
    <3> QED BY <3>5
  <2> QED BY <2>4, <2>5 DEF ProxySends, AdaptorReads, AdaptorReplies, ProxyReads
<1>2. TypeOK => WireAgrees
  BY <1>1 DEF TypeOK, WireAgrees
<1>3. IInv => WireAgrees
  BY <1>2 DEF IInv
<1> QED BY <1>3, Inductive, PTL

-----------------------------------------------------------------------------
(* The header and the structs' functions are only one run's.               *)
LEMMA HeaderIsOwn ==
  ASSUME IInv, NEW f \in DOMAIN dir
  PROVE  /\ Own(f, <<f, "hpp">>) /\ <<f, "hpp">> \in Outputs
         /\ HasStructs(f) => Own(f, <<f, "util.hpp">>) /\ <<f, "util.hpp">> \in Outputs
<1>1. \A g : \A i : (<<i, "hpp">> \in Generated(g) <=> i = g)
                    /\ (<<i, "util.hpp">> \in Generated(g) <=> i = g /\ HasStructs(g))
  BY DEF Generated, PerInterface
<1>2. f \in Names
  BY FilesAre DEF IInv, TypeOK
<1>3. <<f, "hpp">> \in Outputs /\ <<f, "util.hpp">> \in Outputs
  BY <1>2, KindsListed DEF Outputs
<1> QED BY <1>1, <1>3 DEF Own

(* Every name that a source includes is found iff it is the file's own.    *)
LEMMA IncludesFoundIff ==
  ASSUME IInv, NEW f \in DOMAIN dir, Completed(f), NEW i \in Declared(f),
         \A g \in DOMAIN dir \ {f} : i \notin Declared(g)
  PROVE  IncludesFound(f, i) <=> dir[f].includes = {} /\ i = f
<1>0. i \in Names
  BY IdlAssumption DEF IInv, TypeOK, Declared, Modules
<1>1. ASSUME IncludesFound(f, i) PROVE i = f
  <2>1. PICK g \in DOMAIN dir : /\ WrittenBy(<<i, "hpp">>, g)
                                /\ DeclaredClasses(f, i) \subseteq DeclaredClasses(g, i)
    BY <1>1 DEF IncludesFound
  <2>2. text[<<i, "hpp">>] # NULL
    <3>1. g \in Names
      BY FilesAre DEF IInv, TypeOK
    <3>2. text[<<i, "hpp">>] \in SUBSET Texts
      BY <2>1, <3>1 DEF WrittenBy, Texts
    <3> QED BY <3>2, NullAssumption
  <2>3. <<i, "hpp">> \in Outputs
    BY <1>0, KindsListed DEF Outputs
  <2>4. PICK t \in text[<<i, "hpp">>] : t.by = g
    BY <2>1 DEF WrittenBy
  <2>5. <<i, "hpp">> \in Generated(g)
    <3> DEFINE o == <<i, "hpp">>
    <3> HIDE DEF o
    <3>1. o \in Outputs /\ text[o] # NULL /\ t \in text[o]
      BY <2>2, <2>3, <2>4 DEF o
    <3>2. o \in Generated(t.by)
      BY <3>1, Zenon DEF IInv, Generates
    <3> QED BY <2>4, <3>2 DEF o
  <2>6. i = g
    BY <2>5 DEF Generated, PerInterface
  <2>7. i \in Declared(g)
    <3>1. DeclaredClasses(f, i) # {}
      BY DEF Declared, DeclaredClasses
    <3>2. DeclaredClasses(g, i) # {}
      BY <2>1, <3>1
    <3> QED BY <3>2 DEF Declared, DeclaredClasses
  <2> QED BY <2>6, <2>7
<1>2. ASSUME dir[f].includes = {}, i = f PROVE IncludesFound(f, i)
  <2>1. WrittenBy(<<f, "hpp">>, f)
    BY HeaderIsOwn, OwnAreWhole
  <2>2. HasStructs(f) => text[<<f, "util.hpp">>] # NULL
    BY HeaderIsOwn, OwnAreWhole
  <2> QED BY <1>2, <2>1, <2>2 DEF IncludesFound
<1>3. IncludesFound(f, i) => dir[f].includes = {}
  BY DEF IncludesFound
<1> QED BY <1>1, <1>2, <1>3

(* The members every source defines are declared, once, iff each module    *)
(* declares the interface with the operations of the one before.           *)
LEMMA MembersDeclaredIff ==
  ASSUME dir \in Directories, NEW f \in DOMAIN dir, NEW i \in Declared(f)
  PROVE  MembersDeclared(f, i) <=>
           \A n \in DOMAIN dir[f].modules :
             /\ i \in DOMAIN dir[f].modules[n].interfaces
             /\ n > 1 => ToSet(Ids(OpsIn(dir[f].modules[n - 1], i)))
                           \subseteq ToSet(Ids(OpsIn(dir[f].modules[n], i)))
<1> DEFINE M == dir[f].modules  E(n) == ToSet(Ids(OpsIn(M[n], i)))
<1>1. DOMAIN M = 1 .. Len(M) /\ Len(M) \in Nat
  BY FilesAre
<1>2. \A m : m \in Modules(f) <=> \E n \in DOMAIN M : m = M[n]
  BY FilesAre
<1>3. \A n \in DOMAIN M : \A x : x \in ToSet(Vtbl(f, i, n)) <=> \E k \in 1 .. n : x \in E(k)
  BY VtblIs
<1> HIDE DEF M, E
<1>4. ASSUME MembersDeclared(f, i), NEW n \in DOMAIN M
      PROVE  i \in DOMAIN M[n].interfaces /\ (n > 1 => E(n - 1) \subseteq E(n))
  <2>1. M[n].id \in DeclaredClasses(f, i)
    BY <1>2, <1>4 DEF MembersDeclared, SourceClasses
  <2>2. PICK k \in DOMAIN M : i \in DOMAIN M[k].interfaces /\ M[k].id = M[n].id
    BY <1>2, <2>1 DEF DeclaredClasses
  <2>3. k = n
    BY <1>4, <2>2 DEF MembersDeclared, ModulesDiffer, M
  <2>4. ToSet(Vtbl(f, i, n)) = E(n)
    BY <1>4 DEF MembersDeclared, E, M
  <2>5. n > 1 => n - 1 \in 1 .. n
    BY <1>1
  <2> QED BY <1>3, <2>2, <2>3, <2>4, <2>5
<1>5. ASSUME \A n \in DOMAIN M : i \in DOMAIN M[n].interfaces /\ (n > 1 => E(n - 1) \subseteq E(n))
      PROVE  MembersDeclared(f, i)
  <2>1. SourceClasses(f) = DeclaredClasses(f, i)
    BY <1>2, <1>5 DEF SourceClasses, DeclaredClasses
  <2>2. ModulesDiffer(f)
    <3> SUFFICES ASSUME NEW j \in DOMAIN M, NEW k \in DOMAIN M, M[j].id = M[k].id, j # k PROVE FALSE
      BY DEF ModulesDiffer, M
    <3>1. DOMAIN M[j].interfaces \cap DOMAIN M[k].interfaces = {}
      BY FilesAre DEF M
    <3> QED BY <1>5, <3>1
  <2>3. ASSUME NEW n \in DOMAIN M PROVE ToSet(Vtbl(f, i, n)) = E(n)
    <3> DEFINE S == {m \in 1 .. n : \A k \in 1 .. m : E(k) \subseteq E(m)}
    <3>1. n \in Nat /\ n \in 1 .. n /\ 1 \in 1 .. n /\ \A m \in 1 .. n : m \in DOMAIN M
      BY <1>1, <2>3
    <3>2. 1 \in S
      <4>1. \A k \in 1 .. 1 : k = 1
        OBVIOUS
      <4> QED BY <3>1, <4>1
    <3>3. ASSUME NEW m \in 1 .. n - 1, m \in S PROVE m + 1 \in S
      <4>1. m + 1 \in 1 .. n /\ m + 1 > 1 /\ (m + 1) - 1 = m
        BY <3>1
      <4>2. E(m) \subseteq E(m + 1)
        BY <1>5, <3>1, <4>1
      <4>3. \A k \in 1 .. m : E(k) \subseteq E(m)
        BY <3>3
      <4>4. \A k \in 1 .. m + 1 : k \in 1 .. m \/ k = m + 1
        OBVIOUS
      <4> QED BY <4>1, <4>2, <4>3, <4>4
    <3>4. n \in S
      <4> HIDE DEF S
      <4> QED BY <3>1, <3>2, <3>3, Steps
    <3> QED BY <1>3, <2>3, <3>1, <3>4
  <2> QED BY <2>1, <2>2, <2>3 DEF MembersDeclared, E, M
<1> QED BY <1>4, <1>5 DEF E, M

(* For any directory: the adaptor and proxy of a file that declares one    *)
(* interface come out usable exactly if the IDL keeps to what is supported.*)
THEOREM UsableExactlyIfSupported == Spec => []UsableIffSupported
<1>1. ASSUME IInv, NEW f \in DOMAIN dir, Completed(f), NEW i \in Declared(f), Declared(f) = {i},
             \A g \in DOMAIN dir \ {f} : i \notin Declared(g)
      PROVE  Usable(f, i) <=> Supported(f, i)
  <2>1. dir \in Directories
    BY <1>1 DEF IInv, TypeOK
  <2>2. IncludesFound(f, i) <=> dir[f].includes = {} /\ i = f
    BY <1>1, IncludesFoundIff
  <2>3. MembersDeclared(f, i) <=>
          \A n \in DOMAIN dir[f].modules :
            /\ i \in DOMAIN dir[f].modules[n].interfaces
            /\ n > 1 => ToSet(Ids(OpsIn(dir[f].modules[n - 1], i)))
                          \subseteq ToSet(Ids(OpsIn(dir[f].modules[n], i)))
    BY <1>1, <2>1, MembersDeclaredIff
  <2>4. \A op : op \in Operations(f) <=> \E m \in Modules(f) : op \in ToSet(OpsIn(m, i))
    <3>1. i \in Names
      BY <1>1, <2>1, IdlAssumption DEF Declared, Modules
    <3>2. ASSUME NEW m \in Modules(f), NEW j, j # i PROVE ToSet(OpsIn(m, j)) = {}
      <4>1. j \notin DOMAIN m.interfaces
        BY <1>1, <3>2 DEF Declared
      <4> QED BY <4>1 DEF OpsIn, ToSet
    <3> QED BY <3>1, <3>2 DEF Operations
  <2>5. (\A op \in Operations(f) : ~Refused(op))
          <=> \A m \in Modules(f) : \A op \in ToSet(OpsIn(m, i)) : ~Refused(op)
    BY <2>4
  <2> QED BY <2>2, <2>3, <2>5 DEF Usable, Supported
<1>2. IInv => UsableIffSupported
  BY <1>1 DEF UsableIffSupported
<1> QED BY <1>2, Inductive, PTL

=============================================================================
