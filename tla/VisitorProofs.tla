---------------------------- MODULE VisitorProofs ----------------------------
(***************************************************************************)
(* For every IDL file: what the visitors of both back ends print of it,    *)
(* and where they stop. A walk keeps what it still has to do on a stack,   *)
(* so the invariant is about the stack: each task is done at a position of *)
(* the walk and leads to another (Before, After), and between every task   *)
(* and the one below it nothing that is to be printed is left out (Leads). *)
(* Then one statement about the position of the first task (At) is enough: *)
(* what is printed, which braces are open, which names have been taken.    *)
(* The lines of a text being known, it can be said what C++ finds of the   *)
(* names in them, and how the texts of both back ends compare.             *)
(***************************************************************************)
EXTENDS IdlVisitors, Integers, WellFoundedInduction, SequenceTheorems, TLAPS

(* The declarations in n and what is in them are n + 1 .. End(n) - 1; a    *)
(* declaration is preceded by the type declared in it.                     *)
End(n) ==
  CHOOSE e \in n + 1 .. Len(file) + 1 :
    /\ e = Len(file) + 1 \/ file[e].in < n
    /\ \A m \in n + 1 .. e - 1 : file[m].in >= n
First(n) == IF file[n].inline THEN file[n].types[1].of ELSE n

(* Where a walk is between two tasks: what is before "at" is printed; of   *)
(* the line of "node" so many visits of a type and takings are done.       *)
Position(at, place, n, steps) ==
  [at |-> at, scope |-> place, node |-> IF steps = 0 THEN 0 ELSE n, steps |-> steps]
Between(at, place) == Position(at, place, 0, 0)
TheEnd == Between(Len(file) + 1, <<>>)

Inside(w, n) ==
  Append(Place(w, n), IF file[n].kind = "interface" /\ w.by \in Classes THEN ClassName ELSE file[n].id)

Before(w, task) ==
  LET n == task.node IN
  CASE task.do = "visit" -> Between(First(n), Place(w, n))
    [] task.do = "type"  -> Position(n, Place(w, n), n, 2 * (task.part - 1))
    [] task.do = "take"  -> Position(n, Place(w, n), n, 2 * task.part - 1)
    [] task.do = "line"  -> Position(n, Place(w, n), n, 2 * Len(file[n].types))
    [] task.do = "close" -> Between(End(n), Inside(w, n))
After(w, task) ==
  LET n == task.node IN
  CASE task.do = "visit" -> Between(End(n), Place(w, n))
    [] task.do = "type"  -> Position(n, Place(w, n), n, 2 * task.part - 1)
    [] task.do = "take"  -> Position(n, Place(w, n), n, 2 * task.part)
    [] task.do = "line"  -> Between(n + 1, Place(w, n))
    [] task.do = "close" -> Between(End(n), Place(w, n))

(* Nothing that is to be printed lies between.                             *)
Reaches(w, p, q) ==
  /\ p.scope = q.scope /\ p.node = q.node /\ p.steps = q.steps
  /\ p.at <= q.at
  /\ \A x \in Printable(w) : ~(p.at <= x /\ x < q.at)

(* Tasks lead from one position to another: each from where the one before *)
(* it has led.                                                             *)
Leads(w, p, tasks, q) ==
  \A k \in 0 .. Len(tasks) :
    Reaches(w, IF k = 0 THEN p ELSE After(w, tasks[k]),
               IF k = Len(tasks) THEN q ELSE Before(w, tasks[k + 1]))

(* Tasks there can be: declarations that are reached are visited, lines    *)
(* are of declarations to be printed.                                      *)
Reached(w, n) ==
  /\ n \in DOMAIN file /\ file[n].main
  /\ w.by \notin Whole => file[n].alone
  /\ \/ w.by \in Whole
     \/ file[n].in = 0
     \/ file[file[n].in].kind = "module"
     \/ w.by \in Classes \cup Sources /\ file[n].in \in Own(w)
Lined(w, n) ==
  /\ n \in Printable(w) /\ file[n].kind \in Typed
  /\ w.by # "AdapterHeader" /\ ~BadComment(w.by, n)
VisitTasks(w) == {Task("visit", n, 0) : n \in {m \in DOMAIN file : Reached(w, m)}}
TypeTasks(w) ==
  UNION {{Task(do, n, k) : do \in {"type", "take"}, k \in DOMAIN file[n].types} :
           n \in {m \in DOMAIN file : Lined(w, m)}}
LineTasks(w) == {LineOf(n) : n \in {m \in DOMAIN file : Lined(w, m)}}
CloseTasks == {Close(n) : n \in {m \in DOMAIN file : file[m].kind \in Scopes}}
Tasks(w) == VisitTasks(w) \cup TypeTasks(w) \cup LineTasks(w) \cup CloseTasks

CxxName == [vector : BOOLEAN, name : Seq(STRING)]
Named(w, n, k, name) ==
  file[n].types[k].kind # "fixed" => Names(w.by, file[n].types[k], NULL) = {name}

(* A fixed type leaves the name that was there. So the name at a position  *)
(* is that of the last type up to there, of what is to be printed, that is *)
(* not fixed.                                                              *)
UpTo(at, n, k, m, j) == m < at \/ (m = n /\ j <= k)
Namer(w, at, n, k, m, j) ==
  /\ m \in Printable(w) /\ j \in DOMAIN TypesTaken(w, m) /\ UpTo(at, n, k, m, j)
  /\ file[m].types[j].kind # "fixed"
  /\ \A x \in Printable(w) : \A i \in DOMAIN TypesTaken(w, x) :
       UpTo(at, n, k, x, i) /\ ~UpTo(m, m, j, x, i) => file[x].types[i].kind = "fixed"
Left(w, at, n, k, name) ==
  \E m, j : Namer(w, at, n, k, m, j) /\ Names(w.by, file[m].types[j], NULL) = {name}
Fits(w, n, k, name) == Named(w, n, k, name) /\ Left(w, n, n, k, name)

(* The visitor's state at a position.                                      *)
Nameless(w, p) ==
  /\ \A x \in Printable(w) : x < p.at => TypesTaken(w, x) = <<>>
  /\ p.steps = 0 \/ (p.steps = 1 /\ file[p.node].types[1].kind = "fixed")
Holds(w, p, open, module, printed, took, type) ==
  /\ open = p.scope
  /\ module = LastModule(p.at)
  /\ printed = {x \in Printable(w) : x < p.at}
  /\ \A x \in Causes(w) : x >= p.at
  /\ took \in Seq(CxxName) /\ Len(took) = p.steps \div 2
  /\ \A k \in DOMAIN took : Fits(w, p.node, k, took[k]) /\ ~Unnamed(w, p.node, k)
  /\ p.steps % 2 = 1 =>
       LET k == (p.steps + 1) \div 2 IN
         Named(w, p.node, k, type) /\ (file[p.node].types[k].kind # "fixed" => ~Unnamed(w, p.node, k))
  /\ type \in CxxName \cup {NULL}
  /\ type = NULL <=> Nameless(w, p)
  /\ type # NULL => Left(w, p.at, p.node, (p.steps + 1) \div 2, type)
At(w, p) == Holds(w, p, scope, module_name, Printed(w), taken, result)

(* The names a line ends with: what is not taken from __result_type.       *)
ItsInterface(w, n) == <<Name(LastModule(n) \o <<w.interface>>)>>
Further(w, n) ==
  IF file[n].kind = "interface"
  THEN IF w.by \in Whole THEN Scoped(file[n].names) ELSE ItsInterface(w, n)
  ELSE IF file[n].kind = "module" THEN CommonNames(w.by, file[n].id, w.interface)
  ELSE IF file[n].kind \notin Typed THEN Derives(w.by, n)
  ELSE IF w.by = "AdapterHeader" THEN ItsInterface(w, n)
  ELSE Scoped(file[n].names) \o (IF w.by = "AdapterSource" THEN ItsInterface(w, n) ELSE <<>>)

Listed(s) == Len(s) \in Nat /\ s = [k \in 1 .. Len(s) |-> s[k]]
LineFits(w, l) ==
  LET n == l.node IN
  /\ l = [node |-> n, scope |-> l.scope, names |-> l.names]
  /\ n \in Printable(w) /\ l.scope = Place(w, n)
  /\ Listed(l.names)
  /\ Len(l.names) = Len(TypesTaken(w, n)) + Len(Further(w, n))
  /\ \A k \in DOMAIN TypesTaken(w, n) : Fits(w, n, k, l.names[k])
  /\ \A k \in DOMAIN Further(w, n) : l.names[Len(TypesTaken(w, n)) + k] = Further(w, n)[k]
LinesFit(w) ==
  LET ls == text[w].lines IN
  /\ text[w] = [lines |-> ls, how |-> text[w].how]
  /\ Len(ls) \in Nat /\ ls = [p \in 1 .. Len(ls) |-> ls[p]]
  /\ \A p, q \in DOMAIN ls : p < q => ls[p].node < ls[q].node
  /\ \A p \in DOMAIN ls : LineFits(w, ls[p])

Ended(w) ==
  /\ text[w].how = "whole" => Printed(w) = Printable(w) /\ Causes(w) = {}
  /\ text[w].how = "raised" =>
       \E c \in Causes(w) : /\ \A d \in Causes(w) : c <= d
                            /\ Printed(w) = {x \in Printable(w) : x < c}
  /\ text[w].how = "not yet" /\ w # walk => text[w].lines = <<>>

UnderWay(w) ==
  /\ text[w].how = "not yet"
  /\ todo \in Seq(Tasks(w))
  /\ LET p == IF todo = <<>> THEN TheEnd ELSE Before(w, todo[1])
     IN  At(w, p) /\ Leads(w, p, todo, TheEnd)

IInv ==
  /\ TypeOK
  /\ \A w \in Walks : LinesFit(w) /\ Ended(w)
  /\ walk # NULL => UnderWay(walk)
-----------------------------------------------------------------------------
(* A set of numbers has a least one and, if it is bounded, a greatest.     *)
LEMMA Least == \A S \in SUBSET Nat : S # {} => \E x \in S : \A y \in S : x <= y
<1> SUFFICES ASSUME NEW S \in SUBSET Nat, S # {} PROVE \E x \in S : \A y \in S : x <= y
  OBVIOUS
<1>1. PICK x \in S : \A y \in S : <<y, x>> \notin OpToRel(<, Nat)
  BY NatLessThanWellFounded, WFMin
<1>2. \A y \in S : ~(y < x)
  BY <1>1 DEF OpToRel
<1> QED
  BY <1>2

LEMMA Greatest ==
  ASSUME NEW S \in SUBSET Nat, S # {}, NEW b \in Nat, \A x \in S : x <= b
  PROVE  \E x \in S : \A y \in S : y <= x
<1> DEFINE T == {y \in 0 .. b : b - y \in S}
<1>1. T \in SUBSET Nat /\ T # {}
  <2>1. PICK x \in S : TRUE
    OBVIOUS
  <2>2. b - x \in T
    BY <2>1
  <2>3. \A y \in T : y \in Nat
    OBVIOUS
  <2> HIDE DEF T
  <2> QED
    BY <2>2, <2>3
<1>2. PICK t \in T : \A y \in T : t <= y
  BY <1>1, Least
<1>3. \A y \in S : b - y \in T
  OBVIOUS
<1>4. \A y \in S : y <= b - t
  BY <1>2, <1>3
<1> QED
  BY <1>2, <1>4

-----------------------------------------------------------------------------
(* What IsFile says of the file that is walked.                            *)
N == Len(file)
In(n) == file[n].in

LEMMA FileIs ==
  ASSUME file \in Files
  PROVE  /\ N \in Nat /\ DOMAIN file = 1 .. N
         /\ \A n \in 1 .. N : /\ file[n] \in Declaration /\ Nested(file, n)
                              /\ \A k \in DOMAIN file[n].types :
                                   /\ file[n].types[k].of \in 0 .. n - 1
                                   /\ file[n].types[k].kind = "declared" => file[n].types[k].of # 0
                              /\ \A k \in DOMAIN file[n].names : file[n].names[k] \in 1 .. n - 1
                              /\ file[n].kind \notin Typed => file[n].types = <<>>
                              /\ file[n].comment = "malformed" => file[n].kind = "operation"
                              /\ file[n].inline => /\ file[n].kind \in {"typedef", "member"}
                                                   /\ file[n].alone /\ file[n].types # <<>>
                                                   /\ InlineOf(file, n, file[n].types[1].of)
                              /\ ~file[n].alone => \E m \in 1 .. N : file[m].inline /\ file[m].types[1].of = n
<1>1. IsFile(file)
  BY VisitorsAssumption
<1>2. N \in Nat /\ DOMAIN file = 1 .. N /\ file \in Seq(Declaration)
  BY <1>1 DEF IsFile, N
<1>3. \A n \in 1 .. N : file[n] \in Declaration
  BY <1>2
<1>4. ASSUME NEW n \in 1 .. N, NEW k \in DOMAIN file[n].types
      PROVE  /\ file[n].types[k].of \in 0 .. n - 1
             /\ file[n].types[k].kind = "declared" => file[n].types[k].of # 0
  <2>1. file[n].types[k].of # 0 => file[n].types[k].of \in 1 .. n - 1
    BY <1>1, <1>2 DEF IsFile, CanBeNamed
  <2> QED
    BY <1>1, <1>2, <2>1 DEF IsFile
<1>5. ASSUME NEW n \in 1 .. N, NEW k \in DOMAIN file[n].names
      PROVE  file[n].names[k] \in 1 .. n - 1
  BY <1>1, <1>2, <1>5 DEF IsFile, CanBeNamed
<1> QED
  BY <1>1, <1>2, <1>3, <1>4, <1>5 DEF IsFile

LEMMA InIs ==
  ASSUME file \in Files, NEW n \in 1 .. N
  PROVE  /\ In(n) \in 0 .. n - 1
         /\ \A m \in In(n) + 1 .. n - 1 : In(m) >= In(n)
BY FileIs DEF Nested, In

LEMMA EndIs ==
  ASSUME file \in Files, NEW n \in 0 .. N
  PROVE  /\ End(n) \in n + 1 .. N + 1
         /\ End(n) = N + 1 \/ In(End(n)) < n
         /\ \A m \in n + 1 .. End(n) - 1 : In(m) >= n
<1> DEFINE P(e) == /\ e = N + 1 \/ In(e) < n
                   /\ \A m \in n + 1 .. e - 1 : In(m) >= n
           S == {e \in n + 1 .. N + 1 : e = N + 1 \/ In(e) < n}
<1>0. N \in Nat
  BY FileIs
<1>1. S \in SUBSET Nat /\ N + 1 \in S
  BY <1>0
<1>2. PICK e \in S : \A y \in S : e <= y
  BY <1>1, Least
<1>3. \A m \in n + 1 .. e - 1 : In(m) >= n
  <2> SUFFICES ASSUME NEW m \in n + 1 .. e - 1 PROVE In(m) >= n
    OBVIOUS
  <2>1. m \in 1 .. N /\ m \notin S
    BY <1>0, <1>2
  <2>2. ~(In(m) < n) /\ In(m) \in Nat
    BY <1>0, <2>1, InIs
  <2> QED
    BY <1>0, <2>2
<1>4. e \in n + 1 .. N + 1 /\ P(e)
  BY <1>2, <1>3
<1>5. End(n) = CHOOSE x \in n + 1 .. N + 1 : P(x)
  BY DEF End, N, In
<1> HIDE DEF P
<1>6. End(n) \in n + 1 .. N + 1 /\ P(End(n))
  BY <1>4, <1>5
<1> QED
  BY <1>6 DEF P

(* What is in a declaration in n is in n; a declaration is in its parent.  *)
LEMMA EndNests ==
  ASSUME file \in Files, NEW n \in 0 .. N, NEW m \in n + 1 .. End(n) - 1
  PROVE  m \in 1 .. N /\ End(m) <= End(n)
<1>1. N \in Nat /\ End(n) \in n + 1 .. N + 1 /\ (End(n) = N + 1 \/ In(End(n)) < n)
  BY FileIs, EndIs
<1>2. m \in 1 .. N
  BY <1>1
<1>3. /\ End(m) \in m + 1 .. N + 1
      /\ \A k \in m + 1 .. End(m) - 1 : In(k) >= m
  BY <1>1, <1>2, EndIs
<1>4. CASE End(n) < End(m)
  <2>1. End(n) \in m + 1 .. End(m) - 1 /\ End(n) \in 1 .. N
    BY <1>1, <1>2, <1>3, <1>4
  <2>2. In(End(n)) >= m /\ In(End(n)) < n /\ In(End(n)) \in Nat
    BY <1>1, <1>3, <2>1, InIs
  <2> QED
    BY <1>1, <1>2, <2>2
<1> QED
  BY <1>1, <1>2, <1>3, <1>4

LEMMA InParent ==
  ASSUME file \in Files, NEW n \in 1 .. N
  PROVE  In(n) \in 0 .. N /\ n \in In(n) + 1 .. End(In(n)) - 1 /\ End(n) <= End(In(n))
<1> DEFINE p == In(n)
<1>1. N \in Nat /\ p \in 0 .. n - 1 /\ \A m \in p + 1 .. n - 1 : In(m) >= p
  BY FileIs, InIs
<1>2. /\ End(p) \in p + 1 .. N + 1
      /\ End(p) = N + 1 \/ In(End(p)) < p
  BY <1>1, EndIs
<1>3. CASE End(p) <= n
  <2>1. End(p) \in 1 .. N /\ In(End(p)) < p /\ In(End(p)) \in Nat
    BY <1>1, <1>2, <1>3, InIs
  <2>2. End(p) # n
    BY <1>1, <2>1
  <2>3. End(p) \in p + 1 .. n - 1
    BY <1>1, <1>2, <1>3, <2>2
  <2> QED
    BY <1>1, <2>1, <2>3
<1>4. p \in 0 .. N /\ n \in p + 1 .. End(p) - 1
  BY <1>1, <1>2, <1>3
<1> QED
  BY <1>4, EndNests

(* A declaration that others are not in ends at once.                      *)
LEMMA Childless ==
  ASSUME file \in Files, NEW n \in 1 .. N, file[n].kind \notin Scopes
  PROVE  End(n) = n + 1
<1>1. N \in Nat /\ End(n) \in n + 1 .. N + 1 /\ \A m \in n + 1 .. End(n) - 1 : In(m) >= n
  BY FileIs, EndIs
<1>2. CASE End(n) > n + 1
  <2>1. n + 1 \in 1 .. N /\ In(n + 1) >= n
    BY <1>1, <1>2
  <2>2. In(n + 1) = n
    BY <1>1, <2>1, InIs
  <2>3. file[In(n + 1)].kind \in Scopes
    BY <2>1, <2>2, FileIs DEF Nested, In
  <2> QED
    BY <2>2, <2>3
<1> QED
  BY <1>1, <1>2

(* The type declared in a declaration is all that lies before it.          *)
LEMMA FirstIs ==
  ASSUME file \in Files, NEW n \in 1 .. N
  PROVE  /\ First(n) \in In(n) + 1 .. n
         /\ ~file[n].inline => First(n) = n
         /\ file[n].inline => /\ First(n) < n /\ In(First(n)) = In(n) /\ ~file[First(n)].alone
                              /\ file[First(n)].main = file[n].main
                              /\ file[First(n)].kind \in {"struct", "enum", "union"}
                              /\ End(First(n)) = n
<1>0. N \in Nat /\ In(n) \in 0 .. n - 1
  BY FileIs, InIs
<1>1. CASE ~file[n].inline
  BY <1>0, <1>1 DEF First
<1>2. CASE file[n].inline
  <2> DEFINE m == file[n].types[1].of
  <2>1. First(n) = m
    BY <1>2 DEF First
  <2>2. /\ m \in 1 .. n - 1 /\ In(m) = In(n) /\ file[m].main = file[n].main
        /\ ~file[m].alone /\ file[m].kind \in {"struct", "enum", "union"}
        /\ \A k \in m + 1 .. n - 1 : In(k) >= m
    BY <1>2, FileIs DEF InlineOf, In
  <2> HIDE DEF m
  <2>3. m \in 1 .. N /\ In(m) \in 0 .. m - 1
    BY <1>0, <2>2, InIs
  <2>4. /\ End(m) \in m + 1 .. N + 1
        /\ End(m) = N + 1 \/ In(End(m)) < m
        /\ \A k \in m + 1 .. End(m) - 1 : In(k) >= m
    BY <1>0, <2>3, EndIs
  <2>5. ~(End(m) > n)
    BY <1>0, <2>2, <2>3, <2>4
  <2>6. ~(End(m) < n)
    <3> SUFFICES ASSUME End(m) < n PROVE FALSE
      OBVIOUS
    <3>1. End(m) \in m + 1 .. n - 1 /\ End(m) \in 1 .. N
      BY <1>0, <2>2, <2>3, <2>4
    <3>2. In(End(m)) < m /\ In(End(m)) >= m /\ In(End(m)) \in Nat
      BY <1>0, <2>2, <2>4, <3>1, InIs
    <3> QED
      BY <2>2, <3>2
  <2>7. End(m) = n
    BY <1>0, <2>3, <2>4, <2>5, <2>6
  <2> QED
    BY <1>0, <1>2, <2>1, <2>2, <2>3, <2>7
<1> QED
  BY <1>1, <1>2

(* What is in a declaration is of the main file if the declaration is.     *)
LEMMA MainInherits ==
  ASSUME file \in Files, NEW n \in 1 .. N, NEW x \in n .. End(n) - 1
  PROVE  file[x].main = file[n].main
<1> DEFINE S == {y \in n .. End(n) - 1 : file[y].main # file[n].main}
<1>0. N \in Nat /\ End(n) \in n + 1 .. N + 1 /\ \A m \in n + 1 .. End(n) - 1 : In(m) >= n
  BY FileIs, EndIs
<1>1. ASSUME S # {} PROVE FALSE
  <2>1. \A y \in S : y \in Nat
    BY <1>0
  <2>2. S \in SUBSET Nat
    BY <2>1
  <2>3. PICK y \in S : \A z \in S : y <= z
    BY <1>1, <2>2, Least
  <2>4. y \in n .. End(n) - 1 /\ file[y].main # file[n].main
    BY <2>3
  <2>5. y # n
    BY <2>4
  <2>6. y \in n + 1 .. End(n) - 1 /\ y \in 1 .. N
    BY <1>0, <2>4, <2>5
  <2>7. In(y) >= n /\ In(y) \in 0 .. y - 1
    BY <1>0, <2>6, InIs
  <2>8. In(y) \in n .. End(n) - 1 /\ In(y) < y /\ In(y) # 0
    BY <1>0, <2>6, <2>7
  <2>9. file[In(y)].main = file[y].main
    BY <2>6, <2>8, FileIs DEF Nested, In
  <2>10. In(y) \in S
    BY <2>4, <2>8, <2>9
  <2> QED
    BY <1>0, <2>3, <2>4, <2>8, <2>10
<1> QED
  BY <1>1

(* Whatever lies in a declaration is part of one of its contents: the last *)
(* that begins before it, or the one that this is declared in.             *)
LEMMA ChildCovers ==
  ASSUME file \in Files, NEW p \in 0 .. N, NEW x \in p + 1 .. End(p) - 1, file[x].main
  PROVE  \E c \in 1 .. N : IsContent(c, p) /\ First(c) <= x /\ x < End(c)
<1> DEFINE S == {c \in p + 1 .. x : In(c) = p}
<1>0. /\ N \in Nat /\ End(p) \in p + 1 .. N + 1
      /\ \A m \in p + 1 .. End(p) - 1 : In(m) >= p
  BY FileIs, EndIs
<1>1. x \in 1 .. N /\ p + 1 \in 1 .. N /\ p + 1 \in p + 1 .. x
  BY <1>0
<1>2. In(p + 1) = p
  <2>1. In(p + 1) >= p /\ In(p + 1) \in 0 .. p
    BY <1>0, <1>1, InIs
  <2> QED
    BY <1>0, <2>1
<1>3. PICK c \in S : \A y \in S : y <= c
  <2>1. p + 1 \in S
    BY <1>1, <1>2
  <2>2. \A y \in S : y \in Nat /\ y <= x
    BY <1>0
  <2>3. S \in SUBSET Nat /\ x \in Nat
    BY <1>1, <2>2
  <2> HIDE DEF S
  <2> QED
    BY <2>1, <2>2, <2>3, Greatest
<1>4. c \in p + 1 .. x /\ In(c) = p /\ c \in 1 .. N
  BY <1>0, <1>1, <1>3
<1>5. \A k \in c + 1 .. x : In(k) >= c
  <2> SUFFICES ASSUME NEW k \in c + 1 .. x, In(k) < c PROVE FALSE
    BY <1>0, <1>1, <1>4, InIs
  <2>1. k \in 1 .. N /\ k \notin S /\ k \in p + 1 .. End(p) - 1
    BY <1>0, <1>1, <1>3, <1>4
  <2>2. In(k) >= p /\ In(k) # p /\ In(k) \in 0 .. k - 1
    BY <1>0, <1>1, <1>4, <2>1, InIs
  <2>3. c \in In(k) + 1 .. k - 1
    BY <1>0, <1>4, <2>1, <2>2
  <2>4. In(c) >= In(k)
    BY <2>1, <2>3, InIs
  <2> QED
    BY <1>0, <1>4, <2>2, <2>4
<1>6. x < End(c)
  <2>1. End(c) \in c + 1 .. N + 1 /\ (End(c) = N + 1 \/ In(End(c)) < c)
    BY <1>0, <1>4, EndIs
  <2>2. CASE End(c) <= x
    <3>1. End(c) \in c + 1 .. x /\ End(c) \in 1 .. N
      BY <1>0, <1>1, <1>4, <2>1, <2>2
    <3>2. In(End(c)) >= c /\ In(End(c)) < c /\ In(End(c)) \in Nat
      BY <1>0, <1>1, <1>5, <2>1, <3>1, InIs
    <3> QED
      BY <1>4, <3>2
  <2> QED
    BY <1>0, <1>1, <1>4, <2>1, <2>2
<1>7. x \in c .. End(c) - 1
  BY <1>0, <1>4, <1>6, EndIs
<1>8. file[c].main
  BY <1>4, <1>7, MainInherits
<1>9. CASE file[c].alone
  <2>1. IsContent(c, p)
    BY <1>4, <1>8, <1>9 DEF IsContent, In
  <2>2. First(c) \in In(c) + 1 .. c
    BY <1>4, FirstIs
  <2>3. First(c) <= x
    BY <1>0, <1>4, <2>2
  <2> QED
    BY <1>4, <1>6, <2>1, <2>3
<1>10. CASE ~file[c].alone
  <2>1. PICK d \in 1 .. N : file[d].inline /\ file[d].types[1].of = c
    BY <1>4, <1>10, FileIs
  <2>2. First(d) = c
    BY <2>1 DEF First
  <2>3. In(c) = In(d) /\ file[c].main = file[d].main /\ End(c) = d /\ c < d
    BY <2>1, <2>2, FirstIs
  <2>4. IsContent(d, p)
    BY <1>4, <1>8, <2>1, <2>3, FileIs DEF IsContent, In
  <2>5. End(d) \in d + 1 .. N + 1
    BY <1>0, EndIs
  <2> QED
    BY <1>0, <1>1, <1>4, <1>6, <2>2, <2>3, <2>4, <2>5
<1> QED
  BY <1>9, <1>10

(* The contents of a declaration follow each other.                        *)
LEMMA Siblings ==
  ASSUME file \in Files, NEW p \in 0 .. N, NEW c \in 1 .. N, NEW d \in 1 .. N,
         IsContent(c, p), IsContent(d, p), c < d
  PROVE  End(c) <= First(d)
<1>0. N \in Nat /\ In(c) = p /\ In(d) = p /\ file[c].alone
  BY FileIs DEF IsContent, In
<1>1. /\ End(c) \in c + 1 .. N + 1
      /\ \A m \in c + 1 .. End(c) - 1 : In(m) >= c
  BY <1>0, EndIs
<1>2. p < c /\ p \in Nat
  BY <1>0, InIs
<1>3. First(d) \in p + 1 .. d /\ In(First(d)) = p
  BY <1>0, FirstIs
<1>4. CASE ~file[d].inline
  <2>1. First(d) = d
    BY <1>4, FirstIs
  <2> QED
    BY <1>0, <1>1, <1>2, <2>1
<1>5. CASE file[d].inline
  <2>1. /\ First(d) < d /\ ~file[First(d)].alone /\ End(First(d)) = d
        /\ First(d) \in 1 .. N
    BY <1>0, <1>2, <1>3, <1>5, FirstIs
  <2>2. First(d) # c
    BY <1>0, <2>1
  <2>3. ~(First(d) < c)
    <3> SUFFICES ASSUME First(d) < c PROVE FALSE
      OBVIOUS
    <3>1. c \in First(d) + 1 .. End(First(d)) - 1
      BY <1>0, <2>1
    <3>2. In(c) >= First(d)
      BY <1>0, <2>1, <3>1, EndIs
    <3> QED
      BY <1>0, <1>2, <1>3, <3>2
  <2> QED
    BY <1>0, <1>1, <1>2, <1>3, <2>1, <2>2, <2>3
<1> QED
  BY <1>4, <1>5

(* A part of a declaration ends in it.                                     *)
LEMMA ContentIn ==
  ASSUME file \in Files, NEW p \in 0 .. N, NEW c \in 1 .. N, IsContent(c, p)
  PROVE  p + 1 <= First(c) /\ First(c) <= c /\ c < End(c) /\ End(c) <= End(p)
<1>1. N \in Nat /\ In(c) = p
  BY FileIs DEF IsContent, In
<1> QED
  BY <1>1, FirstIs, InParent, EndIs

-----------------------------------------------------------------------------
(* The recursive functions of the model have the values that their         *)
(* definitions give: functions on 0 .. n that have them exist for every n. *)
LEMMA Steps ==
  ASSUME NEW n \in Nat, NEW S, 0 \in S, \A m \in 0 .. n - 1 : m \in S => m + 1 \in S
  PROVE  n \in S
<1> SUFFICES ASSUME n \notin S PROVE FALSE
  OBVIOUS
<1>1. {k \in 0 .. n : k \notin S} \in SUBSET Nat /\ n \in {k \in 0 .. n : k \notin S}
  OBVIOUS
<1>2. PICK m \in {k \in 0 .. n : k \notin S} : \A y \in {k \in 0 .. n : k \notin S} : m <= y
  BY <1>1, Least
<1>3. m # 0 /\ m - 1 \in 0 .. n - 1
  BY <1>2
<1>4. m - 1 \in S
  BY <1>2, <1>3
<1> QED
  BY <1>2, <1>3, <1>4

LEMMA PathDef ==
  ASSUME file \in Files
  PROVE  Path = [n \in 0 .. N |-> IF n = 0 THEN <<>> ELSE Append(Path[In(n)], file[n].id)]
<1> DEFINE Fit(n, g) == g = [m \in 0 .. n |-> IF m = 0 THEN <<>> ELSE Append(g[In(m)], file[m].id)]
           S == {n \in Nat : \E g : Fit(n, g)}
<1>0. N \in Nat
  BY FileIs
<1>1. 0 \in S
  <2>1. Fit(0, [m \in 0 .. 0 |-> <<>>])
    OBVIOUS
  <2> QED
    BY <2>1
<1>2. ASSUME NEW n \in 0 .. N - 1, n \in S PROVE n + 1 \in S
  <2>1. PICK g : Fit(n, g)
    BY <1>2
  <2> DEFINE h == [m \in 0 .. n + 1 |-> IF m = 0 THEN <<>> ELSE Append(g[In(m)], file[m].id)]
  <2>2. \A m \in 0 .. n : h[m] = g[m]
    <3> TAKE m \in 0 .. n
    <3>1. g[m] = IF m = 0 THEN <<>> ELSE Append(g[In(m)], file[m].id)
      BY <2>1
    <3> QED
      BY <3>1
  <2>3. \A m \in 1 .. n + 1 : In(m) \in 0 .. n
    <3> TAKE m \in 1 .. n + 1
    <3>1. m \in 1 .. N
      BY <1>0
    <3> QED
      BY <1>0, <3>1, InIs
  <2>4. h = [m \in 0 .. n + 1 |-> IF m = 0 THEN <<>> ELSE Append(h[In(m)], file[m].id)]
    <3>1. \A m \in 0 .. n + 1 : (IF m = 0 THEN <<>> ELSE Append(h[In(m)], file[m].id))
                                = (IF m = 0 THEN <<>> ELSE Append(g[In(m)], file[m].id))
      <4> HIDE DEF h
      <4> QED
        BY <2>2, <2>3
    <3> QED
      BY <3>1
  <2>5. Fit(n + 1, h)
    BY <2>4
  <2> HIDE DEF Fit, h
  <2> QED
    BY <1>0, <2>5
<1>3. N \in S
  <2> HIDE DEF S
  <2> QED
    BY <1>0, <1>1, <1>2, Steps
<1>4. PICK g : Fit(N, g)
  BY <1>3
<1>5. Path = CHOOSE path : Fit(N, path)
  BY DEF Path, PathOf, N, In
<1> HIDE DEF Fit
<1>6. Fit(N, Path)
  BY <1>4, <1>5
<1> QED
  BY <1>6 DEF Fit

LEMMA PathIs ==
  ASSUME file \in Files
  PROVE  /\ Path[0] = <<>>
         /\ \A n \in 1 .. N : Path[n] = Append(Path[In(n)], file[n].id)
         /\ \A n \in 0 .. N : Path[n] \in Seq(STRING)
<1> DEFINE S == {n \in 0 .. N : \A m \in 0 .. n : Path[m] \in Seq(STRING)}
<1>0. N \in Nat
  BY FileIs
<1>1. Path[0] = <<>> /\ \A n \in 1 .. N : Path[n] = Append(Path[In(n)], file[n].id)
  BY <1>0, PathDef
<1>2. 0 \in S
  <2>1. Path[0] \in Seq(STRING) /\ \A m \in 0 .. 0 : m = 0
    BY <1>1
  <2> QED
    BY <1>0, <2>1
<1>3. ASSUME NEW n \in 0 .. N - 1, n \in S PROVE n + 1 \in S
  <2>1. n + 1 \in 1 .. N /\ In(n + 1) \in 0 .. n /\ file[n + 1].id \in STRING
    BY <1>0, InIs, FileIs DEF Declaration
  <2>2. Path[In(n + 1)] \in Seq(STRING)
    BY <1>3, <2>1
  <2>3. Path[n + 1] = Append(Path[In(n + 1)], file[n + 1].id)
    BY <1>1, <2>1
  <2>4. Path[n + 1] \in Seq(STRING)
    BY <2>1, <2>2, <2>3
  <2>5. \A m \in 0 .. n + 1 : m \in 0 .. n \/ m = n + 1
    BY <1>0
  <2> QED
    BY <1>0, <1>3, <2>1, <2>4, <2>5
<1>4. N \in S
  <2> HIDE DEF S
  <2> QED
    BY <1>0, <1>2, <1>3, Steps
<1> QED
  BY <1>1, <1>4

(* The contents of a declaration in their order.                           *)
LEMMA ContentsDef ==
  ASSUME file \in Files, NEW p \in 0 .. N
  PROVE  \E u : /\ Contents(p) = u[N] /\ u[0] = <<>>
                /\ \A m \in 1 .. N : u[m] = u[m - 1] \o (IF IsContent(m, p) THEN <<m>> ELSE <<>>)
<1> DEFINE One(m) == IF IsContent(m, p) THEN <<m>> ELSE <<>>
           Fit(n, g) == g = [m \in 0 .. n |-> IF m = 0 THEN <<>> ELSE g[m - 1] \o One(m)]
           S == {n \in Nat : \E g : Fit(n, g)}
<1>0. N \in Nat
  BY FileIs
<1>1. 0 \in S
  <2>1. Fit(0, [m \in 0 .. 0 |-> <<>>])
    OBVIOUS
  <2> QED
    BY <2>1
<1>2. ASSUME NEW n \in 0 .. N - 1, n \in S PROVE n + 1 \in S
  <2>1. PICK g : Fit(n, g)
    BY <1>2
  <2> HIDE DEF One
  <2> DEFINE h == [m \in 0 .. n + 1 |-> IF m = 0 THEN <<>> ELSE g[m - 1] \o One(m)]
  <2>2. \A m \in 0 .. n : h[m] = g[m]
    <3> TAKE m \in 0 .. n
    <3>1. g[m] = IF m = 0 THEN <<>> ELSE g[m - 1] \o One(m)
      BY <2>1
    <3> QED
      BY <3>1
  <2>3. \A m \in 0 .. n + 1 : (IF m = 0 THEN <<>> ELSE h[m - 1] \o One(m))
                              = (IF m = 0 THEN <<>> ELSE g[m - 1] \o One(m))
    <3> HIDE DEF h
    <3> QED
      BY <2>2
  <2>4. Fit(n + 1, h)
    BY <2>3
  <2> HIDE DEF Fit, h
  <2> QED
    BY <1>0, <2>4
<1>3. N \in S
  <2> HIDE DEF S
  <2> QED
    BY <1>0, <1>1, <1>2, Steps
<1>4. PICK f : Fit(N, f)
  BY <1>3
<1>5. Contents(p) = (CHOOSE g : Fit(N, g))[N]
  BY DEF Contents, N
<1>6. PICK u : Fit(N, u) /\ Contents(p) = u[N]
  <2> HIDE DEF Fit
  <2> QED
    BY <1>4, <1>5
<1>7. \A m \in 0 .. N : u[m] = IF m = 0 THEN <<>> ELSE u[m - 1] \o One(m)
  <2> HIDE DEF One
  <2> QED
    BY <1>6
<1>8. u[0] = <<>>
  <2> HIDE DEF One
  <2>1. 0 \in 0 .. N
    BY <1>0
  <2> QED
    BY <1>7, <2>1
<1>9. \A m \in 1 .. N : u[m] = u[m - 1] \o One(m)
  <2> HIDE DEF One
  <2>1. \A m \in 1 .. N : m \in 0 .. N /\ m # 0
    BY <1>0
  <2> QED
    BY <1>7, <2>1
<1> QED
  BY <1>6, <1>8, <1>9

(* The positions up to n of a declaration's contents, in order.            *)
Collected(s, n, p) ==
  /\ s \in Seq(1 .. n)
  /\ \A i \in 1 .. Len(s) : s[i] \in 1 .. n /\ IsContent(s[i], p)
  /\ \A i, j \in 1 .. Len(s) : i < j => s[i] < s[j]
  /\ \A m \in 1 .. n : IsContent(m, p) => \E i \in 1 .. Len(s) : s[i] = m

LEMMA CollectedOne ==
  ASSUME NEW n \in Nat, NEW p \in Nat, NEW s, Collected(s, n, p), IsContent(n + 1, p)
  PROVE  Collected(Append(s, n + 1), n + 1, p)
<1> DEFINE t == Append(s, n + 1)
           L == Len(s)
<1>1. s \in Seq(1 .. n)
  BY DEF Collected
<1>2. /\ L \in Nat /\ Len(t) = L + 1 /\ t[L + 1] = n + 1
      /\ \A i \in 1 .. L : t[i] = s[i] /\ s[i] \in 1 .. n
  BY <1>1
<1>3. s \in Seq(1 .. n + 1)
  <2>1. 1 .. n \subseteq 1 .. n + 1
    OBVIOUS
  <2> QED
    BY <1>1, <2>1
<1>4. t \in Seq(1 .. n + 1)
  BY <1>3
<1>5. /\ \A i \in 1 .. L : IsContent(s[i], p)
      /\ \A i, j \in 1 .. L : i < j => s[i] < s[j]
      /\ \A m \in 1 .. n : IsContent(m, p) => \E i \in 1 .. L : s[i] = m
  BY DEF Collected
<1> HIDE DEF t, L
<1>6. \A i \in 1 .. L + 1 : t[i] \in 1 .. n + 1 /\ IsContent(t[i], p)
  <2> TAKE i \in 1 .. L + 1
  <2>1. CASE i = L + 1
    BY <1>2, <2>1
  <2>2. CASE i \in 1 .. L
    BY <1>2, <1>5, <2>2
  <2> QED
    BY <1>2, <2>1, <2>2
<1>7. \A i, j \in 1 .. L + 1 : i < j => t[i] < t[j]
  <2> TAKE i, j \in 1 .. L + 1
  <2>1. CASE j = L + 1 /\ i \in 1 .. L
    BY <1>2, <2>1
  <2>2. CASE i \in 1 .. L /\ j \in 1 .. L
    BY <1>2, <1>5, <2>2
  <2>3. CASE i = L + 1
    BY <1>2, <2>3
  <2> QED
    BY <1>2, <2>1, <2>2, <2>3
<1>8. \A m \in 1 .. n + 1 : IsContent(m, p) => \E i \in 1 .. L + 1 : t[i] = m
  <2> TAKE m \in 1 .. n + 1
  <2> HAVE IsContent(m, p)
  <2>1. CASE m = n + 1
    BY <1>2, <2>1
  <2>2. CASE m \in 1 .. n
    <3>1. PICK i \in 1 .. L : s[i] = m
      BY <1>5, <2>2
    <3>2. i \in 1 .. L + 1 /\ t[i] = m
      BY <1>2, <3>1
    <3> QED
      BY <3>2
  <2> QED
    BY <2>1, <2>2
<1> QED
  BY <1>2, <1>4, <1>6, <1>7, <1>8 DEF Collected, t

LEMMA CollectedNone ==
  ASSUME NEW n \in Nat, NEW p \in Nat, NEW s, Collected(s, n, p), ~IsContent(n + 1, p)
  PROVE  Collected(s, n + 1, p)
<1>1. 1 .. n \subseteq 1 .. n + 1 /\ \A m \in 1 .. n + 1 : m \in 1 .. n \/ m = n + 1
  OBVIOUS
<1>2. s \in Seq(1 .. n + 1)
  BY <1>1 DEF Collected
<1>3. \A i \in 1 .. Len(s) : s[i] \in 1 .. n + 1 /\ IsContent(s[i], p)
  BY <1>1 DEF Collected
<1>4. \A m \in 1 .. n + 1 : IsContent(m, p) => \E i \in 1 .. Len(s) : s[i] = m
  BY <1>1 DEF Collected
<1> QED
  BY <1>2, <1>3, <1>4 DEF Collected

LEMMA ContentsAre ==
  ASSUME file \in Files, NEW p \in 0 .. N
  PROVE  Collected(Contents(p), N, p)
<1>1. PICK u : /\ Contents(p) = u[N] /\ u[0] = <<>>
               /\ \A m \in 1 .. N : u[m] = u[m - 1] \o (IF IsContent(m, p) THEN <<m>> ELSE <<>>)
  BY ContentsDef
<1> DEFINE T == {n \in 0 .. N : Collected(u[n], n, p)}
<1>2. N \in Nat /\ p \in Nat
  BY FileIs
<1>3. 0 \in T
  <2>1. Collected(<<>>, 0, p)
    BY DEF Collected
  <2> QED
    BY <1>1, <1>2, <2>1
<1>4. ASSUME NEW n \in 0 .. N - 1, n \in T PROVE n + 1 \in T
  <2>1. n \in Nat /\ n + 1 \in 0 .. N /\ n + 1 \in 1 .. N /\ (n + 1) - 1 = n
    BY <1>2
  <2>2. Collected(u[n], n, p)
    BY <1>4
  <2>3. u[n + 1] = u[n] \o (IF IsContent(n + 1, p) THEN <<n + 1>> ELSE <<>>)
    BY <1>1, <2>1
  <2>4. u[n] \in Seq(1 .. n)
    BY <2>2 DEF Collected
  <2>5. CASE IsContent(n + 1, p)
    <3>1. u[n + 1] = u[n] \o <<n + 1>>
      BY <2>3, <2>5
    <3>2. u[n + 1] = Append(u[n], n + 1)
      BY <2>4, <3>1
    <3> QED
      BY <1>2, <2>1, <2>2, <2>5, <3>2, CollectedOne
  <2>6. CASE ~IsContent(n + 1, p)
    <3>1. u[n + 1] = u[n] \o <<>>
      BY <2>3, <2>6
    <3>2. u[n + 1] = u[n]
      BY <2>4, <3>1
    <3> QED
      BY <1>2, <2>1, <2>2, <2>6, <3>2, CollectedNone
  <2> QED
    BY <2>5, <2>6
<1>5. N \in T
  <2> HIDE DEF T
  <2> QED
    BY <1>2, <1>3, <1>4, Steps
<1> QED
  BY <1>1, <1>5

-----------------------------------------------------------------------------
(* The visitors and what is theirs to print.                               *)
LEMMA WalkIs ==
  ASSUME file \in Files, NEW w \in Walks
  PROVE  /\ w.by \in Whole \cup Classes \cup Sources \cup {"Serializer"}
         /\ w # NULL
<1>1. w \in [by : Whole, interface : {NULL}] \cup [by : Classes \cup Sources, interface : Ids("interface")]
            \cup [by : {"Serializer"}, interface : {NULL}]
  BY DEF Walks
<1>2. Ids("interface") \subseteq STRING
  <2>1. \A n \in DOMAIN file : file[n].id \in STRING
    BY FileIs DEF Declaration
  <2> QED
    BY <2>1 DEF Ids
<1>3. w \in [by : STRING, interface : STRING \cup {NULL}]
  <2>1. Whole \cup Classes \cup Sources \cup {"Serializer"} \subseteq STRING
    BY WordsAssumption
  <2>2. ASSUME NEW A, NEW B, A \subseteq STRING, B \subseteq STRING \cup {NULL}, w \in [by : A, interface : B]
        PROVE  w \in [by : STRING, interface : STRING \cup {NULL}]
    BY <2>2
  <2>3. CASE w \in [by : Whole, interface : {NULL}]
    BY <2>1, <2>2, <2>3
  <2>4. CASE w \in [by : Classes \cup Sources, interface : Ids("interface")]
    BY <1>2, <2>1, <2>2, <2>4
  <2>5. CASE w \in [by : {"Serializer"}, interface : {NULL}]
    BY <2>1, <2>2, <2>5
  <2> QED
    BY <1>1, <2>3, <2>4, <2>5
<1>4. w # NULL
  BY <1>3, VisitorsAssumption
<1> QED
  BY <1>1, <1>4

LEMMA PrintableIs ==
  ASSUME file \in Files, NEW w \in Walks
  PROVE  /\ \A x \in Printable(w) : x \in 1 .. N /\ file[x].main /\ file[x].kind \in Declarations
         /\ w.by \in Whole =>
              \A x \in 1 .. N : x \in Printable(w) <=> file[x].main /\ file[x].kind \in Declarations
         /\ w.by \in Classes =>
              \A x \in 1 .. N : x \in Printable(w) <=>
                file[x].main /\ \/ file[x].kind = "module"
                                \/ x \in Own(w)
                                \/ file[x].kind = "operation" /\ In(x) \in Own(w)
         /\ w.by \in Sources =>
              \A x \in 1 .. N : x \in Printable(w) <=>
                file[x].main /\ \/ file[x].kind = "module"
                                \/ file[x].kind = "operation" /\ In(x) \in Own(w)
         /\ w.by = "Serializer" =>
              \A x \in 1 .. N : x \in Printable(w) <=>
                file[x].main /\ \/ file[x].kind = "module"
                                \/ file[x].kind = "struct" /\ file[x].alone
                                   /\ (In(x) = 0 \/ In(x) \in MainModules)
         /\ \A x \in Own(w) : x \in 1 .. N /\ file[x].main /\ file[x].kind = "interface"
                              /\ file[x].id = w.interface
         /\ \A x \in MainModules : x \in 1 .. N /\ file[x].main /\ file[x].kind = "module"
<1>0. DOMAIN file = 1 .. N
  BY FileIs
<1>1. CASE w.by \in Whole
  <2>1. Printable(w) = {n \in DOMAIN file : InKinds(n, Declarations)}
    BY <1>1 DEF Printable, Whole, Classes, Sources
  <2> QED
    BY <1>0, <1>1, <2>1 DEF InKinds, Own, MainModules, Whole, Classes, Sources
<1>2. CASE w.by \in Classes
  <2>1. Printable(w) = MainModules \cup Own(w) \cup Members("operation", Own(w))
    BY <1>2 DEF Printable, Whole, Classes, Sources
  <2> QED
    BY <1>0, <1>2, <2>1 DEF InKinds, Own, MainModules, Members, In, Whole, Classes, Sources, Declarations
<1>3. CASE w.by \in Sources
  <2>1. Printable(w) = MainModules \cup Members("operation", Own(w))
    BY <1>3 DEF Printable, Whole, Classes, Sources
  <2> QED
    BY <1>0, <1>3, <2>1 DEF InKinds, Own, MainModules, Members, In, Whole, Classes, Sources, Declarations
<1>4. CASE w.by = "Serializer"
  <2>1. Printable(w) = MainModules \cup {n \in Members("struct", MainModules \cup {0}) : file[n].alone}
    BY <1>4 DEF Printable, Whole, Classes, Sources
  <2> QED
    BY <1>0, <1>4, <2>1 DEF InKinds, Own, MainModules, Members, In, Whole, Classes, Sources, Declarations
<1> QED
  BY <1>1, <1>2, <1>3, <1>4, WalkIs

(* A visitor that does not print whole files prints nothing of what is in  *)
(* declarations it does not enter.                                         *)
LEMMA NothingUnder ==
  ASSUME file \in Files, NEW w \in Walks, w.by \notin Whole, NEW n \in 1 .. N,
         file[n].kind # "module", w.by = "Serializer" \/ n \notin Own(w)
  PROVE  \A x \in n + 1 .. End(n) - 1 : x \notin Printable(w)
<1>0. /\ N \in Nat /\ End(n) \in n + 1 .. N + 1
      /\ \A x \in n + 1 .. End(n) - 1 : x \in 1 .. N /\ In(x) \in 0 .. x - 1 /\ In(x) >= n
  <2>1. N \in Nat /\ End(n) \in n + 1 .. N + 1 /\ \A x \in n + 1 .. End(n) - 1 : In(x) >= n
    BY FileIs, EndIs
  <2>2. \A x \in n + 1 .. End(n) - 1 : x \in 1 .. N
    BY <2>1
  <2> QED
    BY <2>1, <2>2, InIs
<1> DEFINE Under == n + 1 .. End(n) - 1
<1>1. ASSUME NEW x \in Under, NEW S, In(x) \in S, n \notin S PROVE In(x) \in Under
  BY <1>0, <1>1
<1>2. \A x \in Under : file[x].kind # "module"
  <2> DEFINE M == {x \in Under : file[x].kind = "module"}
  <2> SUFFICES ASSUME M # {} PROVE FALSE
    OBVIOUS
  <2>1. M \in SUBSET Nat
    BY <1>0
  <2>2. PICK x \in M : \A y \in M : x <= y
    BY <2>1, Least
  <2>3. x \in 1 .. N /\ In(x) # 0 /\ In(x) < x /\ x \in Nat /\ In(x) \in Nat
    BY <1>0, <2>2
  <2>4. file[In(x)].kind = "module"
    BY <2>2, <2>3, FileIs DEF Nested, In
  <2>5. In(x) \in Under
    BY <1>1, <2>2, <2>4, <1>0
  <2>6. In(x) \in M
    BY <2>4, <2>5
  <2> HIDE DEF M
  <2> QED
    BY <2>2, <2>3, <2>6
<1>3. ASSUME NEW x \in Under, In(x) = 0 \/ file[In(x)].kind = "module" PROVE FALSE
  <2>1. In(x) # 0 /\ In(x) # n
    BY <1>0, <1>3
  <2>2. In(x) \in Under
    BY <1>0, <2>1
  <2> QED
    BY <1>2, <1>3, <2>1, <2>2
<1>4. \A x \in Under : x \notin Own(w)
  <2> SUFFICES ASSUME NEW x \in Under, x \in Own(w) PROVE FALSE
    OBVIOUS
  <2>1. x \in 1 .. N /\ file[x].kind = "interface"
    BY <1>0, PrintableIs
  <2>2. In(x) = 0 \/ file[In(x)].kind = "module"
    BY <2>1, FileIs DEF Nested, In
  <2> QED
    BY <1>3, <2>2
<1>5. \A x \in Under : ~(w.by # "Serializer" /\ In(x) \in Own(w))
  <2> SUFFICES ASSUME NEW x \in Under, w.by # "Serializer", In(x) \in Own(w) PROVE FALSE
    OBVIOUS
  <2>1. In(x) # n
    OBVIOUS
  <2>2. In(x) \in Under
    BY <1>0, <2>1
  <2> QED
    BY <1>4, <2>2
<1>6. \A x \in Under : In(x) # 0 /\ In(x) \notin MainModules
  BY <1>3, PrintableIs
<1> SUFFICES ASSUME NEW x \in Under, x \in Printable(w) PROVE FALSE
  OBVIOUS
<1>7. x \in 1 .. N
  BY <1>0
<1>8. w.by \in Classes \/ w.by \in Sources \/ w.by = "Serializer"
  BY WalkIs
<1> HIDE DEF Under
<1>9. "Serializer" \notin Classes \cup Sources
  BY DEF Classes, Sources
<1> QED
  BY <1>2, <1>4, <1>5, <1>6, <1>7, <1>8, <1>9, PrintableIs

-----------------------------------------------------------------------------
(* Where a declaration's text stands.                                      *)
LEMMA PlaceIs ==
  ASSUME file \in Files, NEW w \in Walks, NEW n \in 1 .. N
  PROVE  /\ Place(w, n) \in Seq(STRING \cup {ClassName})
         /\ w.by \in Whole \/ In(n) = 0 \/ file[In(n)].kind = "module" => Place(w, n) = Path[In(n)]
         /\ \A m \in 1 .. N : In(m) = In(n) => Place(w, m) = Place(w, n)
<1>1. In(n) \in 0 .. N /\ In(n) \in 0 .. n - 1 /\ N \in Nat
  BY FileIs, InIs, InParent
<1>2. CASE w.by \notin Whole /\ In(n) # 0 /\ file[In(n)].kind = "interface"
  <2>1. Place(w, n) = Path[In(In(n))] \o (IF w.by \in Classes THEN <<ClassName>> ELSE <<>>)
    BY <1>2 DEF Place, In
  <2>2. In(In(n)) \in 0 .. N
    BY <1>1, <1>2, InParent
  <2>3. Path[In(In(n))] \in Seq(STRING \cup {ClassName})
    BY <2>2, PathIs
  <2> DEFINE S == STRING \cup {ClassName}
             rest == IF w.by \in Classes THEN <<ClassName>> ELSE <<>>
  <2>4. <<ClassName>> \in Seq(S) /\ <<>> \in Seq(S)
    OBVIOUS
  <2>5. rest \in Seq(S) /\ Place(w, n) = Path[In(In(n))] \o rest /\ Path[In(In(n))] \in Seq(S)
    BY <2>1, <2>3, <2>4
  <2> HIDE DEF S, rest
  <2>6. Place(w, n) \in Seq(S)
    BY <2>5
  <2> QED
    BY <1>2, <2>6 DEF Place, In, S
<1>3. CASE ~(w.by \notin Whole /\ In(n) # 0 /\ file[In(n)].kind = "interface")
  <2>1. Place(w, n) = Path[In(n)]
    BY <1>3 DEF Place, In
  <2>2. Path[In(n)] \in Seq(STRING)
    BY <1>1, PathIs
  <2>3. Path[In(n)] \in Seq(STRING \cup {ClassName})
    BY <2>2
  <2> QED
    BY <2>1, <2>3 DEF Place, In
<1> QED
  BY <1>2, <1>3

(* The contents of a declaration with a block of its own are inside this;  *)
(* those of an interface whose members are printed are where it is.        *)
LEMMA ContentPlace ==
  ASSUME file \in Files, NEW w \in Walks, NEW n \in 1 .. N, NEW m \in 1 .. N, In(m) = n,
         w.by \in Whole \/ In(n) = 0 \/ file[In(n)].kind = "module"
  PROVE  /\ file[n].kind # "interface" \/ w.by \in Whole \cup Classes => Place(w, m) = Inside(w, n)
         /\ file[n].kind = "interface" /\ w.by \in Sources => Place(w, m) = Place(w, n)
<1>1. Place(w, n) = Path[In(n)] /\ Path[In(n)] \in Seq(STRING)
  <2>1. In(n) \in 0 .. N
    BY InParent
  <2> QED
    BY <2>1, PlaceIs, PathIs
<1>2. Path[n] = Append(Path[In(n)], file[n].id) /\ n # 0
  <2>1. N \in Nat
    BY FileIs
  <2>2. n # 0
    BY <2>1
  <2>3. Path[n] = Append(Path[In(n)], file[n].id)
    BY PathIs
  <2> QED
    BY <2>2, <2>3
<1>3. \A by \in Whole : by \notin Classes /\ by \notin Sources
  BY DEF Whole, Classes, Sources
<1>4. \A by \in Sources : by \notin Classes /\ by \notin Whole
  BY DEF Whole, Classes, Sources
<1>5. CASE w.by \notin Whole /\ file[n].kind = "interface"
  <2>1. Place(w, m) = Path[In(n)] \o (IF w.by \in Classes THEN <<ClassName>> ELSE <<>>)
    BY <1>2, <1>5 DEF Place, In
  <2>2. w.by \in Classes => Place(w, m) = Append(Place(w, n), ClassName)
    BY <1>1, <2>1
  <2>3. ASSUME w.by \in Sources PROVE Place(w, m) = Place(w, n)
    <3>1. Place(w, m) = Path[In(n)] \o <<>>
      BY <1>4, <2>1, <2>3
    <3> QED
      BY <1>1, <3>1
  <2> QED
    BY <1>5, <2>2, <2>3 DEF Inside
<1>6. CASE ~(w.by \notin Whole /\ file[n].kind = "interface")
  <2>1. Place(w, m) = Append(Place(w, n), file[n].id)
    BY <1>1, <1>2, <1>6 DEF Place, In
  <2>2. ~(file[n].kind = "interface" /\ w.by \in Classes)
    BY <1>3, <1>6
  <2> QED
    BY <1>4, <1>6, <2>1, <2>2 DEF Inside
<1> QED
  BY <1>5, <1>6

-----------------------------------------------------------------------------
(* Positions and the ways between them.                                    *)
LEMMA ReachesTrans ==
  ASSUME NEW w, NEW p, NEW q, NEW r, p.at \in Int, q.at \in Int, r.at \in Int,
         \A x \in Printable(w) : x \in Int,
         Reaches(w, p, q), Reaches(w, q, r)
  PROVE  Reaches(w, p, r)
<1>1. /\ p.scope = q.scope /\ p.node = q.node /\ p.steps = q.steps
      /\ q.scope = r.scope /\ q.node = r.node /\ q.steps = r.steps
      /\ p.at <= q.at /\ q.at <= r.at
      /\ \A x \in Printable(w) : ~(p.at <= x /\ x < q.at)
      /\ \A x \in Printable(w) : ~(q.at <= x /\ x < r.at)
  BY DEF Reaches
<1>2. \A x \in Printable(w) : ~(p.at <= x /\ x < r.at)
  BY <1>1
<1> QED
  BY <1>1, <1>2 DEF Reaches

LEMMA ReachesItself ==
  ASSUME NEW w, NEW p, p.at \in Int, \A x \in Printable(w) : x \in Int
  PROVE  Reaches(w, p, p)
BY DEF Reaches

LEMMA TasksAre ==
  ASSUME file \in Files, NEW w \in Walks, NEW t \in Tasks(w)
  PROVE  /\ t.do \in {"visit", "type", "take", "line", "close"}
         /\ t = Task(t.do, t.node, t.part)
         /\ t.node \in 1 .. N
         /\ t.do = "visit" => Reached(w, t.node)
         /\ t.do \in {"type", "take", "line"} => Lined(w, t.node)
         /\ t.do \in {"type", "take"} => t.part \in DOMAIN file[t.node].types
         /\ t.do = "close" => file[t.node].kind \in Scopes
<1>0. DOMAIN file = 1 .. N
  BY FileIs
<1>1. CASE t \in VisitTasks(w)
  BY <1>0, <1>1 DEF Task, VisitTasks
<1>2. CASE t \in LineTasks(w)
  BY <1>0, <1>2 DEF Task, LineOf, LineTasks
<1>3. CASE t \in TypeTasks(w)
  <2>1. PICK n \in DOMAIN file, do \in {"type", "take"} :
          Lined(w, n) /\ \E k \in DOMAIN file[n].types : t = Task(do, n, k)
    BY <1>3 DEF TypeTasks
  <2> QED
    BY <1>0, <2>1 DEF Task
<1>4. CASE t \in CloseTasks
  BY <1>0, <1>4 DEF Task, Close, CloseTasks
<1> QED
  BY <1>1, <1>2, <1>3, <1>4 DEF Tasks

LEMMA TasksAt ==
  ASSUME file \in Files, NEW w \in Walks, NEW t \in Tasks(w)
  PROVE  Before(w, t).at \in 1 .. N + 1 /\ After(w, t).at \in 1 .. N + 1
<1>1. /\ t.node \in 1 .. N /\ N \in Nat
      /\ t.do \in {"visit", "type", "take", "line", "close"}
  BY TasksAre, FileIs
<1>2. End(t.node) \in 1 .. N + 1 /\ First(t.node) \in 1 .. N + 1 /\ t.node + 1 \in 1 .. N + 1
      /\ t.node \in 1 .. N + 1
  <2>1. t.node \in 0 .. N
    BY <1>1
  <2>2. /\ End(t.node) \in t.node + 1 .. N + 1 /\ First(t.node) \in In(t.node) + 1 .. t.node
        /\ In(t.node) \in 0 .. t.node - 1
    BY <1>1, <2>1, EndIs, FirstIs, InIs
  <2> QED
    BY <1>1, <2>2
<1> QED
  BY <1>1, <1>2 DEF Before, After, Position, Between

LEMMA LeadsTask ==
  ASSUME NEW w, NEW p, NEW q, NEW t, Reaches(w, p, Before(w, t)), Reaches(w, After(w, t), q)
  PROVE  Leads(w, p, <<t>>, q)
<1>1. Len(<<t>>) = 1 /\ <<t>>[1] = t /\ \A k \in 0 .. 1 : k = 0 \/ k = 1
  OBVIOUS
<1> QED
  BY <1>1 DEF Leads

LEMMA LeadsNowhere ==
  ASSUME NEW w, NEW p, NEW q, Reaches(w, p, q)
  PROVE  Leads(w, p, <<>>, q)
<1>1. Len(<<>>) = 0 /\ \A k \in 0 .. 0 : k = 0
  OBVIOUS
<1> QED
  BY <1>1 DEF Leads

LEMMA Compose ==
  ASSUME file \in Files, NEW w \in Walks, NEW p, NEW q, NEW e,
         p.at \in Int, q.at \in Int, e.at \in Int,
         NEW tasks \in Seq(Tasks(w)), NEW rest \in Seq(Tasks(w)),
         Leads(w, p, tasks, q), Leads(w, q, rest, e)
  PROVE  Leads(w, p, tasks \o rest, e) /\ tasks \o rest \in Seq(Tasks(w))
<1> DEFINE A == Len(tasks)
           B == Len(rest)
           s == tasks \o rest
           From(k) == IF k = 0 THEN p ELSE After(w, s[k])
           To(k) == IF k = A + B THEN e ELSE Before(w, s[k + 1])
<1>1. /\ A \in Nat /\ B \in Nat /\ Len(s) = A + B /\ s \in Seq(Tasks(w))
      /\ \A k \in 1 .. A : s[k] = tasks[k] /\ tasks[k] \in Tasks(w)
      /\ \A k \in 1 .. B : s[A + k] = rest[k] /\ rest[k] \in Tasks(w)
  OBVIOUS
<1>2. /\ \A k \in 0 .. A : Reaches(w, IF k = 0 THEN p ELSE After(w, tasks[k]),
                                      IF k = A THEN q ELSE Before(w, tasks[k + 1]))
      /\ \A k \in 0 .. B : Reaches(w, IF k = 0 THEN q ELSE After(w, rest[k]),
                                      IF k = B THEN e ELSE Before(w, rest[k + 1]))
  BY DEF Leads
<1>3. \A x \in Printable(w) : x \in Int
  BY PrintableIs, FileIs
<1>5. \A t \in Tasks(w) : Before(w, t).at \in Int /\ After(w, t).at \in Int
  <2> TAKE t \in Tasks(w)
  <2>1. Before(w, t).at \in 1 .. N + 1 /\ After(w, t).at \in 1 .. N + 1 /\ N \in Nat
    BY TasksAt, FileIs
  <2> QED
    BY <2>1
<1> HIDE DEF A, B, s
<1>4. \A k \in 0 .. A + B : Reaches(w, From(k), To(k))
  <2> TAKE k \in 0 .. A + B
  <2>1. CASE k < A
    <3>1. k \in 0 .. A /\ k # A /\ k + 1 \in 1 .. A /\ (k # 0 => k \in 1 .. A) /\ k # A + B
      BY <1>1, <2>1
    <3>2. From(k) = IF k = 0 THEN p ELSE After(w, tasks[k])
      BY <1>1, <3>1
    <3>3. To(k) = Before(w, tasks[k + 1])
      BY <1>1, <3>1
    <3> HIDE DEF From, To
    <3> QED
      BY <1>2, <3>1, <3>2, <3>3
  <2>2. CASE k = A
    <3>1. k \in 0 .. A /\ 0 \in 0 .. B /\ (k # 0 => k \in 1 .. A) /\ (k = A + B <=> B = 0)
          /\ (B # 0 => 1 \in 1 .. B /\ 0 + 1 = 1)
      BY <1>1, <2>2
    <3>2. From(k) = IF k = 0 THEN p ELSE After(w, tasks[k])
      BY <1>1, <3>1
    <3>3. To(k) = IF 0 = B THEN e ELSE Before(w, rest[0 + 1])
      BY <1>1, <2>2, <3>1
    <3>4. From(k).at \in Int /\ To(k).at \in Int
      <4>1. k # 0 => tasks[k] \in Tasks(w)
        BY <1>1, <3>1
      <4>2. B # 0 => rest[0 + 1] \in Tasks(w)
        BY <1>1, <3>1
      <4> HIDE DEF From, To
      <4> QED
        BY <1>5, <3>2, <3>3, <4>1, <4>2
    <3> HIDE DEF From, To
    <3>5. Reaches(w, From(k), q)
      BY <1>2, <2>2, <3>1, <3>2
    <3>6. Reaches(w, q, To(k))
      BY <1>2, <3>1, <3>3
    <3> QED
      BY <1>3, <3>4, <3>5, <3>6, ReachesTrans
  <2>3. CASE k > A
    <3> DEFINE j == k - A
    <3>1. j \in 0 .. B /\ j # 0 /\ j \in 1 .. B /\ A + j = k /\ k # 0 /\ (k = A + B <=> j = B)
          /\ (j # B => j + 1 \in 1 .. B /\ A + (j + 1) = k + 1)
      BY <1>1, <2>3
    <3> HIDE DEF j
    <3>2. From(k) = After(w, rest[j])
      <4>1. s[k] = rest[j]
        BY <1>1, <3>1
      <4> QED
        BY <3>1, <4>1
    <3>3. To(k) = IF j = B THEN e ELSE Before(w, rest[j + 1])
      <4>1. j # B => s[k + 1] = rest[j + 1]
        BY <1>1, <3>1
      <4> QED
        BY <3>1, <4>1
    <3> HIDE DEF From, To
    <3> QED
      BY <1>2, <3>1, <3>2, <3>3
  <2> QED
    BY <1>1, <2>1, <2>2, <2>3
<1> QED
  BY <1>1, <1>4 DEF Leads, s

-----------------------------------------------------------------------------
(* Visits of a declaration's contents lead from its begin to its end.      *)
LEMMA VisitIs ==
  ASSUME file \in Files, NEW w \in Walks, NEW n \in 1 .. N, Reached(w, n)
  PROVE  /\ Task("visit", n, 0) \in Tasks(w)
         /\ Before(w, Task("visit", n, 0)) = Between(First(n), Place(w, n))
         /\ After(w, Task("visit", n, 0)) = Between(End(n), Place(w, n))
<1>1. Task("visit", n, 0) \in VisitTasks(w)
  BY FileIs DEF VisitTasks
<1> QED
  BY <1>1 DEF Tasks, Before, After, Task

LEMMA VisitsLead ==
  ASSUME file \in Files, NEW w \in Walks, NEW c \in 0 .. N, NEW S,
         \A m \in 1 .. N : IsContent(m, c) => Place(w, m) = S /\ Reached(w, m)
  PROVE  /\ Visits(Contents(c)) \in Seq(Tasks(w))
         /\ Leads(w, Between(c + 1, S), Visits(Contents(c)), Between(End(c), S))
<1> DEFINE C == Contents(c)
           V == Visits(C)
           L == Len(C)
<1>1. /\ C \in Seq(1 .. N) /\ L \in Nat
      /\ \A i \in 1 .. L : C[i] \in 1 .. N /\ IsContent(C[i], c)
      /\ \A i, j \in 1 .. L : i < j => C[i] < C[j]
      /\ \A m \in 1 .. N : IsContent(m, c) => \E i \in 1 .. L : C[i] = m
  BY ContentsAre DEF Collected
<1>2. \A i \in 1 .. L : /\ V[i] = Task("visit", C[i], 0) /\ V[i] \in Tasks(w)
                        /\ Before(w, V[i]) = Between(First(C[i]), S)
                        /\ After(w, V[i]) = Between(End(C[i]), S)
  <2> TAKE i \in 1 .. L
  <2>1. V[i] = Task("visit", C[i], 0)
    BY <1>1 DEF Visits
  <2>2. C[i] \in 1 .. N /\ Place(w, C[i]) = S /\ Reached(w, C[i])
    BY <1>1
  <2> QED
    BY <2>1, <2>2, VisitIs
<1>3. V \in Seq(Tasks(w)) /\ Len(V) = L
  <2>1. DOMAIN C = 1 .. L
    BY <1>1
  <2>2. V = [k \in 1 .. L |-> V[k]]
    BY <2>1 DEF Visits
  <2> HIDE DEF V
  <2> QED
    BY <1>1, <1>2, <2>2
<1>4. /\ N \in Nat /\ c \in Nat /\ c + 1 <= End(c) /\ End(c) \in Int
      /\ \A x \in Printable(w) : x \in 1 .. N /\ file[x].main /\ x \in Int
  BY FileIs, EndIs, PrintableIs
<1>5. \A i \in 1 .. L : /\ First(C[i]) \in Int /\ End(C[i]) \in Int
                        /\ c + 1 <= First(C[i]) /\ First(C[i]) <= C[i]
                        /\ C[i] < End(C[i]) /\ End(C[i]) <= End(c)
  <2> TAKE i \in 1 .. L
  <2>1. C[i] \in 1 .. N /\ C[i] \in 0 .. N /\ IsContent(C[i], c)
    BY <1>1, <1>4
  <2>2. First(C[i]) \in Int /\ End(C[i]) \in Int
    <3>1. First(C[i]) \in In(C[i]) + 1 .. C[i] /\ End(C[i]) \in C[i] + 1 .. N + 1
      BY <2>1, FirstIs, EndIs
    <3> QED
      BY <3>1
  <2> QED
    BY <2>1, <2>2, ContentIn
<1>6. \A i, j \in 1 .. L : i < j => End(C[i]) <= First(C[j])
  BY <1>1, Siblings
<1>7. \A x \in c + 1 .. End(c) - 1 : x \in Printable(w) =>
        \E i \in 1 .. L : First(C[i]) <= x /\ x < End(C[i])
  <2> TAKE x \in c + 1 .. End(c) - 1
  <2> HAVE x \in Printable(w)
  <2>1. PICK d \in 1 .. N : IsContent(d, c) /\ First(d) <= x /\ x < End(d)
    BY <1>4, ChildCovers
  <2>2. PICK i \in 1 .. L : C[i] = d
    BY <1>1, <2>1
  <2> QED
    BY <2>1, <2>2
<1> DEFINE From(k) == IF k = 0 THEN c + 1 ELSE End(C[k])
           To(k) == IF k = L THEN End(c) ELSE First(C[k + 1])
<1> HIDE DEF C, V, L
<1>8. \A k \in 0 .. L : From(k) <= To(k) /\ \A x \in Printable(w) : ~(From(k) <= x /\ x < To(k))
  <2> TAKE k \in 0 .. L
  <2>1. (k # 0 => k \in 1 .. L) /\ (k # L => k + 1 \in 1 .. L /\ k < k + 1)
    BY <1>1
  <2>2. From(k) \in Int /\ To(k) \in Int /\ c + 1 <= From(k) /\ To(k) <= End(c)
    <3>1. k # 0 => C[k] \in Int /\ c + 1 <= End(C[k]) /\ End(C[k]) \in Int
      BY <1>1, <1>4, <1>5, <2>1
    <3>2. k # L => C[k + 1] \in Int /\ First(C[k + 1]) <= End(c) /\ First(C[k + 1]) \in Int
      BY <1>1, <1>4, <1>5, <2>1
    <3> QED
      BY <1>4, <3>1, <3>2
  <2>3. From(k) <= To(k)
    <3>1. CASE k = 0 \/ k = L
      BY <1>4, <1>5, <2>1, <3>1
    <3>2. CASE k # 0 /\ k # L
      BY <1>6, <2>1, <3>2
    <3> QED
      BY <3>1, <3>2
  <2>4. ASSUME NEW x \in Printable(w), From(k) <= x, x < To(k) PROVE FALSE
    <3>1. x \in c + 1 .. End(c) - 1
      BY <1>4, <2>2, <2>4
    <3>2. PICK i \in 1 .. L : First(C[i]) <= x /\ x < End(C[i])
      BY <1>7, <2>4, <3>1
    <3>3. CASE i <= k
      <4>1. k # 0 /\ k \in 1 .. L /\ End(C[k]) <= x
        BY <1>1, <2>1, <2>4, <3>3
      <4>2. i < k \/ i = k
        BY <3>3, <4>1
      <4>3. CASE i < k
        <5>1. End(C[i]) <= First(C[k]) /\ First(C[k]) <= C[k] /\ C[k] < End(C[k]) /\ C[k] \in Int
          BY <1>1, <1>5, <1>6, <4>1, <4>3
        <5> QED
          BY <1>4, <1>5, <3>2, <4>1, <5>1
      <4>4. CASE i = k
        BY <1>4, <1>5, <3>2, <4>1, <4>4
      <4> QED
        BY <4>2, <4>3, <4>4
    <3>4. CASE i > k
      <4>1. k # L /\ k + 1 \in 1 .. L /\ x < First(C[k + 1])
        BY <1>1, <2>1, <2>4, <3>4
      <4>2. k + 1 < i \/ i = k + 1
        BY <3>4, <4>1
      <4>3. CASE k + 1 < i
        <5>1. /\ End(C[k + 1]) <= First(C[i]) /\ First(C[k + 1]) <= C[k + 1]
              /\ C[k + 1] < End(C[k + 1]) /\ C[k + 1] \in Int
          BY <1>1, <1>5, <1>6, <4>1, <4>3
        <5> QED
          BY <1>4, <1>5, <3>2, <4>1, <5>1
      <4>4. CASE i = k + 1
        BY <1>4, <1>5, <3>2, <4>1, <4>4
      <4> QED
        BY <4>2, <4>3, <4>4
    <3> QED
      BY <3>3, <3>4
  <2> QED
    BY <2>3, <2>4
<1>9. \A k \in 0 .. L :
        Reaches(w, IF k = 0 THEN Between(c + 1, S) ELSE After(w, V[k]),
                   IF k = L THEN Between(End(c), S) ELSE Before(w, V[k + 1]))
  <2> TAKE k \in 0 .. L
  <2>1. (k # 0 => k \in 1 .. L) /\ (k # L => k + 1 \in 1 .. L)
    BY <1>1
  <2>2. (IF k = 0 THEN Between(c + 1, S) ELSE After(w, V[k])) = Between(From(k), S)
    BY <1>2, <2>1
  <2>3. (IF k = L THEN Between(End(c), S) ELSE Before(w, V[k + 1])) = Between(To(k), S)
    BY <1>2, <2>1
  <2> HIDE DEF From, To
  <2>4. Reaches(w, Between(From(k), S), Between(To(k), S))
    BY <1>8 DEF Reaches, Between, Position
  <2> QED
    BY <2>2, <2>3, <2>4
<1> QED
  BY <1>3, <1>9 DEF Leads, V, C, L

-----------------------------------------------------------------------------
(* A step that leaves the file leaves all that is said of it.              *)
LEMMA Static ==
  ASSUME file' = file
  PROVE  /\ Path' = Path /\ Walks' = Walks /\ TheEnd' = TheEnd
         /\ \A n : Contents(n)' = Contents(n) /\ End(n)' = End(n) /\ First(n)' = First(n)
                   /\ LastModule(n)' = LastModule(n)
         /\ \A w : Printable(w)' = Printable(w)
BY DEF Path, Walks, Ids, TheEnd, Between, Position, Contents, IsContent, End, First, LastModule,
       InKinds, Printable, MainModules, Own, Members

LEMMA StaticPlace ==
  ASSUME file' = file, NEW w, NEW n
  PROVE  Place(w, n)' = Place(w, n) /\ Inside(w, n)' = Inside(w, n)
BY Static DEF Place, Inside

LEMMA StaticTasks ==
  ASSUME file' = file, NEW w
  PROVE  /\ Tasks(w)' = Tasks(w)
         /\ \A t : Before(w, t)' = Before(w, t) /\ After(w, t)' = After(w, t)
<1>1. \A t : Before(w, t)' = Before(w, t)
  BY Static, StaticPlace DEF Before, Position, Between
<1>2. \A t : After(w, t)' = After(w, t)
  BY Static, StaticPlace DEF After, Position, Between
<1>3. Tasks(w)' = Tasks(w)
  BY Static DEF Tasks, VisitTasks, TypeTasks, LineTasks, CloseTasks, Reached, Lined, Own, InKinds,
                BadComment
<1> QED
  BY <1>1, <1>2, <1>3

LEMMA StaticLeads ==
  ASSUME file' = file, NEW w, NEW p, NEW ts, NEW q, Leads(w, p, ts, q)
  PROVE  Leads(w, p, ts, q)'
BY Static, StaticTasks DEF Leads, Reaches

LEMMA StaticNames ==
  ASSUME file' = file, NEW w
  PROVE  /\ \A a, n, k, x : Left(w, a, n, k, x)' <=> Left(w, a, n, k, x)
         /\ \A n, k, x : Named(w, n, k, x)' <=> Named(w, n, k, x)
         /\ \A n, k, x : Fits(w, n, k, x)' <=> Fits(w, n, k, x)
         /\ \A n, k : Unnamed(w, n, k)' <=> Unnamed(w, n, k)
         /\ Causes(w)' = Causes(w)
         /\ \A n : TypesTaken(w, n)' = TypesTaken(w, n) /\ Further(w, n)' = Further(w, n)
<1>0. \A a, n, k, x : Left(w, a, n, k, x)' <=> Left(w, a, n, k, x)
  <2>1. \A a, n, k, m, j : Namer(w, a, n, k, m, j)' <=> Namer(w, a, n, k, m, j)
    BY Static DEF Namer, UpTo, TypesTaken
  <2>2. \A m, j : Names(w.by, file[m].types[j], NULL)' = Names(w.by, file[m].types[j], NULL)
    BY Static DEF Names
  <2> QED
    BY <2>1, <2>2 DEF Left
<1>6. \A n, k, x : Named(w, n, k, x)' <=> Named(w, n, k, x)
  BY Static DEF Named, Names
<1>1. \A n, k, x : Fits(w, n, k, x)' <=> Fits(w, n, k, x)
  BY <1>0, <1>6 DEF Fits
<1>2. \A n : TypesTaken(w, n)' = TypesTaken(w, n)
  BY Static DEF TypesTaken
<1>3. \A n, k : Unnamed(w, n, k)' <=> Unnamed(w, n, k)
  BY Static, <1>2 DEF Unnamed
<1>4. Causes(w)' = Causes(w)
  <2>1. \A n : NeedsDeclarator(n)' <=> NeedsDeclarator(n)
    BY DEF NeedsDeclarator
  <2>2. Printable(w)' = Printable(w)
    BY Static
  <2> QED
    BY <1>2, <1>3, <2>1, <2>2 DEF Causes, BadComment
<1>5. \A n : Further(w, n)' = Further(w, n)
  BY Static DEF Further, ItsInterface, Scoped, Derives
<1> QED
  BY <1>0, <1>1, <1>2, <1>3, <1>4, <1>5, <1>6

LEMMA StaticHolds ==
  ASSUME file' = file, NEW w, NEW p, NEW open, NEW module, NEW printed, NEW took, NEW type,
         Holds(w, p, open, module, printed, took, type)
  PROVE  Holds(w, p, open, module, printed, took, type)'
BY Static, StaticNames DEF Holds, Nameless

LEMMA StaticLine ==
  ASSUME file' = file, NEW w, NEW l, LineFits(w, l)
  PROVE  LineFits(w, l)'
BY Static, StaticNames, StaticPlace DEF LineFits

-----------------------------------------------------------------------------
(* What holds at a position holds at one that it reaches.                  *)
LEMMA ModulesPrinted ==
  ASSUME file \in Files, NEW w \in Walks, NEW n \in 1 .. N, InKinds(n, {"module"})
  PROVE  n \in Printable(w)
BY PrintableIs, WalkIs DEF InKinds, Declarations

LEMMA LastModuleSame ==
  ASSUME file \in Files, NEW w \in Walks, NEW a \in 1 .. N + 1, NEW b \in 1 .. N + 1, a <= b,
         \A x \in Printable(w) : ~(a <= x /\ x < b)
  PROVE  LastModule(a) = LastModule(b)
<1> DEFINE ms(c) == {m \in 1 .. c - 1 : InKinds(m, {"module"})}
<1>1. N \in Nat
  BY FileIs
<1>2. \A m : m \in ms(b) => m \in ms(a)
  <2> SUFFICES ASSUME NEW m \in ms(b) PROVE m \in ms(a)
    OBVIOUS
  <2>1. m \in 1 .. N /\ m \in Int /\ m < b /\ InKinds(m, {"module"})
    BY <1>1
  <2>2. m \in Printable(w)
    BY <2>1, ModulesPrinted
  <2>3. m < a
    BY <1>1, <2>1, <2>2
  <2> QED
    BY <1>1, <2>1, <2>3
<1>3. \A m : m \in ms(a) => m \in ms(b)
  BY <1>1
<1>4. ms(a) = ms(b)
  BY <1>2, <1>3
<1> QED
  BY <1>4 DEF LastModule

LEMMA LeftSame ==
  ASSUME NEW w, NEW at, NEW n, NEW k, NEW to, NEW m, NEW j,
         \A x \in Printable(w) : \A i \in DOMAIN TypesTaken(w, x) :
           UpTo(at, n, k, x, i) <=> UpTo(to, m, j, x, i)
  PROVE  \A name : Left(w, at, n, k, name) => Left(w, to, m, j, name)
<1>1. \A a, b : Namer(w, at, n, k, a, b) => Namer(w, to, m, j, a, b)
  BY Zenon DEF Namer
<1> QED
  BY <1>1 DEF Left

LEMMA Arriving ==
  ASSUME file \in Files, NEW w \in Walks, NEW p, NEW q,
         p.at \in 1 .. N + 1, q.at \in 1 .. N + 1, Reaches(w, p, q),
         NEW open, NEW module, NEW printed, NEW took, NEW type,
         Holds(w, p, open, module, printed, took, type)
  PROVE  Holds(w, q, open, module, printed, took, type)
<1>1. /\ p.scope = q.scope /\ p.node = q.node /\ p.steps = q.steps
      /\ p.at <= q.at
      /\ \A x \in Printable(w) : ~(p.at <= x /\ x < q.at)
  BY DEF Reaches
<1>2. N \in Nat /\ \A x \in Printable(w) : x \in Int
  BY FileIs, PrintableIs
<1>3. \A x \in Printable(w) : x < p.at <=> x < q.at
  BY <1>1, <1>2
<1>4. LastModule(p.at) = LastModule(q.at)
  BY <1>1, LastModuleSame
<1>5. {x \in Printable(w) : x < p.at} = {x \in Printable(w) : x < q.at}
  BY <1>3
<1>6. \A x \in Causes(w) : x >= p.at => x >= q.at
  <2>1. Causes(w) \subseteq Printable(w)
    BY DEF Causes
  <2> QED
    BY <1>2, <1>3, <2>1
<1>7. Nameless(w, p) <=> Nameless(w, q)
  BY <1>1, <1>3 DEF Nameless
<1>8. \A k, name : Left(w, p.at, p.node, k, name) => Left(w, q.at, q.node, k, name)
  <2> TAKE k
  <2>1. \A x \in Printable(w) : \A i \in DOMAIN TypesTaken(w, x) :
          UpTo(p.at, p.node, k, x, i) <=> UpTo(q.at, q.node, k, x, i)
    BY <1>1, <1>3 DEF UpTo
  <2> QED
    BY <2>1, LeftSame
<1> QED
  BY <1>1, <1>4, <1>5, <1>6, <1>7, <1>8 DEF Holds

-----------------------------------------------------------------------------
(* A walk goes on: from where it is then, its tasks lead to the end.       *)
Start(w, ts) == IF ts = <<>> THEN TheEnd ELSE Before(w, ts[1])

LEMMA GoesOn ==
  ASSUME file \in Files, NEW w \in Walks, NEW p, p.at \in 1 .. N + 1,
         NEW ts \in Seq(Tasks(w)), Leads(w, p, ts, TheEnd),
         NEW open, NEW module, NEW printed, NEW took, NEW type,
         Holds(w, p, open, module, printed, took, type)
  PROVE  /\ Holds(w, Start(w, ts), open, module, printed, took, type)
         /\ Leads(w, Start(w, ts), ts, TheEnd)
<1> DEFINE q == Start(w, ts)
<1>0. N \in Nat /\ N + 1 \in 1 .. N + 1 /\ \A x \in Printable(w) : x \in Int
  BY FileIs, PrintableIs
<1>1. q.at \in 1 .. N + 1
  <2>1. CASE ts = <<>>
    BY <1>0, <2>1 DEF TheEnd, Between, Position, N, Start
  <2>2. CASE ts # <<>>
    <3>1. ts[1] \in Tasks(w)
      BY <2>2
    <3> QED
      BY <2>2, <3>1, TasksAt DEF Start
  <2> QED
    BY <2>1, <2>2
<1>2. /\ Len(ts) \in Nat /\ (ts = <<>> <=> Len(ts) = 0)
      /\ \A k \in 0 .. Len(ts) : Reaches(w, IF k = 0 THEN p ELSE After(w, ts[k]),
                                            IF k = Len(ts) THEN TheEnd ELSE Before(w, ts[k + 1]))
  BY DEF Leads
<1>3. q = IF 0 = Len(ts) THEN TheEnd ELSE Before(w, ts[0 + 1])
  BY <1>2 DEF Start
<1> HIDE DEF q
<1>4. Reaches(w, p, q)
  <2>1. 0 \in 0 .. Len(ts)
    BY <1>2
  <2>2. Reaches(w, p, IF 0 = Len(ts) THEN TheEnd ELSE Before(w, ts[0 + 1]))
    BY <1>2, <2>1
  <2> QED
    BY <1>3, <2>2
<1>5. Holds(w, q, open, module, printed, took, type)
  BY <1>1, <1>4, Arriving
<1>6. Reaches(w, q, q)
  BY <1>0, <1>1, ReachesItself
<1>7. \A k \in 0 .. Len(ts) : Reaches(w, IF k = 0 THEN q ELSE After(w, ts[k]),
                                         IF k = Len(ts) THEN TheEnd ELSE Before(w, ts[k + 1]))
  <2> TAKE k \in 0 .. Len(ts)
  <2>1. CASE k # 0
    BY <1>2, <2>1
  <2>2. CASE k = 0
    BY <1>3, <1>6, <2>2
  <2> QED
    BY <2>1, <2>2
<1>8. Leads(w, q, ts, TheEnd)
  BY <1>7 DEF Leads
<1> QED
  BY <1>5, <1>8 DEF q

LEMMA UnderWayNext ==
  ASSUME file \in Files, file' = file, NEW w \in Walks, NEW p, p.at \in 1 .. N + 1,
         NEW ts \in Seq(Tasks(w)), todo' = ts, Leads(w, p, ts, TheEnd),
         text'[w].how = "not yet",
         NEW open, NEW module, NEW printed, NEW took, NEW type,
         scope' = open, module_name' = module, Printed(w)' = printed, taken' = took, result' = type,
         Holds(w, p, open, module, printed, took, type)
  PROVE  UnderWay(w)'
<1>1. PICK q : q = Start(w, ts)
  OBVIOUS
<1>2. Holds(w, q, open, module, printed, took, type) /\ Leads(w, q, ts, TheEnd)
  BY <1>1, GoesOn
<1>3. PICK e : e = TheEnd
  OBVIOUS
<1>4. Holds(w, q, open, module, printed, took, type)' /\ Leads(w, q, ts, e)'
  BY <1>2, <1>3, StaticHolds, StaticLeads
<1>5. TheEnd' = e
  BY <1>3, Static
<1>6. (IF todo = <<>> THEN TheEnd ELSE Before(w, todo[1]))' = q
  <2>1. Before(w, todo[1])' = Before(w, ts[1])
    BY StaticTasks
  <2> QED
    BY <1>1, <2>1, Static DEF Start
<1>7. At(w, q)'
  BY <1>4 DEF At
<1>8. todo' \in Seq(Tasks(w)')
  BY StaticTasks
<1> QED
  BY <1>4, <1>5, <1>6, <1>7, <1>8 DEF UnderWay

-----------------------------------------------------------------------------
(* The texts after a step: kept, with a line more, or ended.               *)
LEMMA TextKept ==
  ASSUME file' = file, NEW v, LinesFit(v), Ended(v), text'[v] = text[v], v # walk' => v # walk
  PROVE  LinesFit(v)' /\ Ended(v)' /\ Printed(v)' = Printed(v)
<1>1. \A l : LineFits(v, l) => LineFits(v, l)'
  BY StaticLine
<1>2. LinesFit(v)'
  BY <1>1 DEF LinesFit
<1>3. Printed(v)' = Printed(v)
  BY DEF Printed
<1>4. Ended(v)'
  BY <1>3, Static, StaticNames DEF Ended
<1> QED
  BY <1>2, <1>3, <1>4

LEMMA Appended ==
  ASSUME NEW s, NEW l, Len(s) \in Nat, s = [k \in 1 .. Len(s) |-> s[k]]
  PROVE  /\ Len(Append(s, l)) = Len(s) + 1
         /\ Append(s, l) = [k \in 1 .. Len(s) + 1 |-> Append(s, l)[k]]
         /\ Append(s, l)[Len(s) + 1] = l
         /\ \A k \in 1 .. Len(s) : Append(s, l)[k] = s[k]
<1> DEFINE n == Len(s)
           R == {s[k] : k \in 1 .. n} \cup {l}
<1>1. \A k \in 1 .. n : s[k] \in R
  OBVIOUS
<1> HIDE DEF R
<1>2. s \in Seq(R) /\ l \in {l}
  BY <1>1
<1> DEFINE t == Append(s, l)
<1>3. t \in Seq(R \cup {l}) /\ Len(t) = n + 1 /\ t[n + 1] = l /\ \A k \in 1 .. n : t[k] = s[k]
  BY <1>2
<1> HIDE DEF t
<1>4. t = [k \in 1 .. n + 1 |-> t[k]]
  BY <1>3
<1> QED
  BY <1>3, <1>4 DEF t

LEMMA LineAdded ==
  ASSUME NEW w, NEW l, LinesFit(w), w \in DOMAIN text,
         text' = [text EXCEPT ![w].lines = Append(@, l)]
  PROVE  text'[w] = [lines |-> Append(text[w].lines, l), how |-> text[w].how]
<1> DEFINE t == Append(text[w].lines, l)
<1>1. text'[w] = [text[w] EXCEPT !.lines = Append(@, l)]
  OBVIOUS
<1>2. text[w] = [lines |-> text[w].lines, how |-> text[w].how]
  BY DEF LinesFit
<1> HIDE DEF t
<1>3. text'[w] = [text[w] EXCEPT !.lines = t]
  BY <1>1 DEF t
<1>4. text'[w] = [lines |-> t, how |-> text[w].how]
  BY <1>2, <1>3
<1> QED
  BY <1>4 DEF t

LEMMA TextGrows ==
  ASSUME file' = file, NEW w, NEW l, LinesFit(w), NEW ls, NEW t,
         ls = text[w].lines, t = Append(ls, l), text'[w] = [lines |-> t, how |-> text[w].how],
         LineFits(w, l), l.node \in Int,
         \A x \in Printed(w) : x \in Int /\ x < l.node
  PROVE  LinesFit(w)' /\ text'[w].how = text[w].how /\ Printed(w)' = Printed(w) \cup {l.node}
<1> DEFINE n == Len(ls)
<1>1. /\ text[w] = [lines |-> ls, how |-> text[w].how]
      /\ n \in Nat /\ ls = [p \in 1 .. n |-> ls[p]]
      /\ \A p, q \in DOMAIN ls : p < q => ls[p].node < ls[q].node
      /\ \A p \in DOMAIN ls : LineFits(w, ls[p])
  BY DEF LinesFit
<1>2. text'[w] = [lines |-> t, how |-> text[w].how]
  OBVIOUS
<1>3. /\ Len(t) = n + 1 /\ t = [k \in 1 .. n + 1 |-> t[k]] /\ t[n + 1] = l
      /\ \A k \in 1 .. n : t[k] = ls[k]
  BY <1>1, Appended
<1>4. DOMAIN ls = 1 .. n /\ DOMAIN t = 1 .. n + 1
  BY <1>1, <1>3
<1> HIDE DEF n
<1>5. \A k \in 1 .. n + 1 : k \in 1 .. n \/ k = n + 1
  BY <1>1
<1>6. \A p \in 1 .. n : ls[p].node \in Printed(w)
  BY <1>4 DEF Printed
<1>7. \A p, q \in 1 .. n + 1 : p < q => t[p].node < t[q].node
  <2> TAKE p, q \in 1 .. n + 1
  <2>1. CASE p \in 1 .. n /\ q \in 1 .. n
    BY <1>1, <1>3, <1>4, <2>1
  <2>2. CASE p \in 1 .. n /\ q = n + 1
    BY <1>3, <1>6, <2>2
  <2>3. CASE p = n + 1
    BY <1>1, <2>3
  <2> QED
    BY <1>5, <2>1, <2>2, <2>3
<1>8. \A p \in 1 .. n + 1 : LineFits(w, t[p])
  BY <1>1, <1>3, <1>4, <1>5
<1>9. \A k : LineFits(w, k) => LineFits(w, k)'
  BY StaticLine
<1>10. text'[w].lines = t /\ text'[w].how = text[w].how
  BY <1>2
<1>11. LinesFit(w)'
  <2>1. text'[w] = [lines |-> text'[w].lines, how |-> text'[w].how]
    BY <1>2, <1>10
  <2>2. n + 1 \in Nat
    BY <1>1
  <2>3. \A p \in DOMAIN t : LineFits(w, t[p])'
    BY <1>4, <1>8, <1>9
  <2>4. \A p, q \in DOMAIN t : p < q => t[p].node < t[q].node
    BY <1>4, <1>7
  <2>5. Len(t) \in Nat /\ t = [p \in 1 .. Len(t) |-> t[p]]
    BY <1>3, <2>2
  <2> QED
    BY <1>10, <2>1, <2>3, <2>4, <2>5 DEF LinesFit
<1>12. Printed(w) = {ls[p].node : p \in 1 .. n}
  BY <1>4 DEF Printed
<1>13. Printed(w)' = {t[p].node : p \in 1 .. n + 1}
  BY <1>4, <1>10 DEF Printed
<1>14. {t[p].node : p \in 1 .. n + 1} = {ls[p].node : p \in 1 .. n} \cup {l.node}
  <2>1. \A p \in 1 .. n + 1 : t[p].node \in {ls[k].node : k \in 1 .. n} \cup {l.node}
    BY <1>3, <1>5
  <2>2. \A p \in 1 .. n : p \in 1 .. n + 1 /\ t[p].node = ls[p].node
    <3> TAKE p \in 1 .. n
    <3>1. p \in 1 .. n + 1
      BY <1>1
    <3>2. t[p] = ls[p]
      BY <1>3
    <3> QED
      BY <3>1, <3>2
  <2>3. n + 1 \in 1 .. n + 1 /\ t[n + 1].node = l.node
    BY <1>1, <1>3
  <2> DEFINE A == {ls[p].node : p \in 1 .. n}
             B == {t[p].node : p \in 1 .. n + 1}
  <2>4. \A y \in A : y \in B
    BY <2>2
  <2>5. l.node \in B
    BY <2>3
  <2>6. \A y \in B : y \in A \cup {l.node}
    BY <2>1
  <2> HIDE DEF A, B
  <2>7. B = A \cup {l.node}
    BY <2>4, <2>5, <2>6
  <2> QED
    BY <2>7 DEF A, B
<1> QED
  BY <1>10, <1>11, <1>12, <1>13, <1>14

-----------------------------------------------------------------------------
(* Steps of a walk: it does the first task in order to do others, and its  *)
(* text stays, has one line more, or ends.                                 *)
LEMMA LeadsTail ==
  ASSUME NEW w, NEW p, NEW e, NEW S, NEW tasks \in Seq(S), tasks # <<>>, Leads(w, p, tasks, e)
  PROVE  Leads(w, After(w, tasks[1]), Tail(tasks), e)
<1> DEFINE L == Len(tasks)
           r == Tail(tasks)
<1>1. /\ L \in Nat /\ L >= 1 /\ Len(r) = L - 1
      /\ \A k \in 1 .. L - 1 : r[k] = tasks[k + 1]
  OBVIOUS
<1>2. \A k \in 0 .. L : Reaches(w, IF k = 0 THEN p ELSE After(w, tasks[k]),
                                   IF k = L THEN e ELSE Before(w, tasks[k + 1]))
  BY DEF Leads
<1> HIDE DEF L, r
<1>3. \A k \in 0 .. L - 1 : Reaches(w, IF k = 0 THEN After(w, tasks[1]) ELSE After(w, r[k]),
                                       IF k = L - 1 THEN e ELSE Before(w, r[k + 1]))
  <2> TAKE k \in 0 .. L - 1
  <2>1. /\ k + 1 \in 0 .. L /\ k + 1 # 0 /\ (k + 1 = L <=> k = L - 1)
        /\ (k # 0 => k \in 1 .. L - 1) /\ (k # L - 1 => k + 1 \in 1 .. L - 1) /\ 0 + 1 = 1
    BY <1>1
  <2>2. (IF k = 0 THEN After(w, tasks[1]) ELSE After(w, r[k])) = After(w, tasks[k + 1])
    BY <1>1, <2>1
  <2>3. (IF k = L - 1 THEN e ELSE Before(w, r[k + 1]))
          = IF k + 1 = L THEN e ELSE Before(w, tasks[(k + 1) + 1])
    BY <1>1, <2>1
  <2>4. Reaches(w, After(w, tasks[k + 1]), IF k + 1 = L THEN e ELSE Before(w, tasks[(k + 1) + 1]))
    BY <1>2, <2>1
  <2> QED
    BY <2>2, <2>3, <2>4
<1> QED
  BY <1>1, <1>3 DEF Leads, r

LEMMA HeadTail ==
  ASSUME NEW S, NEW s \in Seq(S), s # <<>>
  PROVE  s[1] \in S /\ Head(s) = s[1] /\ Tail(s) \in Seq(S)
OBVIOUS

LEMMA Doing1 ==
  ASSUME IInv, NEW w \in Walks, walk = w, todo # <<>>
  PROVE  /\ file \in Files /\ text[w].how = "not yet" /\ DOMAIN text = Walks
         /\ todo \in Seq(Tasks(w)) /\ todo[1] \in Tasks(w) /\ Head(todo) = todo[1]
         /\ Tail(todo) \in Seq(Tasks(w))
         /\ At(w, Before(w, todo[1]))
         /\ Leads(w, After(w, todo[1]), Tail(todo), TheEnd)
<1>1. file \in Files /\ DOMAIN text = Walks /\ walk # NULL
  BY WalkIs DEF IInv, TypeOK
<1>2. UnderWay(w)
  BY <1>1 DEF IInv
<1>3. /\ text[w].how = "not yet" /\ todo \in Seq(Tasks(w))
      /\ At(w, Before(w, todo[1])) /\ Leads(w, Before(w, todo[1]), todo, TheEnd)
  BY <1>2 DEF UnderWay
<1>4. todo[1] \in Tasks(w) /\ Head(todo) = todo[1] /\ Tail(todo) \in Seq(Tasks(w))
  BY <1>3, HeadTail
<1>5. Leads(w, After(w, todo[1]), Tail(todo), TheEnd)
  BY <1>3, LeadsTail
<1> QED
  BY <1>1, <1>3, <1>4, <1>5

LEMMA OthersKept ==
  ASSUME IInv, file' = file, NEW w \in Walks, walk = w, walk' = w,
         \A v \in Walks : v # w => text'[v] = text[v]
  PROVE  \A v \in Walks : v # w => LinesFit(v)' /\ Ended(v)'
<1> TAKE v \in Walks
<1> HAVE v # w
<1>1. LinesFit(v) /\ Ended(v) /\ text'[v] = text[v]
  BY DEF IInv
<1> QED
  BY <1>1, TextKept

LEMMA GoesWith ==
  ASSUME IInv, file' = file, NEW w \in Walks, walk = w, walk' = w, todo # <<>>,
         DOMAIN text' = Walks, \A v \in Walks : text'[v].how = text[v].how,
         \A v \in Walks : LinesFit(v)' /\ Ended(v)',
         NEW p, p.at \in 1 .. N + 1, NEW ts \in Seq(Tasks(w)), todo' = ts \o Tail(todo),
         Leads(w, p, ts, After(w, todo[1])),
         NEW open, NEW module, NEW printed, NEW took, NEW type,
         scope' = open, module_name' = module, Printed(w)' = printed, taken' = took, result' = type,
         Holds(w, p, open, module, printed, took, type)
  PROVE  IInv'
<1>1. /\ file \in Files /\ text[w].how = "not yet"
      /\ todo[1] \in Tasks(w) /\ Tail(todo) \in Seq(Tasks(w))
      /\ Leads(w, After(w, todo[1]), Tail(todo), TheEnd)
  BY Doing1
<1>2. N \in Nat /\ p.at \in Int /\ TheEnd.at \in Int /\ After(w, todo[1]).at \in Int
  <2>1. After(w, todo[1]).at \in 1 .. N + 1 /\ N \in Nat
    BY <1>1, TasksAt, FileIs
  <2> QED
    BY <2>1 DEF TheEnd, Between, Position, N
<1>3. PICK next : next = ts \o Tail(todo)
  OBVIOUS
<1>4. Leads(w, p, next, TheEnd) /\ next \in Seq(Tasks(w))
  BY <1>1, <1>2, <1>3, Compose
<1>5. UnderWay(w)'
  <2>1. todo' = next /\ text'[w].how = "not yet"
    BY <1>1, <1>3
  <2> QED
    BY <1>1, <1>4, <2>1, UnderWayNext
<1>6. TypeOK'
  <2>1. \A k \in DOMAIN next : next[k].do \in {"visit", "type", "take", "line", "close"}
    <3> TAKE k \in DOMAIN next
    <3>1. next[k] \in Tasks(w)
      BY <1>4
    <3> QED
      BY <1>1, <3>1, TasksAre
  <2>2. todo' = next /\ Walks' = Walks
    BY <1>3, Static
  <2>3. \A v \in Walks : text'[v].how \in {"not yet", "whole", "raised"}
    BY DEF IInv, TypeOK
  <2> QED
    BY <1>1, <2>1, <2>2, <2>3 DEF TypeOK
<1> QED
  BY <1>5, <1>6, Static DEF IInv

LEMMA Goes ==
  ASSUME IInv, file' = file, NEW w \in Walks, walk = w, walk' = w, todo # <<>>, text' = text,
         NEW p, p.at \in 1 .. N + 1, NEW ts \in Seq(Tasks(w)), todo' = ts \o Tail(todo),
         Leads(w, p, ts, After(w, todo[1])),
         NEW open, NEW module, NEW printed, NEW took, NEW type, Printed(w) = printed,
         scope' = open, module_name' = module, taken' = took, result' = type,
         Holds(w, p, open, module, printed, took, type)
  PROVE  IInv'
<1>1. \A v \in Walks : LinesFit(v)' /\ Ended(v)' /\ Printed(v)' = Printed(v)
  BY TextKept DEF IInv
<1>2. DOMAIN text' = Walks /\ \A v \in Walks : text'[v].how = text[v].how
  BY Doing1
<1> QED
  BY <1>1, <1>2, GoesWith

LEMMA GoesPrinting ==
  ASSUME IInv, file' = file, NEW w \in Walks, walk = w, walk' = w, todo # <<>>,
         NEW l, text' = [text EXCEPT ![w].lines = Append(@, l)], LineFits(w, l),
         \A x \in Printed(w) : x < l.node,
         NEW p, p.at \in 1 .. N + 1, NEW ts \in Seq(Tasks(w)), todo' = ts \o Tail(todo),
         Leads(w, p, ts, After(w, todo[1])),
         NEW open, NEW module, NEW printed, NEW took, NEW type,
         Printed(w) \cup {l.node} = printed, Printed(w) \subseteq Printable(w),
         scope' = open, module_name' = module, taken' = took, result' = type,
         Holds(w, p, open, module, printed, took, type)
  PROVE  IInv'
<1>1. LinesFit(w) /\ w \in DOMAIN text /\ text[w].how = "not yet" /\ file \in Files
      /\ DOMAIN text = Walks
  BY Doing1 DEF IInv
<1>2. PICK ls, t : ls = text[w].lines /\ t = Append(ls, l)
  OBVIOUS
<1>3. text'[w] = [lines |-> t, how |-> text[w].how]
  BY <1>1, <1>2, LineAdded
<1>4. DOMAIN text' = Walks /\ \A v \in Walks : v # w => text'[v] = text[v]
  BY <1>1
<1>5. l.node \in Printable(w) /\ \A x \in Printable(w) : x \in Int
  <2>1. l.node \in Printable(w)
    BY DEF LineFits
  <2>2. \A x \in Printable(w) : x \in 1 .. N
    BY <1>1, PrintableIs
  <2> QED
    BY <2>1, <2>2
<1>6. LinesFit(w)' /\ text'[w].how = text[w].how /\ Printed(w)' = Printed(w) \cup {l.node}
  BY <1>1, <1>2, <1>3, <1>5, TextGrows
<1>7. Ended(w)'
  BY <1>1, <1>6 DEF Ended
<1>8. \A v \in Walks : LinesFit(v)' /\ Ended(v)' /\ text'[v].how = text[v].how
  BY <1>4, <1>6, <1>7, OthersKept
<1> QED
  BY <1>4, <1>6, <1>8, GoesWith

-----------------------------------------------------------------------------
(* A walk begins.                                                          *)
LEMMA HoldsFirst ==
  ASSUME file \in Files, NEW w \in Walks
  PROVE  Holds(w, Between(1, <<>>), <<>>, <<>>, {}, <<>>, NULL)
<1>1. \A x \in Printable(w) : x \in Int /\ 1 <= x
  <2>1. \A x \in Printable(w) : x \in 1 .. N
    BY PrintableIs
  <2> QED
    BY <2>1
<1>2. {x \in Printable(w) : x < 1} = {} /\ Causes(w) \subseteq Printable(w)
  BY <1>1 DEF Causes
<1>3. LastModule(1) = <<>>
  <2>1. {m \in 1 .. 1 - 1 : InKinds(m, {"module"})} = {}
    OBVIOUS
  <2> QED
    BY <2>1 DEF LastModule
<1> DEFINE p == Between(1, <<>>)
<1>4. p.at = 1 /\ p.scope = <<>> /\ p.steps = 0
  BY DEF Between, Position
<1> HIDE DEF p
<1>5. Nameless(w, p)
  BY <1>1, <1>4 DEF Nameless
<1>6. <<>> \in Seq(CxxName) /\ Len(<<>>) = 0 /\ DOMAIN <<>> = {} /\ 0 \div 2 = 0 /\ 0 % 2 # 1
  OBVIOUS
<1>7. \A x \in Causes(w) : x >= p.at
  BY <1>1, <1>2, <1>4
<1> QED
  BY <1>2, <1>3, <1>4, <1>5, <1>6, <1>7 DEF Holds, p

LEMMA ReachedFirst ==
  ASSUME file \in Files, NEW w \in Walks, NEW m \in 1 .. N, IsContent(m, 0)
  PROVE  Place(w, m) = <<>> /\ Reached(w, m)
<1>1. In(m) = 0 /\ file[m].alone /\ file[m].main
  BY DEF IsContent, In
<1>2. Place(w, m) = <<>>
  BY <1>1, PlaceIs, PathIs
<1> QED
  BY <1>1, <1>2, FileIs DEF Reached, In

LEMMA AllKept ==
  ASSUME IInv, file' = file, NEW w \in Walks, walk = NULL, walk' = w, text' = text
  PROVE  \A v \in Walks : LinesFit(v)' /\ Ended(v)' /\ Printed(v)' = Printed(v)
<1> TAKE v \in Walks
<1>1. file \in Files
  BY DEF IInv, TypeOK
<1>2. v # walk
  BY <1>1, WalkIs
<1> QED
  BY <1>2, TextKept DEF IInv

LEMMA StepAST ==
  ASSUME IInv, NEW w \in Walks, visitAST(w)
  PROVE  IInv'
<1>1. /\ walk = NULL /\ text[w].how = "not yet" /\ walk' = w /\ todo' = Visits(Contents(0))
      /\ scope' = <<>> /\ result' = NULL /\ taken' = <<>> /\ module_name' = <<>>
      /\ file' = file /\ text' = text
  BY DEF visitAST
<1>2. file \in Files /\ DOMAIN text = Walks /\ Ended(w) /\ LinesFit(w) /\ w # NULL
  BY WalkIs DEF IInv, TypeOK
<1>3. \A v \in Walks : LinesFit(v)' /\ Ended(v)' /\ Printed(v)' = Printed(v)
  BY <1>1, AllKept
<1>4. Printed(w) = {}
  <2>1. text[w].lines = <<>>
    BY <1>1, <1>2 DEF Ended
  <2> QED
    BY <2>1 DEF Printed
<1>5. 0 \in 0 .. N /\ End(0) = N + 1 /\ N \in Nat
  <2>1. N \in Nat /\ 0 \in 0 .. N
    BY <1>2, FileIs
  <2>2. End(0) \in 0 + 1 .. N + 1 /\ (End(0) = N + 1 \/ In(End(0)) < 0)
    BY <1>2, <2>1, EndIs
  <2>3. ~(In(End(0)) < 0) \/ End(0) = N + 1
    <3>1. CASE End(0) \in 1 .. N
      BY <1>2, <2>1, <3>1, InIs
    <3>2. CASE End(0) \notin 1 .. N
      BY <2>1, <2>2, <3>2
    <3> QED
      BY <3>1, <3>2
  <2> QED
    BY <2>1, <2>2, <2>3
<1>6. PICK ts : ts = Visits(Contents(0))
  OBVIOUS
<1>7. ts \in Seq(Tasks(w)) /\ Leads(w, Between(1, <<>>), ts, TheEnd)
  <2>1. Visits(Contents(0)) \in Seq(Tasks(w))
        /\ Leads(w, Between(0 + 1, <<>>), Visits(Contents(0)), Between(End(0), <<>>))
    BY <1>2, <1>5, ReachedFirst, VisitsLead
  <2>2. TheEnd = Between(End(0), <<>>) /\ 0 + 1 = 1
    BY <1>5 DEF TheEnd, N
  <2> QED
    BY <1>6, <2>1, <2>2
<1>8. PICK p : p = Between(1, <<>>)
  OBVIOUS
<1>9. p.at \in 1 .. N + 1
  BY <1>5, <1>8 DEF Between, Position
<1>10. UnderWay(w)'
  <2>1. Holds(w, p, <<>>, <<>>, {}, <<>>, NULL)
    BY <1>2, <1>8, HoldsFirst
  <2>2. Printed(w)' = {} /\ text'[w].how = "not yet" /\ todo' = ts
    BY <1>1, <1>3, <1>4, <1>6
  <2> QED
    BY <1>1, <1>2, <1>7, <1>8, <1>9, <2>1, <2>2, UnderWayNext
<1>11. TypeOK'
  <2>1. \A k \in DOMAIN ts : ts[k].do \in {"visit", "type", "take", "line", "close"}
    <3> TAKE k \in DOMAIN ts
    <3>1. ts[k] \in Tasks(w)
      BY <1>7
    <3> QED
      BY <1>2, <3>1, TasksAre
  <2>2. \A v \in Walks : text[v].how \in {"not yet", "whole", "raised"}
    BY DEF IInv, TypeOK
  <2> QED
    BY <1>1, <1>2, <1>6, <2>1, <2>2, Static DEF TypeOK
<1> QED
  BY <1>1, <1>3, <1>10, <1>11, Static DEF IInv

-----------------------------------------------------------------------------
(* A walk ends.                                                            *)
LEMMA StepEnd ==
  ASSUME IInv, NEW w \in Walks, walk = w, NEW how \in {"whole", "raised"}, Ends(how),
         how = "whole" => Printed(w) = Printable(w) /\ Causes(w) = {},
         how = "raised" =>
           \E c \in Causes(w) : /\ \A d \in Causes(w) : c <= d
                                /\ Printed(w) = {x \in Printable(w) : x < c}
  PROVE  IInv'
<1>1. /\ walk' = NULL /\ file' = file /\ todo' = todo
      /\ text' = [text EXCEPT ![w].how = how]
  BY DEF Ends, state
<1>2. file \in Files /\ DOMAIN text = Walks /\ LinesFit(w)
  BY DEF IInv, TypeOK
<1>3. text'[w] = [lines |-> text[w].lines, how |-> how]
  <2>1. text'[w] = [text[w] EXCEPT !.how = how]
    BY <1>1, <1>2
  <2>2. text[w] = [lines |-> text[w].lines, how |-> text[w].how]
    BY <1>2 DEF LinesFit
  <2> QED
    BY <2>1, <2>2
<1>4. DOMAIN text' = Walks /\ \A v \in Walks : v # w => text'[v] = text[v]
  BY <1>1, <1>2
<1>5. \A v \in Walks : v # w => LinesFit(v)' /\ Ended(v)'
  BY <1>1, <1>4, TextKept DEF IInv
<1>6. text'[w].lines = text[w].lines /\ text'[w].how = how
  BY <1>3
<1>7. LinesFit(w)'
  <2>1. \A l : LineFits(w, l) => LineFits(w, l)'
    BY <1>1, StaticLine
  <2> QED
    BY <1>2, <1>3, <1>6, <2>1 DEF LinesFit
<1>8. Printed(w)' = Printed(w)
  BY <1>6 DEF Printed
<1>9. Ended(w)'
  BY <1>1, <1>6, <1>8, Static, StaticNames DEF Ended
<1>10. TypeOK'
  <2>1. \A v \in Walks : text'[v].how \in {"not yet", "whole", "raised"}
    BY <1>4, <1>6 DEF IInv, TypeOK
  <2>2. /\ \A k \in DOMAIN todo : todo[k].do \in {"visit", "type", "take", "line", "close"}
    BY DEF IInv, TypeOK
  <2> QED
    BY <1>1, <1>2, <1>4, <2>1, <2>2, Static DEF TypeOK
<1> QED
  BY <1>1, <1>5, <1>7, <1>9, <1>10, Static DEF IInv

LEMMA StepWhole ==
  ASSUME IInv, NEW w \in Walks, walk = w, Whole_walk
  PROVE  IInv'
<1>1. todo = <<>> /\ Ends("whole") /\ walk # NULL
  BY DEF Whole_walk
<1>2. file \in Files /\ UnderWay(w)
  BY <1>1 DEF IInv, TypeOK
<1>3. At(w, TheEnd)
  BY <1>1, <1>2 DEF UnderWay
<1>4. TheEnd.at = N + 1 /\ N \in Nat /\ \A x \in Printable(w) : x \in 1 .. N
  BY <1>2, FileIs, PrintableIs DEF TheEnd, Between, Position, N
<1>5. Printed(w) = {x \in Printable(w) : x < N + 1} /\ \A x \in Causes(w) : x >= N + 1
  BY <1>3, <1>4 DEF At, Holds
<1>6. Printed(w) = Printable(w)
  BY <1>4, <1>5
<1>7. Causes(w) = {}
  <2>1. Causes(w) \subseteq Printable(w)
    BY DEF Causes
  <2> QED
    BY <1>4, <1>5, <2>1
<1> QED
  BY <1>1, <1>6, <1>7, StepEnd

-----------------------------------------------------------------------------
(* A declaration is visited.                                               *)
LEMMA MethodsAre ==
  ASSUME NEW by
  PROVE  /\ by \in Whole => Class[by].methods = Declarations
         /\ by \in Classes \cup Sources => Class[by].methods = {"module", "interface", "operation"}
         /\ by = "Serializer" => Class[by].methods = {"module", "struct"}
BY DEF Class, Whole, Classes, Sources, CppVisitor, Header, AdapterHeader, AdapterSource,
       ProxyHeader, ProxySource, Serializer

LEMMA KindsAre ==
  ASSUME file \in Files, NEW n \in 1 .. N
  PROVE  /\ file[n].kind \in Declarations \cup {"union", "enumerator"}
         /\ file[n].inline \in BOOLEAN /\ file[n].alone \in BOOLEAN /\ file[n].main \in BOOLEAN
         /\ file[n].types \in Seq(Type) /\ file[n].names \in Seq(Nat) /\ file[n].id \in STRING
BY FileIs DEF Declaration

LEMMA Visited ==
  ASSUME IInv, NEW w \in Walks, walk = w, todo # <<>>, NEW n, n = Head(todo).node,
         Head(todo).do = "visit"
  PROVE  /\ file \in Files /\ N \in Nat /\ n \in 1 .. N /\ Reached(w, n)
         /\ First(n) \in 1 .. N + 1 /\ First(n) <= n
         /\ End(n) \in n + 1 .. N + 1
         /\ At(w, Between(First(n), Place(w, n)))
         /\ After(w, todo[1]) = Between(End(n), Place(w, n))
<1>1. /\ file \in Files /\ todo[1] \in Tasks(w) /\ Head(todo) = todo[1]
      /\ At(w, Before(w, todo[1]))
  BY Doing1
<1>2. todo[1].do = "visit" /\ todo[1].node = n
  BY <1>1
<1>3. n \in 1 .. N /\ Reached(w, n)
  BY <1>1, <1>2, TasksAre
<1>4. N \in Nat /\ First(n) \in In(n) + 1 .. n /\ End(n) \in n + 1 .. N + 1 /\ In(n) \in 0 .. n - 1
  <2>1. N \in Nat /\ n \in 0 .. N
    BY <1>1, <1>3, FileIs
  <2> QED
    BY <1>1, <1>3, <2>1, FirstIs, EndIs, InIs
<1>5. First(n) \in 1 .. N + 1 /\ First(n) <= n
  BY <1>3, <1>4
<1>6. /\ Before(w, todo[1]) = Between(First(n), Place(w, n))
      /\ After(w, todo[1]) = Between(End(n), Place(w, n))
  BY <1>2 DEF Before, After
<1> QED
  BY <1>1, <1>3, <1>4, <1>5, <1>6

LEMMA NothingVisited ==
  ASSUME file \in Files, NEW w \in Walks, NEW n \in 1 .. N, Reached(w, n),
         \/ file[n].kind \notin Class[w.by].methods
         \/ file[n].kind = "interface" /\ w.by \notin Whole /\ file[n].id # w.interface
  PROVE  \A x \in Printable(w) : ~(First(n) <= x /\ x < End(n))
<1>0. /\ N \in Nat /\ file[n].kind \in Declarations \cup {"union", "enumerator"} /\ file[n].main
      /\ \A x \in Printable(w) : x \in 1 .. N
  BY FileIs, KindsAre, PrintableIs DEF Reached
<1>1. First(n) \in In(n) + 1 .. n /\ End(n) \in n + 1 .. N + 1 /\ In(n) \in 0 .. n - 1
  BY <1>0, FirstIs, EndIs, InIs
<1>2. CASE w.by \in Whole
  <2>1. file[n].kind \in {"union", "enumerator"}
    BY <1>0, <1>2, MethodsAre
  <2>2. End(n) = n + 1
    BY <2>1, Childless DEF Scopes
  <2>3. First(n) = n
    BY <2>1, FirstIs, FileIs
  <2>4. n \notin Printable(w)
    BY <2>1, PrintableIs DEF Declarations
  <2> QED
    BY <1>0, <2>2, <2>3, <2>4
<1>3. CASE w.by \notin Whole
  <2>0. w.by \in Classes \/ w.by \in Sources \/ w.by = "Serializer"
    BY <1>3, WalkIs
  <2>1. file[n].kind # "module"
    <3>1. "module" \in Class[w.by].methods
      BY <2>0, MethodsAre
    <3> QED
      BY <3>1
  <2>2. w.by = "Serializer" \/ n \notin Own(w)
    <3> SUFFICES ASSUME w.by # "Serializer", n \in Own(w) PROVE FALSE
      OBVIOUS
    <3>1. file[n].kind = "interface" /\ file[n].id = w.interface
      BY PrintableIs
    <3>2. "interface" \in Class[w.by].methods
      BY <2>0, MethodsAre
    <3> QED
      BY <3>1, <3>2
  <2>3. \A x \in n + 1 .. End(n) - 1 : x \notin Printable(w)
    BY <1>3, <2>1, <2>2, NothingUnder
  <2>4. n \notin Printable(w)
    <3> SUFFICES ASSUME n \in Printable(w) PROVE FALSE
      OBVIOUS
    <3>1. CASE w.by \in Classes \cup Sources
      <4>1. file[n].kind = "operation"
        BY <2>1, <2>2, <3>1, PrintableIs DEF Classes, Sources
      <4> QED
        BY <3>1, <4>1, MethodsAre
    <3>2. CASE w.by = "Serializer"
      <4>1. file[n].kind = "struct"
        BY <2>1, <3>2, PrintableIs
      <4> QED
        BY <3>2, <4>1, MethodsAre
    <3> QED
      BY <2>0, <3>1, <3>2
  <2>5. CASE ~file[n].inline
    <3>1. First(n) = n
      BY <2>5, FirstIs
    <3>2. ASSUME NEW x \in Printable(w), First(n) <= x, x < End(n) PROVE FALSE
      <4>1. x \in n + 1 .. End(n) - 1 \/ x = n
        BY <1>0, <1>1, <3>1, <3>2
      <4> QED
        BY <2>3, <2>4, <3>2, <4>1
    <3> QED
      BY <3>2
  <2>6. CASE file[n].inline
    <3> DEFINE m == First(n)
    <3>1. /\ m < n /\ ~file[m].alone /\ file[m].main = file[n].main
          /\ file[m].kind \in {"struct", "enum", "union"} /\ End(m) = n
      BY <2>6, FirstIs
    <3>2. m \in 1 .. N
      BY <1>0, <1>1
    <3>3. m \notin Own(w)
      BY <3>1, PrintableIs
    <3>4. \A x \in m + 1 .. End(m) - 1 : x \notin Printable(w)
      BY <1>3, <3>1, <3>2, <3>3, NothingUnder
    <3>5. m \notin Printable(w)
      BY <2>0, <3>1, <3>2, <3>3, PrintableIs
    <3>6. ASSUME NEW x \in Printable(w), m <= x, x < End(n) PROVE FALSE
      <4>1. x = m \/ x \in m + 1 .. End(m) - 1 \/ x = n \/ x \in n + 1 .. End(n) - 1
        BY <1>0, <1>1, <3>1, <3>2, <3>6
      <4> QED
        BY <2>3, <2>4, <3>4, <3>5, <3>6, <4>1
    <3> QED
      BY <3>6
  <2> QED
    BY <2>5, <2>6
<1> QED
  BY <1>2, <1>3

LEMMA StepNothing ==
  ASSUME IInv, NEW w \in Walks, walk = w, NEW n, visitNothing(n)
  PROVE  IInv'
<1>1. /\ todo # <<>> /\ n = Head(todo).node /\ Head(todo).do = "visit"
      /\ \/ file[n].kind \notin Class[w.by].methods
         \/ file[n].kind = "interface" /\ w.by \notin Whole /\ file[n].id # w.interface
      /\ todo' = <<>> \o Tail(todo) /\ file' = file /\ walk' = w /\ text' = text
      /\ scope' = scope /\ module_name' = module_name /\ taken' = taken /\ result' = result
  BY DEF visitNothing, Do
<1>2. PICK p : p = Between(First(n), Place(w, n))
  OBVIOUS
<1>3. /\ file \in Files /\ N \in Nat /\ n \in 1 .. N /\ Reached(w, n) /\ p.at \in 1 .. N + 1
      /\ p.at = First(n) /\ First(n) <= n /\ End(n) \in n + 1 .. N + 1 /\ At(w, p)
      /\ After(w, todo[1]) = Between(End(n), Place(w, n))
  BY <1>1, <1>2, Visited DEF Between, Position
<1>4. Reaches(w, p, After(w, todo[1]))
  <2>1. \A x \in Printable(w) : ~(First(n) <= x /\ x < End(n))
    BY <1>1, <1>3, NothingVisited
  <2>2. First(n) <= End(n)
    BY <1>3
  <2> QED
    BY <1>2, <1>3, <2>1, <2>2 DEF Reaches, Between, Position
<1>5. Leads(w, p, <<>>, After(w, todo[1]))
  BY <1>4, LeadsNowhere
<1>6. PICK open, module, printed, took, type :
        /\ open = scope /\ module = module_name /\ printed = Printed(w)
        /\ took = taken /\ type = result
  OBVIOUS
<1>7. Holds(w, p, open, module, printed, took, type)
  BY <1>3, <1>6 DEF At
<1>8. <<>> \in Seq(Tasks(w))
  OBVIOUS
<1> QED
  BY <1>1, <1>3, <1>5, <1>6, <1>7, <1>8, Goes

-----------------------------------------------------------------------------
(* A declaration's line is printed when it is visited.                     *)
LEMMA LastModuleNext ==
  ASSUME file \in Files, NEW n \in 1 .. N
  PROVE  LastModule(n + 1) = IF InKinds(n, {"module"}) THEN <<file[n].id>> ELSE LastModule(n)
<1> DEFINE ms(c) == {m \in 1 .. c - 1 : InKinds(m, {"module"})}
<1>1. n \in Nat /\ n >= 1 /\ \A m \in 1 .. n : m = n \/ m \in 1 .. n - 1
  BY FileIs
<1>2. CASE InKinds(n, {"module"})
  <2>1. n \in ms(n + 1) /\ \A m \in ms(n + 1) : n >= m /\ m \in Int
    BY <1>1, <1>2
  <2> DEFINE S == ms(n + 1)
  <2> HIDE DEF S
  <2>2. n \in S /\ \A m \in S : n >= m /\ m \in Int
    BY <2>1 DEF S
  <2>3. Max(S) \in S /\ \A m \in S : Max(S) >= m
    BY <2>2 DEF Max
  <2>4. Max(S) = n
    <3>1. PICK m \in S : m = Max(S)
      BY <2>3
    <3>2. m \in Int /\ n >= m /\ m >= n
      BY <2>2, <2>3, <3>1
    <3> QED
      BY <1>1, <3>1, <3>2
  <2>5. LastModule(n + 1) = <<file[n].id>>
    BY <2>1, <2>4 DEF LastModule, S
  <2> QED
    BY <1>2, <2>5
<1>3. CASE ~InKinds(n, {"module"})
  <2>1. ms(n + 1) = ms(n)
    BY <1>1, <1>3
  <2>2. LastModule(n + 1) = LastModule(n)
    BY <2>1 DEF LastModule
  <2> QED
    BY <1>3, <2>2
<1> QED
  BY <1>2, <1>3

LEMMA TakenAt ==
  ASSUME file \in Files, NEW w \in Walks, NEW n \in Printable(w), NEW i \in DOMAIN TypesTaken(w, n)
  PROVE  /\ n \in 1 .. N /\ i \in Nat /\ i >= 1 /\ ~(i <= 0) /\ i \in DOMAIN file[n].types
         /\ TypesTaken(w, n) = file[n].types /\ file[n].types[i] \in Type
<1>1. n \in 1 .. N /\ file[n].types \in Seq(Type)
  BY PrintableIs, KindsAre
<1>2. w.by # "AdapterHeader"
  <2>1. DOMAIN <<>> = {}
    OBVIOUS
  <2> QED
    BY <2>1 DEF TypesTaken
<1> QED
  BY <1>1, <1>2 DEF TypesTaken

LEMMA NoComment ==
  ASSUME file \in Files, NEW by, NEW n \in 1 .. N, file[n].kind # "operation" \/ by = "AdapterHeader"
  PROVE  ~BadComment(by, n)
<1>1. file[n].comment = "malformed" => file[n].kind = "operation"
  BY FileIs
<1> QED
  BY <1>1 DEF BadComment

LEMMA HoldsPrinted ==
  ASSUME file \in Files, NEW w \in Walks, NEW n \in 1 .. N, n \in Printable(w),
         TypesTaken(w, n) = <<>>, ~NeedsDeclarator(n), ~BadComment(w.by, n),
         NEW p, p.at = n, p.steps = 0, NEW q, q.at = n + 1, q.steps = 0,
         NEW open, NEW module, NEW printed, NEW took, NEW type,
         Holds(w, p, open, module, printed, took, type)
  PROVE  Holds(w, q, q.scope, LastModule(n + 1), printed \cup {n}, took, type)
<1>1. /\ printed = {x \in Printable(w) : x < n}
      /\ \A x \in Causes(w) : x >= n
      /\ took \in Seq(CxxName) /\ Len(took) = 0 \div 2
      /\ type \in CxxName \cup {NULL}
      /\ type = NULL <=> Nameless(w, p)
      /\ type # NULL => Left(w, n, p.node, (0 + 1) \div 2, type)
  BY DEF Holds
<1>2. N \in Nat /\ \A x \in Printable(w) : x \in Int
  BY FileIs, PrintableIs
<1>3. \A x \in Printable(w) : x < n + 1 <=> x < n \/ x = n
  BY <1>2
<1>4. printed \cup {n} = {x \in Printable(w) : x < n + 1}
  BY <1>1, <1>3
<1>5. n \notin Causes(w) /\ Causes(w) \subseteq Printable(w)
  BY DEF Causes
<1>6. \A x \in Causes(w) : x >= n + 1
  <2> TAKE x \in Causes(w)
  <2>1. x \in Int /\ x # n /\ x >= n
    BY <1>1, <1>2, <1>5
  <2> QED
    BY <2>1
<1>7. Nameless(w, p) <=> Nameless(w, q)
  BY <1>3 DEF Nameless
<1>8. 0 \div 2 = 0 /\ 0 % 2 # 1 /\ (0 + 1) \div 2 = 0
  OBVIOUS
<1>9. DOMAIN took = {}
  BY <1>1, <1>8
<1>10. type # NULL => Left(w, n + 1, q.node, 0, type)
  <2>1. \A x \in Printable(w) : \A i \in DOMAIN TypesTaken(w, x) :
          UpTo(n, p.node, 0, x, i) <=> UpTo(n + 1, q.node, 0, x, i)
    <3> SUFFICES ASSUME NEW x \in Printable(w), NEW i \in DOMAIN TypesTaken(w, x)
                 PROVE  UpTo(n, p.node, 0, x, i) <=> UpTo(n + 1, q.node, 0, x, i)
      OBVIOUS
    <3>1. ~(i <= 0)
      BY TakenAt
    <3>2. x # n
      <4>1. DOMAIN <<>> = {}
        OBVIOUS
      <4> QED
        BY <4>1
    <3> QED
      BY <1>3, <3>1, <3>2 DEF UpTo
  <2> QED
    BY <1>1, <1>8, <2>1, LeftSame
<1> QED
  BY <1>1, <1>4, <1>6, <1>7, <1>8, <1>9, <1>10 DEF Holds

LEMMA Prints ==
  ASSUME IInv, NEW w \in Walks, walk = w, todo # <<>>, NEW n, n = Head(todo).node,
         Head(todo).do = "visit", file' = file, walk' = w, taken' = taken, result' = result,
         NEW names, text' = [text EXCEPT ![w].lines =
                               Append(@, [node |-> n, scope |-> scope, names |-> names])],
         n \in Printable(w), ~file[n].inline, TypesTaken(w, n) = <<>>, ~NeedsDeclarator(n),
         ~BadComment(w.by, n),
         names = Further(w, n), Listed(names),
         module_name' = LastModule(n + 1),
         NEW ts \in Seq(Tasks(w)), todo' = ts \o Tail(todo), NEW S, scope' = S,
         Leads(w, Between(n + 1, S), ts, Between(End(n), Place(w, n)))
  PROVE  IInv'
<1>1. PICK p, q : p = Between(n, Place(w, n)) /\ q = Between(n + 1, S)
  OBVIOUS
<1>2. PICK l : l = [node |-> n, scope |-> scope, names |-> names]
  OBVIOUS
<1>3. PICK open, module, printed, took, type :
        /\ open = scope /\ module = module_name /\ printed = Printed(w)
        /\ took = taken /\ type = result
  OBVIOUS
<1>4. /\ file \in Files /\ N \in Nat /\ n \in 1 .. N
      /\ At(w, Between(First(n), Place(w, n)))
      /\ After(w, todo[1]) = Between(End(n), Place(w, n))
  BY Visited
<1>5. First(n) = n
  BY <1>4, FirstIs
<1>6. Holds(w, p, open, module, printed, took, type)
  BY <1>1, <1>3, <1>4, <1>5 DEF At
<1>7. p.at = n /\ p.steps = 0 /\ p.scope = Place(w, n) /\ q.at = n + 1 /\ q.steps = 0 /\ q.scope = S
  BY <1>1 DEF Between, Position
<1>8. Holds(w, q, S, LastModule(n + 1), printed \cup {n}, took, type)
  BY <1>4, <1>6, <1>7, HoldsPrinted
<1>9. PICK last : last = LastModule(n + 1)
  OBVIOUS
<1>10. open = Place(w, n) /\ printed = {x \in Printable(w) : x < n}
  BY <1>6, <1>7 DEF Holds
<1>11. LineFits(w, l)
  <2>1. l.node = n /\ l.scope = Place(w, n) /\ l.names = names
    BY <1>2, <1>3, <1>10
  <2>2. Len(<<>>) = 0 /\ DOMAIN <<>> = {} /\ \A k \in Nat : 0 + k = k
    OBVIOUS
  <2>3. Len(names) = Len(TypesTaken(w, n)) + Len(Further(w, n))
    BY <2>2
  <2>4. \A k \in DOMAIN Further(w, n) : names[Len(TypesTaken(w, n)) + k] = Further(w, n)[k]
    <3>1. DOMAIN Further(w, n) \subseteq Nat
      BY DEF Listed
    <3> QED
      BY <2>2, <3>1
  <2>5. \A k \in DOMAIN TypesTaken(w, n) : Fits(w, n, k, names[k])
    BY <2>2
  <2>6. l = [node |-> l.node, scope |-> l.scope, names |-> l.names]
    BY <1>2
  <2> QED
    BY <2>1, <2>3, <2>4, <2>5, <2>6 DEF LineFits
<1>12. Printed(w) \subseteq Printable(w) /\ (\A x \in Printed(w) : x < l.node) /\ l.node = n
  BY <1>2, <1>3, <1>10
<1>13. q.at \in 1 .. N + 1
  BY <1>4, <1>7
<1>14. PICK now : now = printed \cup {n}
  OBVIOUS
<1>15. /\ Printed(w) \cup {l.node} = now /\ scope' = S /\ module_name' = last /\ taken' = took
       /\ result' = type /\ Holds(w, q, S, last, now, took, type)
       /\ Leads(w, q, ts, After(w, todo[1]))
       /\ text' = [text EXCEPT ![w].lines = Append(@, l)]
  BY <1>1, <1>2, <1>3, <1>4, <1>8, <1>9, <1>12, <1>14, Zenon
<1> QED
  BY <1>11, <1>12, <1>13, <1>15, GoesPrinting

LEMMA ContentReached ==
  ASSUME file \in Files, NEW w \in Walks, NEW n \in 1 .. N, file[n].main,
         \/ w.by \in Whole
         \/ file[n].kind = "module"
         \/ w.by \in Classes \cup Sources /\ n \in Own(w),
         NEW m \in 1 .. N, IsContent(m, n)
  PROVE  Reached(w, m)
<1>1. In(m) = n /\ file[m].in = n /\ file[m].alone /\ n # 0 /\ DOMAIN file = 1 .. N
  BY FileIs DEF IsContent, In
<1>2. file[m].main
  BY <1>1, FileIs DEF Nested
<1> QED
  BY <1>1, <1>2 DEF Reached

LEMMA BlockLeads ==
  ASSUME file \in Files, NEW w \in Walks, NEW n \in 1 .. N, file[n].main, file[n].kind \in Scopes,
         w.by \in Whole \/ In(n) = 0 \/ file[In(n)].kind = "module",
         \/ w.by \in Whole
         \/ file[n].kind = "module"
         \/ w.by \in Classes /\ n \in Own(w)
  PROVE  /\ Append(Visits(Contents(n)), Close(n)) \in Seq(Tasks(w))
         /\ Leads(w, Between(n + 1, Inside(w, n)), Append(Visits(Contents(n)), Close(n)),
                     Between(End(n), Place(w, n)))
<1> DEFINE v == Visits(Contents(n))
           S == Inside(w, n)
           c == Close(n)
<1>1. /\ N \in Nat /\ n \in 0 .. N /\ End(n) \in n + 1 .. N + 1 /\ DOMAIN file = 1 .. N
      /\ \A x \in Printable(w) : x \in Int
  <2>1. N \in Nat /\ n \in 0 .. N /\ DOMAIN file = 1 .. N
    BY FileIs
  <2>2. \A x \in Printable(w) : x \in 1 .. N
    BY PrintableIs
  <2> QED
    BY <2>1, <2>2, EndIs
<1>2. \A m \in 1 .. N : IsContent(m, n) => Place(w, m) = S /\ Reached(w, m)
  <2> TAKE m \in 1 .. N
  <2> HAVE IsContent(m, n)
  <2>1. In(m) = n
    BY DEF IsContent, In
  <2>2. file[n].kind # "interface" \/ w.by \in Whole \cup Classes
    BY PrintableIs
  <2> QED
    BY <2>1, <2>2, ContentPlace, ContentReached
<1>3. v \in Seq(Tasks(w)) /\ Leads(w, Between(n + 1, S), v, Between(End(n), S))
  <2> HIDE DEF S
  <2> QED
    BY <1>1, <1>2, VisitsLead
<1>4. c \in Tasks(w)
  BY <1>1 DEF Tasks, CloseTasks
<1>5. Before(w, c) = Between(End(n), S) /\ After(w, c) = Between(End(n), Place(w, n))
  BY DEF Before, After, Close, Task
<1>6. /\ Between(n + 1, S).at = n + 1
      /\ Between(End(n), S).at = End(n) /\ Between(End(n), Place(w, n)).at = End(n)
  BY DEF Between, Position
<1> HIDE DEF v, S, c
<1>7. End(n) \in Int /\ n + 1 \in Int
  BY <1>1
<1>8. Leads(w, Between(End(n), S), <<c>>, Between(End(n), Place(w, n)))
  BY <1>1, <1>5, <1>6, <1>7, ReachesItself, LeadsTask
<1>9. <<c>> \in Seq(Tasks(w))
  BY <1>4
<1>10. Leads(w, Between(n + 1, S), v \o <<c>>, Between(End(n), Place(w, n))) /\ v \o <<c>> \in Seq(Tasks(w))
  BY <1>3, <1>6, <1>7, <1>8, <1>9, Compose
<1>11. Append(v, c) = v \o <<c>>
  BY <1>3
<1> QED
  BY <1>10, <1>11 DEF v, S, c

LEMMA PrintsBlock ==
  ASSUME IInv, NEW w \in Walks, walk = w, NEW n, NEW kinds, Accept(kinds, n),
         NEW id, NEW names, Block(n, id, names, Visits(Contents(n))),
         n \in Printable(w), file[n].kind \in Scopes,
         w.by \in Whole \/ In(n) = 0 \/ file[In(n)].kind = "module",
         \/ w.by \in Whole
         \/ file[n].kind = "module"
         \/ w.by \in Classes /\ n \in Own(w),
         id = IF file[n].kind = "interface" /\ w.by \in Classes THEN ClassName ELSE file[n].id,
         names = Further(w, n), Listed(names),
         module_name' = LastModule(n + 1)
  PROVE  IInv'
<1>1. /\ todo # <<>> /\ n = Head(todo).node /\ Head(todo).do = "visit" /\ file' = file /\ walk' = w
      /\ taken' = taken /\ result' = result /\ scope' = Append(scope, id)
      /\ todo' = Append(Visits(Contents(n)), Close(n)) \o Tail(todo)
      /\ text' = [text EXCEPT ![w].lines = Append(@, [node |-> n, scope |-> scope, names |-> names])]
  BY Zenon DEF Accept, Block, Line, Do
<1>2. /\ file \in Files /\ n \in 1 .. N /\ At(w, Between(First(n), Place(w, n)))
  BY <1>1, Visited
<1>3. scope = Place(w, n)
  BY <1>2 DEF At, Holds, Between, Position
<1>4. file[n].main /\ ~file[n].inline /\ file[n].types = <<>> /\ ~NeedsDeclarator(n)
  BY <1>2, FileIs, PrintableIs DEF Scopes, Typed, NeedsDeclarator
<1>5. TypesTaken(w, n) = <<>> /\ ~BadComment(w.by, n)
  BY <1>2, <1>4, NoComment DEF TypesTaken, Scopes
<1>6. PICK ts, S : ts = Append(Visits(Contents(n)), Close(n)) /\ S = Inside(w, n)
  OBVIOUS
<1>7. scope' = S
  BY <1>1, <1>3, <1>6 DEF Inside
<1>8. ts \in Seq(Tasks(w)) /\ Leads(w, Between(n + 1, S), ts, Between(End(n), Place(w, n)))
  BY <1>2, <1>4, <1>6, BlockLeads
<1>9. todo' = ts \o Tail(todo)
  BY <1>1, <1>6
<1> QED
  BY <1>1, <1>4, <1>5, <1>7, <1>8, <1>9, Prints

LEMMA PrintsLeaf ==
  ASSUME IInv, NEW w \in Walks, walk = w, NEW n, NEW kinds, Accept(kinds, n),
         NEW names, Line(n, names), Do(<<>>), scope' = scope, taken' = taken, result' = result,
         n \in Printable(w), ~file[n].inline, TypesTaken(w, n) = <<>>, ~NeedsDeclarator(n),
         ~BadComment(w.by, n),
         \A x \in n + 1 .. End(n) - 1 : x \notin Printable(w),
         names = Further(w, n), Listed(names),
         module_name' = LastModule(n + 1)
  PROVE  IInv'
<1>1. /\ todo # <<>> /\ n = Head(todo).node /\ Head(todo).do = "visit" /\ file' = file /\ walk' = w
      /\ todo' = <<>> \o Tail(todo)
      /\ text' = [text EXCEPT ![w].lines = Append(@, [node |-> n, scope |-> scope, names |-> names])]
  BY Zenon DEF Accept, Line, Do
<1>2. /\ file \in Files /\ n \in 1 .. N /\ N \in Nat /\ End(n) \in n + 1 .. N + 1
      /\ At(w, Between(First(n), Place(w, n)))
  BY <1>1, Visited
<1>3. PICK S : S = Place(w, n)
  OBVIOUS
<1>4. scope' = S
  BY <1>2, <1>3 DEF At, Holds, Between, Position
<1>5. Reaches(w, Between(n + 1, S), Between(End(n), Place(w, n)))
  <2>1. \A x \in Printable(w) : x \in 1 .. N
    BY <1>2, PrintableIs
  <2>2. \A x \in Printable(w) : ~(n + 1 <= x /\ x < End(n))
    BY <1>2, <2>1
  <2> QED
    BY <1>2, <1>3, <2>2 DEF Reaches, Between, Position
<1>6. Leads(w, Between(n + 1, S), <<>>, Between(End(n), Place(w, n)))
  BY <1>5, LeadsNowhere
<1>7. <<>> \in Seq(Tasks(w))
  OBVIOUS
<1> QED
  BY <1>1, <1>4, <1>6, <1>7, Prints

LEMMA AcceptIs ==
  ASSUME IInv, NEW w \in Walks, walk = w, NEW n, NEW kinds, Accept(kinds, n)
  PROVE  /\ todo # <<>> /\ n = Head(todo).node /\ Head(todo).do = "visit"
         /\ file[n].kind \in kinds /\ file[n].kind \in Class[w.by].methods
         /\ file \in Files /\ N \in Nat /\ n \in 1 .. N /\ Reached(w, n) /\ file[n].main
         /\ End(n) \in n + 1 .. N + 1
         /\ scope = Place(w, n)
         /\ First(n) = n => module_name = LastModule(n)
<1>1. /\ todo # <<>> /\ n = Head(todo).node /\ Head(todo).do = "visit"
      /\ file[n].kind \in kinds /\ file[n].kind \in Class[w.by].methods
  BY DEF Accept
<1>2. /\ file \in Files /\ N \in Nat /\ n \in 1 .. N /\ Reached(w, n) /\ End(n) \in n + 1 .. N + 1
      /\ At(w, Between(First(n), Place(w, n)))
  BY <1>1, Visited
<1>3. scope = Place(w, n) /\ module_name = LastModule(First(n))
  BY <1>2 DEF At, Holds, Between, Position
<1> QED
  BY <1>1, <1>2, <1>3 DEF Reached

LEMMA NoNames == Listed(<<>>)
BY DEF Listed

LEMMA TwoListed ==
  ASSUME NEW x, NEW y
  PROVE  Listed(<<x, y>>)
BY DEF Listed

LEMMA StepModule ==
  ASSUME IInv, NEW w \in Walks, walk = w, NEW n, visitModule(n)
  PROVE  IInv'
<1>1. /\ Accept({"module"}, n) /\ module_name' = <<file[n].id>>
      /\ Block(n, file[n].id, CommonNames(w.by, file[n].id, w.interface), Visits(Contents(n)))
  BY DEF visitModule
<1>2. /\ file[n].kind = "module" /\ file \in Files /\ n \in 1 .. N /\ file[n].main
  BY <1>1, AcceptIs
<1>3. InKinds(n, {"module"})
  BY <1>2 DEF InKinds
<1>4. n \in Printable(w) /\ module_name' = LastModule(n + 1)
  BY <1>1, <1>2, <1>3, ModulesPrinted, LastModuleNext
<1>5. In(n) = 0 \/ file[In(n)].kind = "module"
  BY <1>2, FileIs DEF Nested, In
<1>6. PICK id, names : id = file[n].id /\ names = CommonNames(w.by, file[n].id, w.interface)
  OBVIOUS
<1>7. names = Further(w, n)
  BY <1>2, <1>6 DEF Further
<1>8. Block(n, id, names, Visits(Contents(n)))
  BY <1>1, <1>6
<1>9. Listed(names)
  BY <1>6, NoNames, TwoListed DEF CommonNames
<1> QED
  BY <1>1, <1>2, <1>4, <1>5, <1>6, <1>7, <1>8, <1>9, PrintsBlock DEF Scopes

LEMMA StepInterface ==
  ASSUME IInv, NEW w \in Walks, walk = w, NEW n, visitInterface(n)
  PROVE  IInv'
<1>1. /\ Accept({"interface"}, n) /\ w.by \in Whole
      /\ Block(n, file[n].id, Scoped(file[n].names), Visits(Contents(n)))
      /\ module_name' = module_name
  BY DEF visitInterface
<1>2. /\ file[n].kind = "interface" /\ file \in Files /\ n \in 1 .. N /\ file[n].main
      /\ First(n) = n => module_name = LastModule(n)
  BY <1>1, AcceptIs
<1>3. First(n) = n
  BY <1>2, FirstIs, FileIs
<1>4. n \in Printable(w) /\ module_name' = LastModule(n + 1)
  BY <1>1, <1>2, <1>3, PrintableIs, LastModuleNext DEF InKinds, Declarations
<1>5. Further(w, n) = Scoped(file[n].names)
  BY <1>1, <1>2 DEF Further
<1>6. PICK id, names : id = file[n].id /\ names = Scoped(file[n].names)
  OBVIOUS
<1>7. Listed(names)
  <2>1. file[n].names \in Seq(Nat)
    BY <1>2, KindsAre
  <2>2. DOMAIN names = 1 .. Len(file[n].names) /\ Len(file[n].names) \in Nat
        /\ names = [k \in 1 .. Len(file[n].names) |-> Name(Path[file[n].names[k]])]
    BY <1>6, <2>1 DEF Scoped
  <2> QED
    BY <2>2 DEF Listed
<1>8. Block(n, id, names, Visits(Contents(n)))
  BY <1>1, <1>6
<1>9. w.by \notin Classes
  BY <1>1 DEF Whole, Classes
<1> QED
  BY <1>1, <1>2, <1>4, <1>5, <1>6, <1>7, <1>8, <1>9, PrintsBlock DEF Scopes

LEMMA OneName ==
  ASSUME NEW x
  PROVE  Listed(<<x>>)
BY DEF Listed

LEMMA StepClass ==
  ASSUME IInv, NEW w \in Walks, walk = w, NEW n, visitClass(n)
  PROVE  IInv'
<1>1. /\ Accept({"interface"}, n) /\ w.by \in Classes /\ file[n].id = w.interface
      /\ Block(n, ClassName, TheInterface, Visits(Contents(n)))
      /\ module_name' = module_name
  BY DEF visitClass
<1>2. /\ file[n].kind = "interface" /\ file \in Files /\ n \in 1 .. N /\ file[n].main
      /\ First(n) = n => module_name = LastModule(n)
  BY <1>1, AcceptIs
<1>3. First(n) = n
  BY <1>2, FirstIs, FileIs
<1>4. n \in Own(w)
  BY <1>1, <1>2, FileIs DEF Own, InKinds
<1>5. n \in Printable(w) /\ module_name' = LastModule(n + 1)
  BY <1>1, <1>2, <1>3, <1>4, PrintableIs, LastModuleNext DEF InKinds
<1>6. TheInterface = Further(w, n)
  BY <1>1, <1>2, <1>3 DEF TheInterface, Further, ItsInterface, Whole, Classes
<1>7. PICK id, names : id = ClassName /\ names = TheInterface
  OBVIOUS
<1>8. Block(n, id, names, Visits(Contents(n)))
  BY <1>1, <1>7
<1>9. In(n) = 0 \/ file[In(n)].kind = "module"
  BY <1>2, FileIs DEF Nested, In
<1>10. Listed(names)
  BY <1>7, OneName DEF TheInterface
<1> QED
  BY <1>1, <1>2, <1>4, <1>5, <1>6, <1>7, <1>8, <1>9, <1>10, PrintsBlock DEF Scopes

LEMMA StepStruct ==
  ASSUME IInv, NEW w \in Walks, walk = w, NEW n, visitStruct(n)
  PROVE  IInv'
<1>1. /\ Accept({"struct", "exception"}, n) /\ w.by \in Whole
      /\ Block(n, file[n].id, Derives(w.by, n), Visits(Contents(n)))
      /\ module_name' = module_name
  BY DEF visitStruct
<1>2. /\ file[n].kind \in {"struct", "exception"} /\ file \in Files /\ n \in 1 .. N /\ file[n].main
      /\ First(n) = n => module_name = LastModule(n)
  BY <1>1, AcceptIs
<1>3. First(n) = n
  BY <1>2, FirstIs, FileIs
<1>4. n \in Printable(w) /\ module_name' = LastModule(n + 1)
  BY <1>1, <1>2, <1>3, PrintableIs, LastModuleNext DEF InKinds, Declarations
<1>5. PICK id, names : id = file[n].id /\ names = Derives(w.by, n)
  OBVIOUS
<1>6. names = Further(w, n)
  BY <1>2, <1>5 DEF Further, Typed
<1>7. Block(n, id, names, Visits(Contents(n)))
  BY <1>1, <1>5
<1>8. Listed(names)
  BY <1>5, NoNames, TwoListed DEF Derives, Thrown
<1> QED
  BY <1>1, <1>2, <1>4, <1>5, <1>6, <1>7, <1>8, PrintsBlock DEF Scopes

LEMMA StepSerialize ==
  ASSUME IInv, NEW w \in Walks, walk = w, NEW n, serializeStruct(n)
  PROVE  IInv'
<1>1. /\ Accept({"struct"}, n) /\ w.by = "Serializer" /\ Line(n, <<>>) /\ Do(<<>>)
      /\ scope' = scope /\ result' = result /\ taken' = taken /\ module_name' = module_name
  BY DEF serializeStruct
<1>2. /\ file[n].kind = "struct" /\ file \in Files /\ n \in 1 .. N /\ file[n].main
      /\ First(n) = n => module_name = LastModule(n)
      /\ Reached(w, n)
  BY <1>1, AcceptIs
<1>3. First(n) = n /\ ~file[n].inline /\ file[n].types = <<>> /\ ~NeedsDeclarator(n)
      /\ ~BadComment(w.by, n)
  BY <1>2, FirstIs, FileIs, NoComment DEF Typed, NeedsDeclarator
<1>4. w.by \notin Whole \cup Classes \cup Sources
  BY <1>1 DEF Whole, Classes, Sources
<1>5. In(n) = 0 \/ In(n) \in MainModules
  <2>1. In(n) = 0 \/ file[In(n)].kind = "module"
    BY <1>2, <1>4 DEF Reached, In
  <2>2. In(n) # 0 => In(n) \in 1 .. N /\ file[In(n)].main /\ DOMAIN file = 1 .. N
    <3>1. In(n) \in 0 .. n - 1 /\ N \in Nat /\ DOMAIN file = 1 .. N
      BY <1>2, InIs, FileIs
    <3>2. In(n) # 0 => file[In(n)].main
      BY <1>2, FileIs DEF Nested, In
    <3> QED
      BY <1>2, <3>1, <3>2
  <2> QED
    BY <2>1, <2>2 DEF MainModules, InKinds
<1>6. n \in Printable(w)
  BY <1>1, <1>2, <1>4, <1>5, PrintableIs DEF Reached
<1>7. module_name' = LastModule(n + 1)
  BY <1>1, <1>2, <1>3, LastModuleNext DEF InKinds
<1>8. \A x \in n + 1 .. End(n) - 1 : x \notin Printable(w)
  BY <1>1, <1>2, <1>4, NothingUnder
<1>9. Further(w, n) = <<>> /\ TypesTaken(w, n) = <<>>
  BY <1>2, <1>3 DEF Further, TypesTaken, Typed, Derives
<1>10. PICK names : names = <<>>
  OBVIOUS
<1>11. Line(n, names)
  BY <1>1, <1>10
<1> QED
  BY <1>1, <1>3, <1>6, <1>7, <1>8, <1>9, <1>10, <1>11, NoNames, PrintsLeaf

LEMMA StepEnum ==
  ASSUME IInv, NEW w \in Walks, walk = w, NEW n, visitEnum(n)
  PROVE  IInv'
<1>1. /\ Accept({"forward", "structforward", "enum"}, n) /\ Line(n, <<>>) /\ Do(<<>>)
      /\ scope' = scope /\ result' = result /\ taken' = taken /\ module_name' = module_name
  BY DEF visitEnum
<1>2. /\ file[n].kind \in {"forward", "structforward", "enum"} /\ file \in Files /\ n \in 1 .. N
      /\ file[n].kind \in Class[w.by].methods /\ file[n].main
      /\ First(n) = n => module_name = LastModule(n)
  BY <1>1, AcceptIs
<1>3. First(n) = n /\ ~file[n].inline /\ file[n].types = <<>> /\ ~NeedsDeclarator(n)
      /\ ~BadComment(w.by, n)
  BY <1>2, FirstIs, FileIs, NoComment DEF Typed, NeedsDeclarator
<1>4. w.by \in Whole
  BY <1>2, WalkIs, MethodsAre
<1>5. n \in Printable(w)
  BY <1>2, <1>4, PrintableIs DEF Declarations
<1>6. module_name' = LastModule(n + 1)
  BY <1>1, <1>2, <1>3, LastModuleNext DEF InKinds
<1>7. \A x \in n + 1 .. End(n) - 1 : x \notin Printable(w)
  <2>1. End(n) = n + 1 /\ n \in Int
    BY <1>2, Childless DEF Scopes
  <2>2. n + 1 .. End(n) - 1 = {}
    BY <2>1
  <2> QED
    BY <2>2
<1>8. Further(w, n) = <<>> /\ TypesTaken(w, n) = <<>>
  BY <1>2, <1>3 DEF Further, TypesTaken, Typed, Derives
<1>9. PICK names : names = <<>>
  OBVIOUS
<1>10. Line(n, names)
  BY <1>1, <1>9
<1> QED
  BY <1>1, <1>3, <1>5, <1>6, <1>7, <1>8, <1>9, <1>10, NoNames, PrintsLeaf

LEMMA StepCall ==
  ASSUME IInv, NEW w \in Walks, walk = w, NEW n, declareCall(n)
  PROVE  IInv'
<1>1. /\ Accept({"operation"}, n) /\ w.by = "AdapterHeader" /\ Line(n, TheInterface) /\ Do(<<>>)
      /\ scope' = scope /\ result' = result /\ taken' = taken /\ module_name' = module_name
  BY DEF declareCall
<1>2. /\ file[n].kind = "operation" /\ file \in Files /\ n \in 1 .. N /\ file[n].main
      /\ First(n) = n => module_name = LastModule(n)
      /\ Reached(w, n)
  BY <1>1, AcceptIs
<1>3. First(n) = n /\ ~file[n].inline /\ ~NeedsDeclarator(n) /\ ~BadComment(w.by, n)
  BY <1>1, <1>2, FirstIs, FileIs, NoComment DEF NeedsDeclarator
<1>4. w.by \in Classes /\ w.by \notin Whole
  BY <1>1 DEF Whole, Classes
<1>5. In(n) \in Own(w)
  BY <1>2, <1>4, FileIs DEF Reached, Nested, In
<1>6. n \in Printable(w)
  BY <1>2, <1>4, <1>5, PrintableIs
<1>7. module_name' = LastModule(n + 1)
  BY <1>1, <1>2, <1>3, LastModuleNext DEF InKinds
<1>8. \A x \in n + 1 .. End(n) - 1 : x \notin Printable(w)
  <2>1. End(n) = n + 1 /\ n \in Int
    BY <1>2, Childless DEF Scopes
  <2>2. n + 1 .. End(n) - 1 = {}
    BY <2>1
  <2> QED
    BY <2>2
<1>9. TypesTaken(w, n) = <<>>
  BY <1>1 DEF TypesTaken
<1>10. TheInterface = Further(w, n)
  BY <1>1, <1>2, <1>3 DEF TheInterface, Further, ItsInterface, Typed
<1>11. PICK names : names = TheInterface
  OBVIOUS
<1>12. Line(n, names) /\ Listed(names)
  BY <1>1, <1>11, OneName DEF TheInterface
<1> QED
  BY <1>1, <1>3, <1>6, <1>7, <1>8, <1>9, <1>10, <1>11, <1>12, PrintsLeaf

-----------------------------------------------------------------------------
(* Only the members of an interface are printed; a declaration made of     *)
(* types is first taken apart into what there is to do for each of them.   *)
LEMMA StepMembers ==
  ASSUME IInv, NEW w \in Walks, walk = w, NEW n, visitMembers(n)
  PROVE  IInv'
<1>1. /\ Accept({"interface"}, n) /\ w.by \in Sources /\ file[n].id = w.interface
      /\ todo' = Visits(Contents(n)) \o Tail(todo) /\ file' = file /\ walk' = w /\ text' = text
      /\ scope' = scope /\ module_name' = module_name /\ taken' = taken /\ result' = result
  BY DEF visitMembers, Accept, Do
<1>2. /\ todo # <<>> /\ n = Head(todo).node /\ Head(todo).do = "visit"
      /\ file[n].kind = "interface" /\ file[n].main
  BY <1>1, AcceptIs
<1>3. /\ file \in Files /\ N \in Nat /\ n \in 1 .. N
      /\ End(n) \in n + 1 .. N + 1
      /\ At(w, Between(First(n), Place(w, n)))
      /\ After(w, todo[1]) = Between(End(n), Place(w, n))
  BY <1>2, Visited
<1>4. First(n) = n
  BY <1>2, <1>3, FirstIs, FileIs
<1>5. n \in Own(w)
  BY <1>1, <1>2, <1>3, FileIs DEF Own, InKinds
<1>6. n \notin Printable(w)
  <2>1. n \notin Own(w) \/ In(n) \notin Own(w) \/ file[n].kind # "operation"
    BY <1>2
  <2> QED
    BY <1>1, <1>2, <1>3, PrintableIs
<1>7. PICK S : S = Place(w, n)
  OBVIOUS
<1>8. In(n) = 0 \/ file[In(n)].kind = "module"
  BY <1>2, <1>3, FileIs DEF Nested, In
<1>9. \A m \in 1 .. N : IsContent(m, n) => Place(w, m) = S /\ Reached(w, m)
  <2> TAKE m \in 1 .. N
  <2> HAVE IsContent(m, n)
  <2>1. In(m) = n
    BY DEF IsContent, In
  <2> QED
    BY <1>1, <1>2, <1>3, <1>5, <1>7, <1>8, <2>1, ContentPlace, ContentReached
<1>10. PICK ts : ts = Visits(Contents(n))
  OBVIOUS
<1>11. ts \in Seq(Tasks(w)) /\ Leads(w, Between(n + 1, S), ts, Between(End(n), S))
  <2>1. n \in 0 .. N
    BY <1>3
  <2> QED
    BY <1>3, <1>9, <1>10, <2>1, VisitsLead
<1>12. PICK p, q : p = Between(n, S) /\ q = Between(n + 1, S)
  OBVIOUS
<1>13. p.at = n /\ q.at = n + 1 /\ p.at \in 1 .. N + 1 /\ q.at \in 1 .. N + 1
  BY <1>3, <1>12 DEF Between, Position
<1>14. Reaches(w, p, q)
  <2>1. \A x \in Printable(w) : x \in Int
    BY <1>3, PrintableIs
  <2>2. \A x \in Printable(w) : ~(n <= x /\ x < n + 1)
    BY <1>3, <1>6, <2>1
  <2> QED
    BY <1>3, <1>12, <2>2 DEF Reaches, Between, Position
<1>15. PICK open, module, printed, took, type :
        /\ open = scope /\ module = module_name /\ printed = Printed(w)
        /\ took = taken /\ type = result
  OBVIOUS
<1>16. Holds(w, p, open, module, printed, took, type)
  BY <1>3, <1>4, <1>7, <1>12, <1>15 DEF At
<1>17. Holds(w, q, open, module, printed, took, type)
  BY <1>3, <1>13, <1>14, <1>16, Arriving
<1>18. Leads(w, q, ts, After(w, todo[1])) /\ todo' = ts \o Tail(todo)
  BY <1>1, <1>3, <1>7, <1>10, <1>11, <1>12
<1> QED
  BY <1>1, <1>2, <1>11, <1>13, <1>15, <1>17, <1>18, Goes

LEMMA InlineLeads ==
  ASSUME file \in Files, NEW w \in Walks, NEW n \in 1 .. N, file[n].main,
         file[n].inline => w.by \in Whole
  PROVE  /\ Inline(n) \in Seq(Tasks(w))
         /\ Leads(w, Between(First(n), Place(w, n)), Inline(n), Between(n, Place(w, n)))
<1>1. N \in Nat /\ In(n) \in 0 .. n - 1 /\ \A x \in Printable(w) : x \in Int
  <2>1. N \in Nat /\ In(n) \in 0 .. n - 1 /\ \A x \in Printable(w) : x \in 1 .. N
    BY FileIs, InIs, PrintableIs
  <2> QED
    BY <2>1
<1>2. \A k \in Int : \A S : Between(k, S).at = k /\ Reaches(w, Between(k, S), Between(k, S))
  BY <1>1 DEF Between, Position, Reaches
<1>3. CASE ~file[n].inline
  <2>1. Inline(n) = <<>> /\ First(n) = n
    BY <1>3, FirstIs DEF Inline
  <2>2. Leads(w, Between(n, Place(w, n)), <<>>, Between(n, Place(w, n)))
    BY <1>1, <1>2, LeadsNowhere
  <2>3. <<>> \in Seq(Tasks(w))
    OBVIOUS
  <2> QED
    BY <2>1, <2>2, <2>3
<1>4. CASE file[n].inline
  <2>1. PICK m : m = First(n)
    OBVIOUS
  <2>2. /\ m \in In(n) + 1 .. n /\ m < n /\ In(m) = In(n) /\ ~file[m].alone
        /\ file[m].main = file[n].main /\ file[m].kind \in {"struct", "enum", "union"}
        /\ End(m) = n
    BY <1>4, <2>1, FirstIs
  <2>3. m \in 1 .. N /\ w.by \in Whole
    BY <1>1, <1>4, <2>2
  <2>4. Reached(w, m)
    BY <2>2, <2>3, FileIs DEF Reached
  <2>5. First(m) = m
    BY <2>2, <2>3, FirstIs, FileIs
  <2>6. Place(w, m) = Place(w, n)
    BY <2>2, <2>3, PlaceIs
  <2>7. PICK t : t = Task("visit", m, 0)
    OBVIOUS
  <2>8. /\ t \in Tasks(w) /\ Before(w, t) = Between(m, Place(w, n))
        /\ After(w, t) = Between(n, Place(w, n))
    BY <2>2, <2>3, <2>4, <2>5, <2>6, <2>7, VisitIs
  <2>9. Inline(n) = <<t>>
    <3>1. Inline(n) = Visits(<<m>>)
      BY <1>4, <2>1 DEF Inline, First
    <3>2. Visits(<<m>>) = <<t>>
      BY <2>7 DEF Visits
    <3> QED
      BY <3>1, <3>2
  <2>10. m \in Int /\ n \in Int
    BY <1>1, <2>3
  <2>11. Leads(w, Between(m, Place(w, n)), <<t>>, Between(n, Place(w, n)))
    BY <1>2, <2>8, <2>10, LeadsTask
  <2>12. <<t>> \in Seq(Tasks(w))
    BY <2>8
  <2> QED
    BY <2>1, <2>9, <2>11, <2>12
<1> QED
  BY <1>3, <1>4

LEMMA Halves ==
  ASSUME NEW L \in Nat, NEW j \in 1 .. 2 * L
  PROVE  \E k \in 1 .. L : /\ k = (j + 1) \div 2
                           /\ j % 2 = 1 => j = 2 * k - 1 /\ j - 1 = 2 * (k - 1)
                           /\ j % 2 # 1 => j = 2 * k
OBVIOUS

LEMMA TypesLead ==
  ASSUME file \in Files, NEW w \in Walks, NEW n \in 1 .. N, Lined(w, n)
  PROVE  /\ TypesOf(n) \in Seq(Tasks(w))
         /\ Leads(w, Between(n, Place(w, n)), TypesOf(n),
                     Position(n, Place(w, n), n, 2 * Len(file[n].types)))
<1> DEFINE S == Place(w, n)
           L == Len(file[n].types)
           T == TypesOf(n)
           P(j) == Position(n, S, n, j)
<1>1. /\ N \in Nat /\ L \in Nat /\ DOMAIN file[n].types = 1 .. L /\ DOMAIN file = 1 .. N
      /\ T = [j \in 1 .. 2 * L |-> T[j]]
  BY FileIs, KindsAre DEF TypesOf
<1>2. \A j \in 1 .. 2 * L :
        T[j] \in Tasks(w) /\ Before(w, T[j]) = P(j - 1) /\ After(w, T[j]) = P(j)
  <2> TAKE j \in 1 .. 2 * L
  <2>1. T[j] = Task(IF j % 2 = 1 THEN "type" ELSE "take", n, (j + 1) \div 2)
    BY DEF TypesOf
  <2>2. PICK k \in 1 .. L : /\ k = (j + 1) \div 2
                            /\ j % 2 = 1 => j = 2 * k - 1 /\ j - 1 = 2 * (k - 1)
                            /\ j % 2 # 1 => j = 2 * k
    <3> HIDE DEF L
    <3> QED
      BY <1>1, Halves
  <2>3. Task("type", n, k) \in TypeTasks(w) /\ Task("take", n, k) \in TypeTasks(w)
    <3>1. n \in {m \in DOMAIN file : Lined(w, m)} /\ k \in DOMAIN file[n].types
      BY <1>1, <2>2
    <3> QED
      BY <3>1 DEF TypeTasks
  <2>4. CASE j % 2 = 1
    <3>1. T[j] = Task("type", n, k) /\ j = 2 * k - 1 /\ j - 1 = 2 * (k - 1)
      BY <2>1, <2>2, <2>4
    <3>2. Before(w, Task("type", n, k)) = P(2 * (k - 1)) /\ After(w, Task("type", n, k)) = P(2 * k - 1)
      BY DEF Before, After, Task
    <3> HIDE DEF T, P
    <3> QED
      BY <2>3, <3>1, <3>2 DEF Tasks
  <2>5. CASE j % 2 # 1
    <3>1. T[j] = Task("take", n, k) /\ j = 2 * k
      BY <2>1, <2>2, <2>5
    <3>2. Before(w, Task("take", n, k)) = P(2 * k - 1) /\ After(w, Task("take", n, k)) = P(2 * k)
      BY DEF Before, After, Task
    <3> HIDE DEF T, P
    <3> QED
      BY <2>3, <3>1, <3>2 DEF Tasks
  <2> QED
    BY <2>4, <2>5
<1>3. P(0) = Between(n, S)
  BY DEF Position, Between
<1>4. \A j \in 0 .. 2 * L : Reaches(w, P(j), P(j))
  <2> TAKE j \in 0 .. 2 * L
  <2>1. P(j).at = n /\ n \in Int
    BY DEF Position
  <2>2. \A x \in Printable(w) : x \in 1 .. N
    BY PrintableIs
  <2>3. \A x \in Printable(w) : x \in Int
    BY <1>1, <2>2
  <2> HIDE DEF P
  <2> QED
    BY <2>1, <2>3, ReachesItself
<1> HIDE DEF P, S, T, L
<1>5. T \in Seq(Tasks(w)) /\ Len(T) = 2 * L
  <2>1. 2 * L \in Nat
    BY <1>1
  <2> QED
    BY <1>1, <1>2, <2>1
<1>6. \A j \in 0 .. 2 * L : Reaches(w, IF j = 0 THEN Between(n, S) ELSE After(w, T[j]),
                                       IF j = 2 * L THEN P(2 * L) ELSE Before(w, T[j + 1]))
  <2> TAKE j \in 0 .. 2 * L
  <2>1. /\ j # 0 => j \in 1 .. 2 * L
        /\ j # 2 * L => j + 1 \in 1 .. 2 * L /\ (j + 1) - 1 = j
    BY <1>1
  <2>2. (IF j = 0 THEN Between(n, S) ELSE After(w, T[j])) = P(j)
    BY <1>2, <1>3, <2>1
  <2>3. (IF j = 2 * L THEN P(2 * L) ELSE Before(w, T[j + 1])) = P(j)
    BY <1>2, <2>1
  <2> QED
    BY <1>4, <2>2, <2>3
<1>7. Leads(w, Between(n, S), T, P(2 * L))
  BY <1>5, <1>6 DEF Leads
<1> QED
  BY <1>5, <1>7 DEF P, S, T, L

LEMMA TypedLeads ==
  ASSUME file \in Files, NEW w \in Walks, NEW n \in 1 .. N, Lined(w, n),
         file[n].inline => w.by \in Whole
  PROVE  /\ Inline(n) \o TypesOf(n) \o <<LineOf(n)>> \in Seq(Tasks(w))
         /\ Leads(w, Between(First(n), Place(w, n)), Inline(n) \o TypesOf(n) \o <<LineOf(n)>>,
                     Between(n + 1, Place(w, n)))
<1> DEFINE S == Place(w, n)
<1>1. PICK a, b, c, d : /\ a = Between(First(n), S) /\ b = Between(n, S)
                        /\ c = Position(n, S, n, 2 * Len(file[n].types)) /\ d = Between(n + 1, S)
  OBVIOUS
<1>2. PICK i, t, l : i = Inline(n) /\ t = TypesOf(n) /\ l = <<LineOf(n)>>
  OBVIOUS
<1>3. /\ N \in Nat /\ n \in Int /\ file[n].main /\ DOMAIN file = 1 .. N
      /\ \A x \in Printable(w) : x \in Int
  <2>1. N \in Nat /\ DOMAIN file = 1 .. N /\ n \in Printable(w) /\ \A x \in Printable(w) : x \in 1 .. N
    BY FileIs, PrintableIs DEF Lined
  <2> QED
    BY <2>1, PrintableIs
<1>4. a.at \in Int /\ b.at \in Int /\ c.at \in Int /\ d.at \in Int /\ c.at = n /\ d.at = n + 1
  <2>1. First(n) \in In(n) + 1 .. n /\ In(n) \in 0 .. n - 1
    BY FirstIs, InIs
  <2>2. First(n) \in Int
    BY <2>1
  <2> QED
    BY <1>1, <1>3, <2>2 DEF Between, Position
<1>5. i \in Seq(Tasks(w)) /\ Leads(w, a, i, b)
  BY <1>1, <1>2, <1>3, InlineLeads
<1>6. t \in Seq(Tasks(w)) /\ Leads(w, b, t, c)
  BY <1>1, <1>2, TypesLead
<1>7. l \in Seq(Tasks(w)) /\ Leads(w, c, l, d)
  <2>1. LineOf(n) \in Tasks(w)
    BY <1>3 DEF Tasks, LineTasks
  <2>2. Before(w, LineOf(n)) = c /\ After(w, LineOf(n)) = d
    BY <1>1 DEF Before, After, LineOf, Task
  <2>3. Reaches(w, c, c) /\ Reaches(w, d, d)
    BY <1>3, <1>4, ReachesItself
  <2>4. Leads(w, c, <<LineOf(n)>>, d)
    BY <2>2, <2>3, LeadsTask
  <2>5. <<LineOf(n)>> \in Seq(Tasks(w))
    BY <2>1
  <2> QED
    BY <1>2, <2>4, <2>5
<1>8. PICK h : h = i \o t
  OBVIOUS
<1>9. h \in Seq(Tasks(w)) /\ Leads(w, a, h, c)
  BY <1>4, <1>5, <1>6, <1>8, Compose
<1>10. h \o l \in Seq(Tasks(w)) /\ Leads(w, a, h \o l, d)
  BY <1>4, <1>7, <1>9, Compose
<1> QED
  BY <1>1, <1>2, <1>8, <1>10

LEMMA TypedPrintable ==
  ASSUME file \in Files, NEW w \in Walks, NEW n \in 1 .. N, Reached(w, n),
         file[n].kind \in Typed, file[n].kind \in Class[w.by].methods
  PROVE  n \in Printable(w)
<1>0. file[n].main
  BY DEF Reached
<1>1. CASE w.by \in Whole
  BY <1>0, <1>1, PrintableIs DEF Typed, Declarations
<1>2. CASE w.by \notin Whole
  <2>1. w.by \in Classes \/ w.by \in Sources
    <3>1. w.by # "Serializer"
      BY MethodsAre DEF Typed
    <3> QED
      BY <1>2, <3>1, WalkIs
  <2>2. file[n].kind = "operation"
    BY <2>1, MethodsAre DEF Typed
  <2>3. In(n) \in Own(w)
    BY <1>2, <2>2, FileIs DEF Reached, Nested, In
  <2> QED
    BY <1>0, <2>1, <2>2, <2>3, PrintableIs, FileIs
<1> QED
  BY <1>1, <1>2

LEMMA StepTyped ==
  ASSUME IInv, NEW w \in Walks, walk = w, NEW n, visitTyped(n)
  PROVE  IInv'
<1>1. PICK ts : ts = Inline(n) \o TypesOf(n) \o <<LineOf(n)>>
  OBVIOUS
<1>2. /\ Accept(Typed, n) /\ w.by # "AdapterHeader" /\ ~BadComment(w.by, n)
      /\ todo' = ts \o Tail(todo) /\ file' = file /\ walk' = w /\ text' = text
      /\ scope' = scope /\ module_name' = module_name /\ taken' = taken /\ result' = result
  BY <1>1 DEF visitTyped, Accept, Do
<1>3. /\ todo # <<>> /\ n = Head(todo).node /\ Head(todo).do = "visit"
      /\ file[n].kind \in Typed /\ file[n].main /\ file[n].kind \in Class[w.by].methods
  BY <1>2, AcceptIs
<1>4. /\ file \in Files /\ N \in Nat /\ n \in 1 .. N /\ First(n) \in 1 .. N + 1 /\ Reached(w, n)
      /\ At(w, Between(First(n), Place(w, n)))
      /\ After(w, todo[1]) = Between(End(n), Place(w, n))
  BY <1>3, Visited
<1>5. End(n) = n + 1
  BY <1>3, <1>4, Childless DEF Typed, Scopes
<1>8. n \in Printable(w)
  BY <1>3, <1>4, TypedPrintable
<1>9. file[n].inline => w.by \in Whole
  <2>1. file[n].inline => file[n].kind # "operation" /\ file[n].kind # "struct" /\ file[n].kind # "interface"
                          /\ file[n].kind # "module"
    BY <1>4, FileIs
  <2>2. w.by \in Whole \cup Classes \cup Sources \cup {"Serializer"}
    BY <1>4, WalkIs
  <2> QED
    BY <1>3, <2>1, <2>2, MethodsAre
<1>10. Lined(w, n)
  BY <1>2, <1>3, <1>8 DEF Lined
<1>11. PICK p : p = Between(First(n), Place(w, n))
  OBVIOUS
<1>12. ts \in Seq(Tasks(w)) /\ Leads(w, p, ts, After(w, todo[1])) /\ p.at \in 1 .. N + 1
  <2>1. p.at = First(n)
    BY <1>11 DEF Between, Position
  <2> QED
    BY <1>1, <1>4, <1>5, <1>9, <1>10, <1>11, <2>1, TypedLeads
<1>13. PICK open, module, printed, took, type :
        /\ open = scope /\ module = module_name /\ printed = Printed(w)
        /\ took = taken /\ type = result
  OBVIOUS
<1>14. Holds(w, p, open, module, printed, took, type)
  BY <1>4, <1>11, <1>13 DEF At
<1> QED
  BY <1>2, <1>3, <1>12, <1>13, <1>14, Goes

-----------------------------------------------------------------------------
(* What is in __result_type when a type has been visited.                  *)
LEMMA WideStrings ==
  ASSUME file \in Files, NEW w \in Walks
  PROVE  Class[w.by].wstring \in Seq(STRING)
<1>1. w.by \in Whole \cup Classes \cup Sources \cup {"Serializer"}
  BY WalkIs
<1>2. Class[w.by].wstring = <<"std:wstring">> \/ Class[w.by].wstring = <<"std", "wstring">>
  BY <1>1 DEF Class, Whole, Classes, Sources, CppVisitor, Header, AdapterHeader, AdapterSource,
              ProxyHeader, ProxySource, Serializer
<1>3. "std:wstring" \in STRING /\ "std" \in STRING /\ "wstring" \in STRING
  BY WordsAssumption
<1>4. <<"std:wstring">> \in Seq(STRING) /\ <<"std", "wstring">> \in Seq(STRING)
  BY <1>3
<1> QED
  BY <1>2, <1>4

LEMMA TypeNames ==
  ASSUME file \in Files, NEW w \in Walks, NEW t \in Type, t.of \in 0 .. N,
         t.kind = "declared" => t.of # 0, NEW before, NEW now \in Names(w.by, t, before)
  PROVE  \/ t.kind = "fixed" /\ now = before
         \/ /\ t.kind # "fixed" /\ now \in CxxName /\ Names(w.by, t, NULL) = {now}
            /\ ~(t.kind = "sequence" /\ t.of = 0) /\ t.kind \notin BasicTypes \ Class[w.by].ttsMap
<1>1. N \in Nat
  BY FileIs
<1>2. t.kind \in BasicTypes \cup {"declared", "sequence", "string", "wstring", "fixed"}
  BY DEF Type
<1>3. \A s \in Seq(STRING), v \in BOOLEAN : [vector |-> v, name |-> s] \in CxxName
  BY DEF CxxName
<1>5. CASE t.kind = "fixed"
  BY <1>5 DEF Names, BasicTypes
<1>6. CASE t.kind \in BasicTypes
  <2>1. t.kind # "fixed" /\ t.kind # "sequence"
    BY <1>6 DEF BasicTypes
  <2>2. \A b : Names(w.by, t, b) = IF t.kind \in Class[w.by].ttsMap THEN {Name(<<t.kind>>)} ELSE {}
    BY <1>6 DEF Names, BasicTypes
  <2>3. t.kind \in Class[w.by].ttsMap /\ now = Name(<<t.kind>>) /\ Names(w.by, t, NULL) = {now}
    BY <2>2
  <2>4. t.kind \in STRING
    BY <1>6, WordsAssumption
  <2>5. <<t.kind>> \in Seq(STRING)
    BY <2>4
  <2>6. now \in CxxName
    BY <1>3, <2>3, <2>5 DEF Name
  <2> QED
    BY <2>1, <2>3, <2>6
<1>7. CASE t.kind = "declared"
  <2>1. \A b : Names(w.by, t, b) = {Name(Path[t.of])}
    BY <1>7 DEF Names, BasicTypes
  <2>2. now = Name(Path[t.of]) /\ Names(w.by, t, NULL) = {now}
    BY <2>1
  <2>3. now \in CxxName
    BY <1>3, <2>2, PathIs DEF Name
  <2> QED
    BY <1>7, <2>2, <2>3 DEF BasicTypes
<1>8. CASE t.kind = "sequence"
  <2>1. \A b : Names(w.by, t, b) = IF t.of = 0 THEN {} ELSE {[vector |-> TRUE, name |-> <<file[t.of].id>>]}
    BY <1>8 DEF Names, BasicTypes
  <2>2. t.of # 0 /\ now = [vector |-> TRUE, name |-> <<file[t.of].id>>] /\ Names(w.by, t, NULL) = {now}
    BY <2>1
  <2>3. t.of \in 1 .. N
    BY <1>1, <2>2
  <2>4. file[t.of].id \in STRING
    BY <2>3, KindsAre
  <2>5. <<file[t.of].id>> \in Seq(STRING)
    BY <2>4
  <2>6. now \in CxxName
    BY <1>3, <2>2, <2>5
  <2> QED
    BY <1>8, <2>2, <2>6 DEF BasicTypes
<1>9. CASE t.kind = "string"
  <2>1. \A b : Names(w.by, t, b) = {Name(<<"std", "string">>)}
    BY <1>9 DEF Names, BasicTypes
  <2>2. now = Name(<<"std", "string">>) /\ Names(w.by, t, NULL) = {now}
    BY <2>1
  <2>3. "std" \in STRING /\ "string" \in STRING
    BY WordsAssumption
  <2>4. <<"std", "string">> \in Seq(STRING)
    BY <2>3
  <2>5. now \in CxxName
    BY <1>3, <2>2, <2>4 DEF Name
  <2> QED
    BY <1>9, <2>2, <2>5 DEF BasicTypes
<1>10. CASE t.kind = "wstring"
  <2>1. \A b : Names(w.by, t, b) = {Name(Class[w.by].wstring)}
    BY <1>10 DEF Names, BasicTypes
  <2>2. now = Name(Class[w.by].wstring) /\ Names(w.by, t, NULL) = {now}
    BY <2>1
  <2>3. now \in CxxName
    BY <1>3, <2>2, WideStrings DEF Name
  <2> QED
    BY <1>10, <2>2, <2>3 DEF BasicTypes
<1> QED
  BY <1>2, <1>5, <1>6, <1>7, <1>8, <1>9, <1>10

LEMMA TypeNameless ==
  ASSUME NEW w, NEW t \in Type, NEW before, Names(w.by, t, before) = {}
  PROVE  \/ t.kind = "sequence" /\ t.of = 0
         \/ t.kind \in BasicTypes \ Class[w.by].ttsMap
<1>1. t.kind \in BasicTypes \cup {"declared", "sequence", "string", "wstring", "fixed"}
  BY DEF Type
<1>2. CASE t.kind \in BasicTypes
  <2>1. Names(w.by, t, before) = IF t.kind \in Class[w.by].ttsMap THEN {Name(<<t.kind>>)} ELSE {}
    BY <1>2 DEF Names, BasicTypes
  <2> QED
    BY <1>2, <2>1
<1>3. CASE t.kind = "sequence"
  <2>1. Names(w.by, t, before)
          = IF t.of = 0 THEN {} ELSE {[vector |-> TRUE, name |-> <<file[t.of].id>>]}
    BY <1>3 DEF Names, BasicTypes
  <2> QED
    BY <1>3, <2>1
<1>4. CASE t.kind \in {"declared", "string", "wstring", "fixed"}
  <2>1. Names(w.by, t, before) # {}
    BY <1>4 DEF Names, BasicTypes
  <2> QED
    BY <2>1
<1> QED
  BY <1>1, <1>2, <1>3, <1>4

LEMMA TypeAt ==
  ASSUME file \in Files, NEW n \in 1 .. N, NEW k \in DOMAIN file[n].types
  PROVE  /\ file[n].types[k] \in Type /\ file[n].types[k].of \in 0 .. N
         /\ file[n].types[k].kind = "declared" => file[n].types[k].of # 0
         /\ k \in Nat /\ k >= 1
<1>1. file[n].types \in Seq(Type) /\ N \in Nat
  BY KindsAre, FileIs
<1>2. file[n].types[k] \in Type /\ k \in Nat /\ k >= 1
  BY <1>1
<1>3. /\ file[n].types[k].of \in 0 .. n - 1
      /\ file[n].types[k].kind = "declared" => file[n].types[k].of # 0
  BY FileIs
<1> QED
  BY <1>1, <1>2, <1>3

LEMMA NoNull == NULL \notin CxxName
BY VisitorsAssumption DEF CxxName

(* The steps of a declaration made of types.                               *)
LEMMA StepsOdd ==
  ASSUME NEW k \in Nat, k >= 1
  PROVE  /\ (2 * (k - 1)) \div 2 = k - 1 /\ (2 * (k - 1)) % 2 # 1
         /\ (2 * k - 1) \div 2 = k - 1 /\ (2 * k - 1) % 2 = 1 /\ ((2 * k - 1) + 1) \div 2 = k
         /\ (2 * k) \div 2 = k /\ (2 * k) % 2 # 1
         /\ 2 * k # 0 /\ 2 * k # 1 /\ 2 * k - 1 # 0
         /\ 2 * k - 1 = 1 <=> k = 1
         /\ 2 * (k - 1) = 0 <=> k = 1
         /\ 2 * (k - 1) # 1
         /\ (2 * (k - 1) + 1) \div 2 = k - 1 /\ (2 * k + 1) \div 2 = k
OBVIOUS

(* The name that a type leaves: its own; or, if it is fixed, the one that  *)
(* was there.                                                              *)
LEMMA LeftItself ==
  ASSUME NEW w, NEW n \in Printable(w), NEW k \in DOMAIN TypesTaken(w, n), k \in Nat,
         file[n].types[k].kind # "fixed", NEW name, Names(w.by, file[n].types[k], NULL) = {name}
  PROVE  Left(w, n, n, k, name)
<1>1. UpTo(n, n, k, n, k)
  BY DEF UpTo
<1>2. Namer(w, n, n, k, n, k)
  BY <1>1 DEF Namer
<1> QED
  BY <1>2 DEF Left

LEMMA LeftFixed ==
  ASSUME file \in Files, NEW w \in Walks, NEW n \in Printable(w), NEW k \in DOMAIN TypesTaken(w, n),
         file[n].types[k].kind = "fixed", NEW node, node = IF k = 1 THEN 0 ELSE n,
         NEW name, Left(w, n, node, k - 1, name)
  PROVE  Left(w, n, n, k, name)
<1>1. k \in Nat /\ k >= 1
  BY TakenAt
<1>2. ASSUME NEW x \in Printable(w), NEW i \in DOMAIN TypesTaken(w, x)
      PROVE  /\ UpTo(n, node, k - 1, x, i) => UpTo(n, n, k, x, i)
             /\ UpTo(n, n, k, x, i) => UpTo(n, node, k - 1, x, i) \/ (x = n /\ i = k)
  <2>1. i \in Nat /\ i >= 1 /\ x \in 1 .. N
    BY TakenAt
  <2>2. x # 0
    BY <2>1
  <2> QED
    BY <1>1, <2>1, <2>2 DEF UpTo
<1>3. ASSUME NEW m, NEW j, Namer(w, n, node, k - 1, m, j)
      PROVE  Namer(w, n, n, k, m, j)
  <2>1. /\ m \in Printable(w) /\ j \in DOMAIN TypesTaken(w, m) /\ UpTo(n, node, k - 1, m, j)
        /\ file[m].types[j].kind # "fixed"
        /\ \A x \in Printable(w) : \A i \in DOMAIN TypesTaken(w, x) :
             UpTo(n, node, k - 1, x, i) /\ ~UpTo(m, m, j, x, i) => file[x].types[i].kind = "fixed"
    BY <1>3 DEF Namer
  <2>2. UpTo(n, n, k, m, j)
    BY <1>2, <2>1
  <2>3. \A x \in Printable(w) : \A i \in DOMAIN TypesTaken(w, x) :
          UpTo(n, n, k, x, i) /\ ~UpTo(m, m, j, x, i) => file[x].types[i].kind = "fixed"
    BY <1>2, <2>1
  <2> QED
    BY <2>1, <2>2, <2>3 DEF Namer
<1> QED
  BY <1>3 DEF Left

LEMMA HoldsOdd ==
  ASSUME NEW w, NEW q, NEW k \in Nat, k >= 1, q.steps = 2 * k - 1,
         NEW open, NEW module, NEW printed, NEW took, NEW type,
         open = q.scope, module = LastModule(q.at), printed = {x \in Printable(w) : x < q.at},
         \A x \in Causes(w) : x >= q.at,
         took \in Seq(CxxName), Len(took) = k - 1,
         \A j \in DOMAIN took : Fits(w, q.node, j, took[j]) /\ ~Unnamed(w, q.node, j),
         Named(w, q.node, k, type), type # NULL => Left(w, q.at, q.node, k, type),
         file[q.node].types[k].kind # "fixed" => ~Unnamed(w, q.node, k),
         type \in CxxName \cup {NULL}, type = NULL <=> Nameless(w, q)
  PROVE  Holds(w, q, open, module, printed, took, type)
<1>1. q.steps \div 2 = k - 1 /\ q.steps % 2 = 1 /\ (q.steps + 1) \div 2 = k
  BY StepsOdd
<1> QED
  BY <1>1 DEF Holds

LEMMA HoldsVisited ==
  ASSUME file \in Files, NEW w \in Walks, NEW n \in 1 .. N, Lined(w, n), NEW k \in DOMAIN file[n].types,
         NEW p, NEW q, NEW S, p = Position(n, S, n, 2 * (k - 1)), q = Position(n, S, n, 2 * k - 1),
         NEW open, NEW module, NEW printed, NEW took, NEW type,
         Holds(w, p, open, module, printed, took, type),
         NEW now, now \in Names(w.by, file[n].types[k], type)
  PROVE  Holds(w, q, open, module, printed, took, now)
<1>1. k \in Nat /\ k >= 1
  BY TypeAt
<1>2. /\ p.at = n /\ q.at = n /\ p.scope = S /\ q.scope = S
      /\ p.steps = 2 * (k - 1) /\ q.steps = 2 * k - 1
      /\ p.node = IF k = 1 THEN 0 ELSE n
      /\ q.node = n
  BY <1>1, StepsOdd DEF Position
<1>3. /\ open = S /\ module = LastModule(n) /\ printed = {x \in Printable(w) : x < n}
      /\ \A x \in Causes(w) : x >= n
      /\ took \in Seq(CxxName) /\ Len(took) = k - 1
      /\ \A j \in DOMAIN took : Fits(w, p.node, j, took[j]) /\ ~Unnamed(w, p.node, j)
      /\ type \in CxxName \cup {NULL}
      /\ type = NULL <=> Nameless(w, p)
      /\ type # NULL => Left(w, n, p.node, k - 1, type)
  BY <1>1, <1>2, StepsOdd DEF Holds
<1>t. n \in Printable(w) /\ TypesTaken(w, n) = file[n].types /\ k \in DOMAIN TypesTaken(w, n)
  BY DEF Lined, TypesTaken
<1>4. \A j \in DOMAIN took : Fits(w, n, j, took[j]) /\ ~Unnamed(w, n, j)
  <2>1. CASE k = 1
    BY <1>3, <2>1
  <2>2. CASE k # 1
    BY <1>2, <1>3, <2>2
  <2> QED
    BY <2>1, <2>2
<1>5. PICK t : t = file[n].types[k]
  OBVIOUS
<1>6. CASE t.kind = "fixed" /\ now = type
  <2>1. Nameless(w, p) <=> Nameless(w, q)
    <3>1. CASE k = 1
      BY <1>2, <1>5, <1>6, <3>1 DEF Nameless
    <3>2. CASE k # 1
      <4>1. p.steps # 0 /\ p.steps # 1 /\ q.steps # 0 /\ q.steps # 1
        BY <1>1, <1>2, <3>2
      <4> QED
        BY <4>1 DEF Nameless
    <3> QED
      BY <3>1, <3>2
  <2>2. Named(w, n, k, now) /\ (file[n].types[k].kind # "fixed" => ~Unnamed(w, n, k))
    BY <1>5, <1>6 DEF Named
  <2>3. now # NULL => Left(w, n, n, k, now)
    <3>1. p.node = IF k = 1 THEN 0 ELSE n
      BY <1>2
    <3>2. ASSUME now # NULL PROVE Left(w, n, p.node, k - 1, now)
      BY <1>3, <1>6, <3>2
    <3>3. file[n].types[k].kind = "fixed"
      BY <1>5, <1>6
    <3> QED
      BY <1>t, <3>1, <3>2, <3>3, LeftFixed
  <2> QED
    BY <1>1, <1>2, <1>3, <1>4, <1>6, <2>1, <2>2, <2>3, HoldsOdd
<1>7. CASE /\ t.kind # "fixed" /\ now \in CxxName /\ Names(w.by, t, NULL) = {now}
           /\ ~(t.kind = "sequence" /\ t.of = 0) /\ t.kind \notin BasicTypes \ Class[w.by].ttsMap
  <2>1. Named(w, n, k, now) /\ now # NULL
    BY <1>5, <1>7, NoNull DEF Named
  <2>4. Left(w, n, n, k, now)
    BY <1>1, <1>5, <1>7, <1>t, LeftItself
  <2>2. ~Unnamed(w, n, k)
    BY <1>5, <1>7 DEF Unnamed
  <2>3. ~Nameless(w, q)
    <3>1. q.steps # 0 /\ (q.steps = 1 => k = 1)
      BY <1>1, <1>2, StepsOdd
    <3> QED
      BY <1>2, <1>5, <1>7, <3>1 DEF Nameless
  <2> QED
    BY <1>1, <1>2, <1>3, <1>4, <1>7, <2>1, <2>2, <2>3, <2>4, HoldsOdd
<1>8. /\ t \in Type /\ t.of \in 0 .. N
      /\ t.kind = "declared" => t.of # 0
      /\ now \in Names(w.by, t, type)
  BY <1>5, TypeAt
<1> QED
  BY <1>6, <1>7, <1>8, TypeNames

LEMMA TakenOne ==
  ASSUME NEW s \in Seq(CxxName), NEW x \in CxxName, NEW k \in Nat, Len(s) = k - 1
  PROVE  /\ Append(s, x) \in Seq(CxxName) /\ Len(Append(s, x)) = k /\ DOMAIN Append(s, x) = 1 .. k
         /\ \A j \in 1 .. k : \/ j \in DOMAIN s /\ Append(s, x)[j] = s[j]
                              \/ j = k /\ Append(s, x)[j] = x
OBVIOUS

LEMMA HoldsEven ==
  ASSUME NEW w, NEW q, NEW k \in Nat, k >= 1, q.steps = 2 * k,
         NEW open, NEW module, NEW printed, NEW took, NEW type,
         open = q.scope, module = LastModule(q.at), printed = {x \in Printable(w) : x < q.at},
         \A x \in Causes(w) : x >= q.at,
         took \in Seq(CxxName), Len(took) = k,
         \A j \in DOMAIN took : Fits(w, q.node, j, took[j]) /\ ~Unnamed(w, q.node, j),
         type \in CxxName, type # NULL, ~Nameless(w, q), Left(w, q.at, q.node, k, type)
  PROVE  Holds(w, q, open, module, printed, took, type)
<1>1. q.steps \div 2 = k /\ q.steps % 2 # 1 /\ (q.steps + 1) \div 2 = k
  BY StepsOdd
<1> QED
  BY <1>1 DEF Holds

LEMMA HoldsTaken ==
  ASSUME file \in Files, NEW w \in Walks, NEW n \in 1 .. N, NEW k \in DOMAIN file[n].types,
         NEW p, NEW q, NEW S, p = Position(n, S, n, 2 * k - 1), q = Position(n, S, n, 2 * k),
         NEW open, NEW module, NEW printed, NEW took, NEW type,
         Holds(w, p, open, module, printed, took, type), type # NULL
  PROVE  Holds(w, q, open, module, printed, Append(took, type), type)
<1>1. k \in Nat /\ k >= 1
  BY TypeAt
<1>2. /\ p.at = n /\ q.at = n /\ p.scope = S /\ q.scope = S
      /\ p.steps = 2 * k - 1 /\ q.steps = 2 * k
      /\ p.node = n /\ q.node = n
  BY <1>1, StepsOdd DEF Position
<1>3. /\ open = S /\ module = LastModule(n) /\ printed = {x \in Printable(w) : x < n}
      /\ \A x \in Causes(w) : x >= n
      /\ took \in Seq(CxxName) /\ Len(took) = k - 1
      /\ \A j \in DOMAIN took : Fits(w, n, j, took[j]) /\ ~Unnamed(w, n, j)
      /\ Named(w, n, k, type) /\ (file[n].types[k].kind # "fixed" => ~Unnamed(w, n, k))
      /\ type \in CxxName
      /\ ~Nameless(w, p)
      /\ Left(w, n, n, k, type)
  BY <1>1, <1>2, StepsOdd DEF Holds
<1>5. Fits(w, n, k, type)
  BY <1>3 DEF Fits
<1>4. ~Unnamed(w, n, k)
  <2>1. ASSUME file[n].types[k].kind = "fixed", Unnamed(w, n, k) PROVE FALSE
    <3>1. k = 1 /\ \A m \in Printable(w) : m < n => TypesTaken(w, m) = <<>>
      BY <2>1 DEF Unnamed, BasicTypes
    <3>2. Nameless(w, p)
      BY <1>1, <1>2, <2>1, <3>1, StepsOdd DEF Nameless
    <3> QED
      BY <1>3, <3>2
  <2> QED
    BY <1>3, <2>1
<1> DEFINE now == Append(took, type)
<1>6. /\ now \in Seq(CxxName) /\ Len(now) = k /\ DOMAIN now = 1 .. k
      /\ \A j \in 1 .. k : \/ j \in DOMAIN took /\ now[j] = took[j]
                           \/ j = k /\ now[j] = type
  <2>1. took \in Seq(CxxName) /\ type \in CxxName /\ k - 1 \in Nat /\ Len(took) = k - 1
    BY <1>1, <1>3
  <2> QED
    BY <1>1, <2>1, TakenOne, Zenon
<1> HIDE DEF now
<1>7. \A j \in DOMAIN now : Fits(w, n, j, now[j]) /\ ~Unnamed(w, n, j)
  BY <1>3, <1>4, <1>5, <1>6
<1>8. ~Nameless(w, q)
  BY <1>1, <1>2, StepsOdd DEF Nameless
<1>9. type # NULL
  OBVIOUS
<1>10. Holds(w, q, open, module, printed, now, type)
  <2>1. /\ open = q.scope /\ module = LastModule(q.at)
        /\ printed = {x \in Printable(w) : x < q.at}
        /\ \A x \in Causes(w) : x >= q.at
    BY <1>2, <1>3
  <2>2. \A j \in DOMAIN now : Fits(w, q.node, j, now[j]) /\ ~Unnamed(w, q.node, j)
    BY <1>2, <1>7
  <2> QED
    BY <1>1, <1>2, <1>3, <1>6, <1>8, <1>9, <2>1, <2>2, HoldsEven
<1> QED
  BY <1>10 DEF now

-----------------------------------------------------------------------------
(* The steps in a declaration made of types.                               *)
LEMMA Taking ==
  ASSUME IInv, NEW w \in Walks, walk = w, todo # <<>>,
         NEW n, NEW k, NEW S, n = Head(todo).node, k = Head(todo).part, S = Place(w, n)
  PROVE  /\ file \in Files /\ N \in Nat /\ n \in 1 .. N
         /\ Head(todo).do \in {"type", "take", "line"} => Lined(w, n)
         /\ Head(todo).do \in {"type", "take"} => k \in DOMAIN file[n].types
         /\ Head(todo).do = "type" => /\ At(w, Position(n, S, n, 2 * (k - 1)))
                                      /\ After(w, todo[1]) = Position(n, S, n, 2 * k - 1)
         /\ Head(todo).do = "take" => /\ At(w, Position(n, S, n, 2 * k - 1))
                                      /\ After(w, todo[1]) = Position(n, S, n, 2 * k)
         /\ Head(todo).do = "line" => /\ At(w, Position(n, S, n, 2 * Len(file[n].types)))
                                      /\ After(w, todo[1]) = Between(n + 1, S)
         /\ Head(todo).do = "close" => /\ file[n].kind \in Scopes
                                       /\ At(w, Between(End(n), Inside(w, n)))
                                       /\ After(w, todo[1]) = Between(End(n), S)
<1>1. /\ file \in Files /\ todo[1] \in Tasks(w) /\ Head(todo) = todo[1]
      /\ At(w, Before(w, todo[1]))
  BY Doing1
<1>2. PICK t : t = todo[1]
  OBVIOUS
<1>3. t \in Tasks(w) /\ Head(todo) = t /\ t.node = n /\ t.part = k /\ At(w, Before(w, t))
  BY <1>1, <1>2
<1>4. /\ t.node \in 1 .. N /\ N \in Nat
      /\ t.do \in {"type", "take", "line"} => Lined(w, t.node)
      /\ t.do \in {"type", "take"} => t.part \in DOMAIN file[t.node].types
      /\ t.do = "close" => file[t.node].kind \in Scopes
  BY <1>1, <1>3, TasksAre, FileIs
<1>5. CASE t.do = "type"
  <2>1. /\ Before(w, t) = Position(n, S, n, 2 * (k - 1))
        /\ After(w, t) = Position(n, S, n, 2 * k - 1)
    BY <1>3, <1>5 DEF Before, After
  <2> QED
    BY <1>1, <1>2, <1>3, <1>4, <1>5, <2>1
<1>6. CASE t.do = "take"
  <2>1. /\ Before(w, t) = Position(n, S, n, 2 * k - 1)
        /\ After(w, t) = Position(n, S, n, 2 * k)
    BY <1>3, <1>6 DEF Before, After
  <2> QED
    BY <1>1, <1>2, <1>3, <1>4, <1>6, <2>1
<1>7. CASE t.do = "line"
  <2>1. /\ Before(w, t) = Position(n, S, n, 2 * Len(file[n].types))
        /\ After(w, t) = Between(n + 1, S)
    BY <1>3, <1>7 DEF Before, After
  <2> QED
    BY <1>1, <1>2, <1>3, <1>4, <1>7, <2>1
<1>8. CASE t.do = "close"
  <2>1. /\ Before(w, t) = Between(End(n), Inside(w, n))
        /\ After(w, t) = Between(End(n), S)
    BY <1>3, <1>8 DEF Before, After
  <2> QED
    BY <1>1, <1>2, <1>3, <1>4, <1>8, <2>1
<1>9. CASE t.do \notin {"type", "take", "line", "close"}
  BY <1>1, <1>3, <1>4, <1>9
<1> QED
  BY <1>5, <1>6, <1>7, <1>8, <1>9

(* Once it has got to where a task leads, a walk takes the next one.       *)
LEMMA Ahead ==
  ASSUME file \in Files, NEW w \in Walks, NEW q, q.at \in Int
  PROVE  Leads(w, q, <<>>, q) /\ <<>> \in Seq(Tasks(w))
<1>1. \A x \in Printable(w) : x \in Int
  <2>1. N \in Nat /\ \A x \in Printable(w) : x \in 1 .. N
    BY FileIs, PrintableIs
  <2> QED
    BY <2>1
<1>2. Leads(w, q, <<>>, q)
  BY <1>1, ReachesItself, LeadsNowhere
<1>3. <<>> \in Seq(Tasks(w))
  OBVIOUS
<1> QED
  BY <1>2, <1>3

LEMMA StepType ==
  ASSUME IInv, NEW w \in Walks, walk = w, visitType
  PROVE  IInv'
<1>1. /\ todo # <<>> /\ Head(todo).do = "type"
      /\ result' \in Names(w.by, TypeOf(Head(todo)), result)
      /\ todo' = <<>> \o Tail(todo) /\ file' = file /\ walk' = w /\ text' = text
      /\ scope' = scope /\ module_name' = module_name /\ taken' = taken
  BY DEF visitType, Doing, Do
<1>2. PICK n, k : n = Head(todo).node /\ k = Head(todo).part
  OBVIOUS
<1>3. PICK S : S = Place(w, n)
  OBVIOUS
<1>4. PICK p, q : p = Position(n, S, n, 2 * (k - 1)) /\ q = Position(n, S, n, 2 * k - 1)
  OBVIOUS
<1>5. /\ file \in Files /\ N \in Nat /\ n \in 1 .. N /\ Lined(w, n) /\ k \in DOMAIN file[n].types
      /\ At(w, p) /\ After(w, todo[1]) = q
  BY <1>1, <1>2, <1>3, <1>4, Taking
<1>6. PICK open, module, printed, took, type, now :
        /\ open = scope /\ module = module_name /\ printed = Printed(w)
        /\ took = taken /\ type = result /\ now = result'
  OBVIOUS
<1>7. now \in Names(w.by, file[n].types[k], type)
  BY <1>1, <1>2, <1>6 DEF TypeOf
<1>8. Holds(w, p, open, module, printed, took, type)
  BY <1>5, <1>6 DEF At
<1>9. Holds(w, q, open, module, printed, took, now)
  BY <1>4, <1>5, <1>7, <1>8, HoldsVisited
<1>10. q.at \in 1 .. N + 1 /\ q.at \in Int
  BY <1>4, <1>5 DEF Position
<1>11. Leads(w, q, <<>>, After(w, todo[1])) /\ <<>> \in Seq(Tasks(w))
  BY <1>5, <1>10, Ahead
<1> QED
  BY <1>1, <1>6, <1>9, <1>10, <1>11, Goes

LEMMA StepTake ==
  ASSUME IInv, NEW w \in Walks, walk = w, takeType
  PROVE  IInv'
<1>1. /\ todo # <<>> /\ Head(todo).do = "take" /\ result # NULL
      /\ taken' = Append(taken, result)
      /\ todo' = <<>> \o Tail(todo) /\ file' = file /\ walk' = w /\ text' = text
      /\ scope' = scope /\ module_name' = module_name /\ result' = result
  BY DEF takeType, Doing, Do
<1>2. PICK n, k : n = Head(todo).node /\ k = Head(todo).part
  OBVIOUS
<1>3. PICK S : S = Place(w, n)
  OBVIOUS
<1>4. PICK p, q : p = Position(n, S, n, 2 * k - 1) /\ q = Position(n, S, n, 2 * k)
  OBVIOUS
<1>5. /\ file \in Files /\ N \in Nat /\ n \in 1 .. N /\ k \in DOMAIN file[n].types
      /\ At(w, p) /\ After(w, todo[1]) = q
  BY <1>1, <1>2, <1>3, <1>4, Taking
<1>6. PICK open, module, printed, took, type :
        /\ open = scope /\ module = module_name /\ printed = Printed(w)
        /\ took = taken /\ type = result
  OBVIOUS
<1>7. Holds(w, p, open, module, printed, took, type) /\ type # NULL
  BY <1>1, <1>5, <1>6 DEF At
<1>8. PICK now : now = Append(took, type)
  OBVIOUS
<1>9. Holds(w, q, open, module, printed, now, type)
  BY <1>4, <1>5, <1>7, <1>8, HoldsTaken
<1>10. q.at \in 1 .. N + 1 /\ q.at \in Int
  BY <1>4, <1>5 DEF Position
<1>11. Leads(w, q, <<>>, After(w, todo[1])) /\ <<>> \in Seq(Tasks(w))
  BY <1>5, <1>10, Ahead
<1>12. taken' = now
  BY <1>1, <1>6, <1>8
<1> QED
  BY <1>1, <1>6, <1>9, <1>10, <1>11, <1>12, Goes

(* A visitor raises at the least of the declarations that have a cause.    *)
LEMMA RaisesAt ==
  ASSUME IInv, NEW w \in Walks, walk = w, Ends("raised"),
         NEW n \in Causes(w), NEW p, At(w, p), p.at = n
  PROVE  IInv'
<1>1. Printed(w) = {x \in Printable(w) : x < n} /\ \A x \in Causes(w) : x >= n
  BY DEF At, Holds
<1>2. file \in Files
  BY DEF IInv, TypeOK
<1>3. N \in Nat /\ \A x \in Causes(w) : x \in 1 .. N
  BY <1>2, FileIs, PrintableIs DEF Causes
<1>4. \A x \in Causes(w) : n <= x
  BY <1>1, <1>3
<1> QED
  BY <1>1, <1>4, StepEnd

LEMMA CausedBy ==
  ASSUME file \in Files, NEW w \in Walks, NEW n, Lined(w, n), NEW k \in DOMAIN file[n].types,
         Unnamed(w, n, k)
  PROVE  n \in Causes(w)
<1>1. TypesTaken(w, n) = file[n].types /\ n \in Printable(w)
  BY DEF TypesTaken, Lined
<1> QED
  BY <1>1 DEF Causes

LEMMA StepTypeRaises ==
  ASSUME IInv, NEW w \in Walks, walk = w, TypeRaises
  PROVE  IInv'
<1>1. /\ todo # <<>> /\ Head(todo).do = "type" /\ Ends("raised")
      /\ Names(w.by, TypeOf(Head(todo)), result) = {}
  BY DEF TypeRaises, Doing
<1>2. PICK n, k : n = Head(todo).node /\ k = Head(todo).part
  OBVIOUS
<1>3. PICK S : S = Place(w, n)
  OBVIOUS
<1>4. PICK p : p = Position(n, S, n, 2 * (k - 1))
  OBVIOUS
<1>5. /\ file \in Files /\ n \in 1 .. N /\ Lined(w, n) /\ k \in DOMAIN file[n].types /\ At(w, p)
  BY <1>1, <1>2, <1>3, <1>4, Taking
<1>6. PICK t, type : t = file[n].types[k] /\ type = result
  OBVIOUS
<1>7. t \in Type /\ Names(w.by, t, type) = {}
  BY <1>1, <1>2, <1>5, <1>6, TypeAt DEF TypeOf
<1>8. (t.kind = "sequence" /\ t.of = 0) \/ t.kind \in BasicTypes \ Class[w.by].ttsMap
  BY <1>7, TypeNameless
<1>9. Unnamed(w, n, k)
  BY <1>6, <1>8 DEF Unnamed
<1>10. n \in Causes(w) /\ p.at = n
  BY <1>4, <1>5, <1>9, CausedBy DEF Position
<1> QED
  BY <1>1, <1>5, <1>10, RaisesAt

LEMMA StepTakeRaises ==
  ASSUME IInv, NEW w \in Walks, walk = w, TakeRaises
  PROVE  IInv'
<1>1. todo # <<>> /\ Head(todo).do = "take" /\ Ends("raised") /\ result = NULL
  BY DEF TakeRaises, Doing
<1>2. PICK n, k : n = Head(todo).node /\ k = Head(todo).part
  OBVIOUS
<1>3. PICK S : S = Place(w, n)
  OBVIOUS
<1>4. PICK p : p = Position(n, S, n, 2 * k - 1)
  OBVIOUS
<1>5. /\ file \in Files /\ n \in 1 .. N /\ Lined(w, n) /\ k \in DOMAIN file[n].types /\ At(w, p)
  BY <1>1, <1>2, <1>3, <1>4, Taking
<1>6. k \in Nat /\ k >= 1
  BY <1>5, TypeAt
<1>7. p.at = n /\ p.steps = 2 * k - 1 /\ p.node = n
  BY <1>4, <1>6, StepsOdd DEF Position
<1>8. Nameless(w, p)
  BY <1>1, <1>5 DEF At, Holds
<1>9. k = 1 /\ file[n].types[1].kind = "fixed" /\ \A x \in Printable(w) : x < n => TypesTaken(w, x) = <<>>
  BY <1>6, <1>7, <1>8, StepsOdd DEF Nameless
<1>10. n \in Causes(w)
  <2>1. Unnamed(w, n, k)
    BY <1>9 DEF Unnamed
  <2> QED
    BY <1>5, <2>1, CausedBy
<1> QED
  BY <1>1, <1>5, <1>7, <1>10, RaisesAt

LEMMA StepLineRaises ==
  ASSUME IInv, NEW w \in Walks, walk = w, LineRaises
  PROVE  IInv'
<1>1. todo # <<>> /\ Head(todo).do = "line" /\ Ends("raised") /\ NeedsDeclarator(Head(todo).node)
  BY DEF LineRaises, Doing
<1>2. PICK n, k : n = Head(todo).node /\ k = Head(todo).part
  OBVIOUS
<1>3. PICK S : S = Place(w, n)
  OBVIOUS
<1>4. PICK p : p = Position(n, S, n, 2 * Len(file[n].types))
  OBVIOUS
<1>5. /\ file \in Files /\ n \in 1 .. N /\ Lined(w, n) /\ At(w, p)
  BY <1>1, <1>2, <1>3, <1>4, Taking
<1>6. n \in Causes(w) /\ p.at = n
  BY <1>1, <1>2, <1>4, <1>5 DEF Position, Causes, Lined
<1> QED
  BY <1>1, <1>5, <1>6, RaisesAt

LEMMA StepCommentRaises ==
  ASSUME IInv, NEW w \in Walks, walk = w, CommentRaises
  PROVE  IInv'
<1>1. PICK n : n = Head(todo).node
  OBVIOUS
<1>2. /\ todo # <<>> /\ Head(todo).do = "visit" /\ Ends("raised")
      /\ file[n].kind \in Typed /\ file[n].kind \in Class[w.by].methods /\ BadComment(w.by, n)
  BY <1>1 DEF CommentRaises, Doing
<1>3. PICK p : p = Between(First(n), Place(w, n))
  OBVIOUS
<1>4. file \in Files /\ n \in 1 .. N /\ Reached(w, n) /\ At(w, p)
  BY <1>1, <1>2, <1>3, Visited
<1>5. n \in Causes(w)
  BY <1>2, <1>4, TypedPrintable DEF Causes
<1>6. p.at = n
  <2>1. file[n].kind = "operation"
    BY <1>2, <1>4, NoComment
  <2>2. First(n) = n
    BY <1>4, <2>1, FirstIs, FileIs
  <2> QED
    BY <1>3, <2>2 DEF Between, Position
<1> QED
  BY <1>2, <1>4, <1>5, <1>6, RaisesAt

(* A brace is closed: the names that are open are those outside again.     *)
LEMMA ClosesOne ==
  ASSUME NEW S, NEW s \in Seq(S), NEW x
  PROVE  Front(Append(s, x)) = s
<1>1. Len(s) \in Nat
  OBVIOUS
<1>2. Append(s, x) \in Seq(S \cup {x}) /\ Len(Append(s, x)) = Len(s) + 1
      /\ \A k \in 1 .. Len(s) : Append(s, x)[k] = s[k]
  <2>1. s \in Seq(S \cup {x})
    <3>1. \A k \in 1 .. Len(s) : s[k] \in S \cup {x}
      OBVIOUS
    <3> QED
      BY <1>1, <3>1
  <2> QED
    BY <2>1
<1>3. Front(Append(s, x)) = SubSeq(Append(s, x), 1, Len(s))
  BY <1>1, <1>2 DEF Front
<1>4. SubSeq(Append(s, x), 1, Len(s)) = [k \in 1 .. Len(s) |-> Append(s, x)[k]]
  BY <1>1, <1>2
<1>5. [k \in 1 .. Len(s) |-> Append(s, x)[k]] = [k \in 1 .. Len(s) |-> s[k]]
  BY <1>2
<1>6. [k \in 1 .. Len(s) |-> s[k]] = s
  OBVIOUS
<1> QED
  BY <1>3, <1>4, <1>5, <1>6

LEMMA StepClose ==
  ASSUME IInv, NEW w \in Walks, walk = w, closeBrace
  PROVE  IInv'
<1>1. /\ todo # <<>> /\ Head(todo).do = "close" /\ scope' = Front(scope)
      /\ todo' = <<>> \o Tail(todo) /\ file' = file /\ walk' = w /\ text' = text
      /\ module_name' = module_name /\ taken' = taken /\ result' = result
  BY DEF closeBrace, Doing, Do
<1>2. PICK n, k : n = Head(todo).node /\ k = Head(todo).part
  OBVIOUS
<1>3. PICK S : S = Place(w, n)
  OBVIOUS
<1>4. PICK p, q : p = Between(End(n), Inside(w, n)) /\ q = Between(End(n), S)
  OBVIOUS
<1>5. /\ file \in Files /\ N \in Nat /\ n \in 1 .. N /\ At(w, p) /\ After(w, todo[1]) = q
  BY <1>1, <1>2, <1>3, <1>4, Taking
<1>6. PICK open, module, printed, took, type :
        /\ open = scope /\ module = module_name /\ printed = Printed(w)
        /\ took = taken /\ type = result
  OBVIOUS
<1>7. Holds(w, p, open, module, printed, took, type)
  BY <1>5, <1>6 DEF At
<1>8. End(n) \in 1 .. N + 1
  <2>1. n \in 0 .. N
    BY <1>5
  <2> QED
    BY <1>5, <2>1, EndIs
<1>9. /\ p.at = q.at /\ p.steps = q.steps /\ p.node = q.node
      /\ p.scope = Inside(w, n) /\ q.scope = S /\ q.at = End(n)
  BY <1>4 DEF Between, Position
<1>10. Holds(w, q, S, module, printed, took, type)
  <2>1. Nameless(w, p) <=> Nameless(w, q)
    BY <1>9 DEF Nameless
  <2> QED
    BY <1>7, <1>9, <2>1 DEF Holds
<1>11. scope' = S
  <2>1. open = Inside(w, n)
    BY <1>7, <1>9 DEF Holds
  <2>2. S \in Seq(STRING \cup {ClassName})
    BY <1>3, <1>5, PlaceIs
  <2> QED
    BY <1>1, <1>3, <1>6, <2>1, <2>2, ClosesOne DEF Inside
<1>12. q.at \in 1 .. N + 1 /\ q.at \in Int
  BY <1>5, <1>8, <1>9
<1>13. Leads(w, q, <<>>, After(w, todo[1])) /\ <<>> \in Seq(Tasks(w))
  BY <1>5, <1>12, Ahead
<1> QED
  BY <1>1, <1>6, <1>10, <1>11, <1>12, <1>13, Goes

-----------------------------------------------------------------------------
(* The line of a declaration made of types has their names, then others.   *)
LEMMA JoinedTwice ==
  ASSUME NEW R, NEW s \in Seq(R), NEW a \in Seq(R), NEW b \in Seq(R)
  PROVE  s \o a \o b = s \o (a \o b) /\ a \o b \in Seq(R)
OBVIOUS

LEMMA FurtherNames ==
  ASSUME file \in Files, NEW w \in Walks, NEW n \in 1 .. N, NEW x, NEW a, a = Scoped(file[n].names),
         NEW b, b = <<>> \/ b = <<x>>
  PROVE  a \in Seq(CxxName \cup {x}) /\ b \in Seq(CxxName \cup {x})
<1>1. /\ file[n].names \in Seq(Nat) /\ N \in Nat
      /\ \A k \in DOMAIN file[n].names : file[n].names[k] \in 1 .. n - 1
  BY KindsAre, FileIs
<1>2. PICK ns : ns = file[n].names
  OBVIOUS
<1>3. ns \in Seq(Nat) /\ DOMAIN ns = 1 .. Len(ns) /\ Len(ns) \in Nat
      /\ \A k \in 1 .. Len(ns) : ns[k] \in 1 .. n - 1
  BY <1>1, <1>2
<1>4. \A k \in 1 .. Len(ns) : Name(Path[ns[k]]) \in CxxName
  <2> TAKE k \in 1 .. Len(ns)
  <2>1. ns[k] \in 0 .. N
    BY <1>1, <1>3
  <2>2. Path[ns[k]] \in Seq(STRING)
    BY <2>1, PathIs
  <2> QED
    BY <2>2 DEF Name, CxxName
<1>5. a = [k \in 1 .. Len(ns) |-> Name(Path[ns[k]])]
  BY <1>2, <1>3 DEF Scoped
<1>6. a \in Seq(CxxName \cup {x})
  BY <1>3, <1>4, <1>5
<1>7. <<>> \in Seq(CxxName \cup {x}) /\ <<x>> \in Seq(CxxName \cup {x})
  OBVIOUS
<1> QED
  BY <1>6, <1>7

TakenFit(w, n, took) ==
  Len(took) = Len(file[n].types) /\ \A k \in 1 .. Len(took) : Fits(w, n, k, took[k])

LEMMA Doubles ==
  ASSUME NEW L \in Nat
  PROVE  (2 * L) \div 2 = L /\ (2 * L) % 2 # 1 /\ 2 * L # 1 /\ (2 * L = 0 <=> L = 0)
         /\ (2 * L + 1) \div 2 = L
OBVIOUS

LEMMA HoldsDeclared ==
  ASSUME file \in Files, NEW w \in Walks, NEW n \in 1 .. N, Lined(w, n), ~NeedsDeclarator(n),
         NEW p, NEW q, NEW S, p = Position(n, S, n, 2 * Len(file[n].types)), q = Between(n + 1, S),
         NEW open, NEW module, NEW printed, NEW took, NEW type,
         Holds(w, p, open, module, printed, took, type), NEW now, now = printed \cup {n}
  PROVE  /\ Holds(w, q, S, module, now, <<>>, type)
         /\ took \in Seq(CxxName) /\ TakenFit(w, n, took)
<1>0. PICK L : L = Len(file[n].types)
  OBVIOUS
<1>1. /\ file[n].types \in Seq(Type) /\ L \in Nat /\ DOMAIN file[n].types = 1 .. L
      /\ (2 * L) \div 2 = L /\ (2 * L) % 2 # 1 /\ 2 * L # 1
      /\ (2 * L = 0 <=> L = 0)
  <2>1. file[n].types \in Seq(Type)
    BY KindsAre
  <2>2. L \in Nat /\ DOMAIN file[n].types = 1 .. L
    BY <1>0, <2>1
  <2> QED
    BY <2>1, <2>2, Doubles
<1>2. /\ p.at = n /\ p.scope = S /\ p.steps = 2 * L /\ p.node = IF L = 0 THEN 0 ELSE n
      /\ q.at = n + 1 /\ q.scope = S /\ q.steps = 0
  BY <1>0, <1>1 DEF Position, Between
<1>3. /\ open = S /\ module = LastModule(n) /\ printed = {x \in Printable(w) : x < n}
      /\ \A x \in Causes(w) : x >= n
      /\ took \in Seq(CxxName) /\ Len(took) = L
      /\ \A k \in DOMAIN took : Fits(w, p.node, k, took[k]) /\ ~Unnamed(w, p.node, k)
      /\ type \in CxxName \cup {NULL}
      /\ type = NULL <=> Nameless(w, p)
      /\ type # NULL => Left(w, n, p.node, L, type)
  BY <1>1, <1>2, Doubles DEF Holds
<1>4. \A k \in 1 .. L : Fits(w, n, k, took[k]) /\ ~Unnamed(w, n, k)
  <2>1. DOMAIN took = 1 .. L
    BY <1>3
  <2>2. CASE L = 0
    BY <2>2
  <2>3. CASE L # 0
    BY <1>2, <1>3, <2>1, <2>3
  <2> QED
    BY <2>2, <2>3
<1>5. /\ N \in Nat /\ n \in Printable(w) /\ \A x \in Printable(w) : x \in Int
      /\ TypesTaken(w, n) = file[n].types
  <2>1. N \in Nat /\ \A x \in Printable(w) : x \in 1 .. N
    BY FileIs, PrintableIs
  <2> QED
    BY <2>1 DEF Lined, TypesTaken
<1>6. n \notin Causes(w)
  BY <1>1, <1>4, <1>5 DEF Causes, Lined
<1>7. \A x \in Causes(w) : x >= n + 1
  <2> TAKE x \in Causes(w)
  <2>1. x \in Int /\ x # n /\ x >= n
    BY <1>3, <1>5, <1>6 DEF Causes
  <2> QED
    BY <2>1
<1>8. \A x \in Printable(w) : x < n + 1 <=> x < n \/ x = n
  BY <1>5
<1>9. printed \cup {n} = {x \in Printable(w) : x < n + 1}
  BY <1>3, <1>5, <1>8
<1>10. LastModule(n + 1) = LastModule(n)
  <2>1. ~InKinds(n, {"module"})
    BY DEF Lined, Typed, InKinds
  <2> QED
    BY <2>1, LastModuleNext
<1>11. Nameless(w, p) <=> Nameless(w, q)
  <2>1. Nameless(w, p) <=> L = 0 /\ \A x \in Printable(w) : x < n => TypesTaken(w, x) = <<>>
    BY <1>1, <1>2 DEF Nameless
  <2>2. Nameless(w, q) <=> \A x \in Printable(w) : x < n + 1 => TypesTaken(w, x) = <<>>
    BY <1>2 DEF Nameless
  <2>3. TypesTaken(w, n) = <<>> <=> L = 0
    BY <1>1, <1>5
  <2> QED
    BY <1>5, <1>8, <2>1, <2>2, <2>3
<1>12. <<>> \in Seq(CxxName) /\ Len(<<>>) = 0 /\ DOMAIN <<>> = {} /\ 0 \div 2 = 0 /\ 0 % 2 # 1
      /\ (0 + 1) \div 2 = 0
  OBVIOUS
<1>14. type # NULL => Left(w, n + 1, 0, 0, type)
  <2>1. ASSUME NEW x \in Printable(w), NEW i \in DOMAIN TypesTaken(w, x)
        PROVE  UpTo(n, p.node, L, x, i) <=> UpTo(n + 1, 0, 0, x, i)
    <3>1. i \in Nat /\ i >= 1 /\ ~(i <= 0)
      BY TakenAt
    <3>2. x = n => L # 0 /\ i <= L /\ p.node = n
      BY <1>1, <1>2, <1>5, <3>1
    <3>3. p.node = 0 \/ p.node = n
      BY <1>2
    <3>4. x # 0
      <4>1. x \in 1 .. N
        BY TakenAt
      <4> QED
        BY <4>1
    <3>5. n < n + 1
      BY <1>5
    <3> QED
      BY <1>8, <3>1, <3>2, <3>3, <3>4, <3>5 DEF UpTo
  <2> QED
    BY <1>3, <2>1, LeftSame
<1>15. q.node = 0
  BY <1>2 DEF Between, Position
<1>13. Holds(w, q, S, module, printed \cup {n}, <<>>, type)
  BY <1>2, <1>3, <1>7, <1>9, <1>10, <1>11, <1>12, <1>14, <1>15 DEF Holds
<1> QED
  BY <1>0, <1>3, <1>4, <1>13 DEF TakenFit

LEMMA LineDeclared ==
  ASSUME file \in Files, NEW w \in Walks, NEW n \in 1 .. N, Lined(w, n),
         NEW S, S = Place(w, n), NEW took \in Seq(CxxName), TakenFit(w, n, took),
         NEW names, names = took \o Scoped(file[n].names)
                                 \o (IF w.by = "AdapterSource" THEN ItsInterface(w, n) ELSE <<>>)
  PROVE  LineFits(w, [node |-> n, scope |-> S, names |-> names])
<1>1. PICK x : x = Name(LastModule(n) \o <<w.interface>>)
  OBVIOUS
<1>2. PICK a, b : /\ a = Scoped(file[n].names)
                  /\ b = IF w.by = "AdapterSource" THEN ItsInterface(w, n) ELSE <<>>
  OBVIOUS
<1>3. b = <<>> \/ b = <<x>>
  BY <1>1, <1>2 DEF ItsInterface
<1>4. a \in Seq(CxxName \cup {x}) /\ b \in Seq(CxxName \cup {x})
  BY <1>2, <1>3, FurtherNames
<1>5. took \in Seq(CxxName \cup {x})
  <2>1. \A k \in 1 .. Len(took) : took[k] \in CxxName \cup {x}
    OBVIOUS
  <2> QED
    BY <2>1
<1>6. /\ Further(w, n) = a \o b
      /\ TypesTaken(w, n) = file[n].types /\ n \in Printable(w)
      /\ file[n].types \in Seq(Type) /\ DOMAIN file[n].types = 1 .. Len(took)
  <2>1. /\ file[n].kind \in Typed /\ w.by # "AdapterHeader" /\ n \in Printable(w)
    BY DEF Lined
  <2>2. Further(w, n) = a \o b
    BY <1>2, <2>1 DEF Further, Typed
  <2>3. file[n].types \in Seq(Type)
    BY KindsAre
  <2>4. DOMAIN file[n].types = 1 .. Len(took)
    BY <2>3 DEF TakenFit
  <2> QED
    BY <2>1, <2>2, <2>3, <2>4 DEF TypesTaken
<1>7. PICK f, R : f = a \o b /\ R = CxxName \cup {x}
  OBVIOUS
<1>8. names = took \o f /\ f \in Seq(R) /\ took \in Seq(R)
  <2>1. took \o a \o b = took \o (a \o b) /\ a \o b \in Seq(R)
    BY <1>4, <1>5, <1>7, JoinedTwice
  <2> QED
    BY <1>2, <1>5, <1>7, <2>1
<1> DEFINE h == took \o f
<1>9. /\ Len(took) = Len(file[n].types) /\ \A k \in 1 .. Len(took) : Fits(w, n, k, took[k])
  BY DEF TakenFit
<1>10. /\ Len(h) = Len(took) + Len(f)
       /\ \A k \in 1 .. Len(took) : h[k] = took[k]
       /\ DOMAIN f = 1 .. Len(f)
       /\ \A k \in DOMAIN f : h[Len(took) + k] = f[k]
  BY <1>8
<1>11. names = h /\ Further(w, n) = f /\ Len(TypesTaken(w, n)) = Len(took)
  BY <1>6, <1>7, <1>8, <1>9
<1> HIDE DEF h
<1>12. PICK l : l = [node |-> n, scope |-> S, names |-> names]
  OBVIOUS
<1>13. l.node = n /\ l.scope = Place(w, n) /\ l.names = h
  BY <1>11, <1>12
<1>14. \A k \in DOMAIN TypesTaken(w, n) : Fits(w, n, k, h[k])
  BY <1>6, <1>9, <1>10
<1>16. Listed(h)
  <2>1. h \in Seq(R)
    BY <1>8 DEF h
  <2> QED
    BY <2>1 DEF Listed
<1>17. l = [node |-> l.node, scope |-> l.scope, names |-> l.names]
  BY <1>12
<1>15. LineFits(w, l)
  BY <1>6, <1>10, <1>11, <1>13, <1>14, <1>16, <1>17 DEF LineFits
<1> QED
  BY <1>12, <1>15

LEMMA StepDeclare ==
  ASSUME IInv, NEW w \in Walks, walk = w, declare
  PROVE  IInv'
<1>1. PICK n, k, S : n = Head(todo).node /\ k = Head(todo).part /\ S = Place(w, n)
  OBVIOUS
<1>2. PICK names : names = taken \o Scoped(file[n].names)
                                 \o IF w.by = "AdapterSource" THEN TheInterface ELSE <<>>
  OBVIOUS
<1>3. /\ todo # <<>> /\ Head(todo).do = "line" /\ ~NeedsDeclarator(n) /\ taken' = <<>>
      /\ text' = [text EXCEPT ![w].lines = Append(@, [node |-> n, scope |-> scope, names |-> names])]
      /\ todo' = <<>> \o Tail(todo) /\ file' = file /\ walk' = w
      /\ scope' = scope /\ module_name' = module_name /\ result' = result
  BY <1>1, <1>2, Zenon DEF declare, Doing, Do, Line
<1>4. PICK p, q : p = Position(n, S, n, 2 * Len(file[n].types)) /\ q = Between(n + 1, S)
  OBVIOUS
<1>5. /\ file \in Files /\ N \in Nat /\ n \in 1 .. N /\ Lined(w, n)
      /\ At(w, p) /\ After(w, todo[1]) = q
  BY <1>1, <1>3, <1>4, Taking
<1>6. PICK open, module, printed, took, type :
        /\ open = scope /\ module = module_name /\ printed = Printed(w)
        /\ took = taken /\ type = result
  OBVIOUS
<1>7. Holds(w, p, open, module, printed, took, type)
  BY <1>5, <1>6 DEF At
<1>8. PICK now : now = printed \cup {n}
  OBVIOUS
<1>9. Holds(w, q, S, module, now, <<>>, type) /\ took \in Seq(CxxName) /\ TakenFit(w, n, took)
  BY <1>3, <1>4, <1>5, <1>7, <1>8, HoldsDeclared
<1>10. open = S /\ module = LastModule(n) /\ printed = {x \in Printable(w) : x < n}
  BY <1>4, <1>7 DEF Holds, Position
<1>11. names = took \o Scoped(file[n].names)
                    \o (IF w.by = "AdapterSource" THEN ItsInterface(w, n) ELSE <<>>)
  <2>1. TheInterface = ItsInterface(w, n)
    BY <1>6, <1>10 DEF TheInterface, ItsInterface
  <2> QED
    BY <1>2, <1>6, <2>1
<1>12. PICK l : l = [node |-> n, scope |-> S, names |-> names]
  OBVIOUS
<1>13. LineFits(w, l)
  <2>1. LineFits(w, [node |-> n, scope |-> S, names |-> names])
    BY <1>1, <1>5, <1>11, <1>9, LineDeclared
  <2> QED
    BY <1>12, <2>1
<1>14. text' = [text EXCEPT ![w].lines = Append(@, l)] /\ l.node = n
  <2>1. l = [node |-> n, scope |-> scope, names |-> names]
    BY <1>6, <1>12, <1>10
  <2>2. l.node = n
    BY <2>1
  <2> QED
    BY <1>3, <2>1, <2>2, Zenon
<1>15. Printed(w) \subseteq Printable(w) /\ \A x \in Printed(w) : x < l.node
  BY <1>6, <1>14, <1>10
<1>16. q.at \in 1 .. N + 1 /\ q.at \in Int
  BY <1>4, <1>5 DEF Between, Position
<1>17. Leads(w, q, <<>>, After(w, todo[1])) /\ <<>> \in Seq(Tasks(w))
  BY <1>5, <1>16, Ahead
<1>18. /\ Printed(w) \cup {l.node} = now /\ scope' = S /\ module_name' = module /\ result' = type
       /\ Holds(w, q, S, module, now, <<>>, type)
  BY <1>3, <1>6, <1>8, <1>14, <1>9, <1>10
<1> QED
  BY <1>3, <1>13, <1>14, <1>15, <1>16, <1>17, <1>18, GoesPrinting

-----------------------------------------------------------------------------
(* The invariant holds at the beginning, and every step keeps it.          *)
LEMMA LinesOf ==
  ASSUME NEW t, NEW ls, NEW how, t = [lines |-> ls, how |-> how]
  PROVE  t.lines = ls /\ t.how = how
OBVIOUS

LEMMA InitIInv ==
  ASSUME Init
  PROVE  IInv
<1>1. /\ file \in Files /\ walk = NULL /\ todo = <<>>
      /\ text = [w \in Walks |-> [lines |-> <<>>, how |-> "not yet"]]
  BY DEF Init
<1>2. \A w \in Walks : LinesFit(w) /\ Ended(w)
  <2> TAKE w \in Walks
  <2>1. text[w] = [lines |-> <<>>, how |-> "not yet"]
    BY <1>1
  <2>2. text[w].lines = <<>> /\ text[w].how = "not yet"
    BY <2>1, LinesOf, Zenon
  <2>3. Len(<<>>) = 0 /\ DOMAIN <<>> = {} /\ <<>> = [p \in 1 .. 0 |-> <<>>[p]]
    OBVIOUS
  <2>4. LinesFit(w)
    BY <2>1, <2>2, <2>3 DEF LinesFit
  <2>5. Ended(w)
    BY <2>2 DEF Ended
  <2> QED
    BY <2>4, <2>5
<1>3. TypeOK
  <2>1. \A w \in Walks : text[w].how = "not yet"
    BY <1>1
  <2>2. DOMAIN text = Walks
    BY <1>1
  <2>3. \A k \in DOMAIN todo : todo[k].do \in {"visit", "type", "take", "line", "close"}
    <3>1. DOMAIN <<>> = {}
      OBVIOUS
    <3>2. DOMAIN todo = {}
      BY <1>1, <3>1, Zenon
    <3> QED
      BY <3>2
  <2>4. walk \in Walks \cup {NULL} /\ file \in Files
    BY <1>1
  <2>5. \A w \in Walks : text[w].how \in {"not yet", "whole", "raised"}
    BY <2>1
  <2> QED
    BY <2>2, <2>3, <2>4, <2>5 DEF TypeOK
<1> QED
  BY <1>1, <1>2, <1>3 DEF IInv

LEMMA Unchanged ==
  ASSUME IInv, UNCHANGED vars
  PROVE  IInv'
<1>1. /\ file' = file /\ walk' = walk /\ todo' = todo /\ scope' = scope /\ result' = result
      /\ taken' = taken /\ module_name' = module_name /\ text' = text
  BY DEF vars, state
<1>2. /\ file \in Files /\ walk \in Walks \cup {NULL}
      /\ \A k \in DOMAIN todo : todo[k].do \in {"visit", "type", "take", "line", "close"}
      /\ DOMAIN text = Walks
      /\ \A w \in Walks : text[w].how \in {"not yet", "whole", "raised"}
  BY DEF IInv, TypeOK
<1>3. \A w \in Walks : LinesFit(w)' /\ Ended(w)' /\ Printed(w)' = Printed(w)
  BY <1>1, TextKept DEF IInv
<1>4. TypeOK'
  BY <1>1, <1>2, Static DEF TypeOK
<1>5. ASSUME walk # NULL PROVE UnderWay(walk)'
  <2>1. PICK w \in Walks : walk = w
    BY <1>2, <1>5
  <2>2. UnderWay(w)
    BY <1>5, <2>1 DEF IInv
  <2>3. PICK ts, p : ts = todo /\ p = Start(w, ts)
    OBVIOUS
  <2>4. /\ text[w].how = "not yet" /\ ts \in Seq(Tasks(w))
        /\ At(w, p) /\ Leads(w, p, ts, TheEnd)
    BY <2>2, <2>3 DEF UnderWay, Start
  <2>5. p.at \in 1 .. N + 1
    <3>1. CASE ts = <<>>
      <4>1. N \in Nat
        BY <1>2, FileIs
      <4> QED
        BY <2>3, <3>1, <4>1 DEF Start, TheEnd, Between, Position, N
    <3>2. CASE ts # <<>>
      <4>1. ts[1] \in Tasks(w)
        BY <2>4, <3>2, HeadTail
      <4> QED
        BY <1>2, <2>3, <3>2, <4>1, TasksAt DEF Start
    <3> QED
      BY <3>1, <3>2
  <2>6. PICK open, module, printed, took, type :
          /\ open = scope /\ module = module_name /\ printed = Printed(w)
          /\ took = taken /\ type = result
    OBVIOUS
  <2>7. Holds(w, p, open, module, printed, took, type)
    BY <2>4, <2>6 DEF At
  <2>8. Printed(w)' = printed /\ todo' = ts /\ text'[w].how = "not yet"
    BY <1>1, <1>3, <2>3, <2>4, <2>6
  <2>9. UnderWay(w)'
    BY <1>1, <1>2, <2>4, <2>5, <2>6, <2>7, <2>8, UnderWayNext
  <2>10. walk' = w
    BY <1>1, <2>1
  <2> QED
    BY <2>9, <2>10
<1> QED
  BY <1>1, <1>3, <1>4, <1>5, Static DEF IInv

LEMMA StepVisit ==
  ASSUME IInv, NEW w \in Walks, walk = w, NEW n, Visit(n)
  PROVE  IInv'
<1>1. CASE visitModule(n)
  BY <1>1, StepModule
<1>2. CASE visitInterface(n)
  BY <1>2, StepInterface
<1>3. CASE visitClass(n)
  BY <1>3, StepClass
<1>4. CASE visitMembers(n)
  BY <1>4, StepMembers
<1>5. CASE visitStruct(n)
  BY <1>5, StepStruct
<1>6. CASE serializeStruct(n)
  BY <1>6, StepSerialize
<1>7. CASE visitEnum(n)
  BY <1>7, StepEnum
<1>8. CASE visitTyped(n)
  BY <1>8, StepTyped
<1>9. CASE declareCall(n)
  BY <1>9, StepCall
<1>10. CASE visitNothing(n)
  BY <1>10, StepNothing
<1> QED
  BY <1>1, <1>2, <1>3, <1>4, <1>5, <1>6, <1>7, <1>8, <1>9, <1>10 DEF Visit

LEMMA StepIInv ==
  ASSUME IInv, Next
  PROVE  IInv'
<1>1. ASSUME NEW w \in Walks, visitAST(w) PROVE IInv'
  BY <1>1, StepAST
<1>2. CASE walk = NULL
  <2>1. \E w \in Walks : visitAST(w)
    BY <1>2, Zenon DEF Next, Visit, Accept, visitModule, visitInterface, visitClass, visitMembers,
       visitStruct, serializeStruct, visitEnum, visitTyped, declareCall, visitNothing, Doing,
       visitType, takeType, declare, closeBrace, TypeRaises, TakeRaises, LineRaises, CommentRaises,
       Whole_walk
  <2> QED
    BY <1>1, <2>1
<1>3. CASE walk # NULL
  <2>1. PICK w \in Walks : walk = w
    BY <1>3 DEF IInv, TypeOK
  <2>2. CASE \E n \in DOMAIN file : Visit(n)
    BY <2>1, <2>2, StepVisit
  <2>3. CASE visitType
    BY <2>1, <2>3, StepType
  <2>4. CASE takeType
    BY <2>1, <2>4, StepTake
  <2>5. CASE declare
    BY <2>1, <2>5, StepDeclare
  <2>6. CASE closeBrace
    BY <2>1, <2>6, StepClose
  <2>7. CASE TypeRaises
    BY <2>1, <2>7, StepTypeRaises
  <2>8. CASE TakeRaises
    BY <2>1, <2>8, StepTakeRaises
  <2>9. CASE LineRaises
    BY <2>1, <2>9, StepLineRaises
  <2>10. CASE Whole_walk
    BY <2>1, <2>10, StepWhole
  <2>11. CASE CommentRaises
    BY <2>1, <2>11, StepCommentRaises
  <2> QED
    BY <1>1, <2>2, <2>3, <2>4, <2>5, <2>6, <2>7, <2>8, <2>9, <2>10, <2>11 DEF Next
<1> QED
  BY <1>2, <1>3

(* The inductive invariant, for every set of IDL files.                    *)
THEOREM Inductive == Spec => []IInv
<1>1. Init => IInv
  BY InitIInv
<1>2. IInv /\ [Next]_vars => IInv'
  BY StepIInv, Unchanged
<1> QED
  BY <1>1, <1>2, PTL DEF Spec

(* Of every IDL file, every walk of the visitors of both back ends prints  *)
(* what is its to print, in the order of the file, within the right        *)
(* braces, of the right types: no declaration gets the type that another   *)
(* left in __result_type.                                                  *)
THEOREM Faithful == Spec => []TextsFaithful
<1>1. IInv => TextsFaithful
  <2> SUFFICES ASSUME IInv PROVE TextsFaithful
    OBVIOUS
  <2>1. TypeOK
    BY DEF IInv
  <2>2. ASSUME NEW w \in Walks
        PROVE  /\ \A p, q \in DOMAIN text[w].lines : p < q => text[w].lines[p].node < text[w].lines[q].node
               /\ Printed(w) \subseteq Printable(w)
               /\ text[w].how = "whole" => Printed(w) = Printable(w)
               /\ \A p \in DOMAIN text[w].lines :
                    /\ text[w].lines[p].scope = Place(w, text[w].lines[p].node)
                    /\ \A k \in DOMAIN TypesTaken(w, text[w].lines[p].node) :
                         file[text[w].lines[p].node].types[k].kind # "fixed"
                           => Names(w.by, file[text[w].lines[p].node].types[k], NULL)
                                = {text[w].lines[p].names[k]}
    <3>1. LinesFit(w) /\ Ended(w)
      BY DEF IInv
    <3>2. \A p \in DOMAIN text[w].lines : LineFits(w, text[w].lines[p])
      BY <3>1 DEF LinesFit
    <3>3. \A p, q \in DOMAIN text[w].lines : p < q => text[w].lines[p].node < text[w].lines[q].node
      BY <3>1 DEF LinesFit
    <3>4. Printed(w) \subseteq Printable(w)
      BY <3>2 DEF Printed, LineFits
    <3>5. text[w].how = "whole" => Printed(w) = Printable(w)
      BY <3>1 DEF Ended
    <3>6. ASSUME NEW p \in DOMAIN text[w].lines
          PROVE  /\ text[w].lines[p].scope = Place(w, text[w].lines[p].node)
                 /\ \A k \in DOMAIN TypesTaken(w, text[w].lines[p].node) :
                      file[text[w].lines[p].node].types[k].kind # "fixed"
                        => Names(w.by, file[text[w].lines[p].node].types[k], NULL)
                             = {text[w].lines[p].names[k]}
      BY <3>2, Zenon DEF LineFits, Fits, Named
    <3> QED
      BY <3>3, <3>4, <3>5, <3>6
  <2> QED
    BY <2>1, <2>2, Zenon DEF TextsFaithful
<1> QED
  BY <1>1, Inductive, PTL

(* A visitor raises if and only if there is a declaration it cannot print; *)
(* and it has then printed all there is before the first of them.          *)
THEOREM Raises == Spec => []RaiseHasCause
<1>1. IInv => RaiseHasCause
  <2> SUFFICES ASSUME IInv, NEW w \in Walks
               PROVE  /\ text[w].how = "whole" => Causes(w) = {}
                      /\ text[w].how = "raised" =>
                           /\ Causes(w) # {}
                           /\ Printed(w) = {n \in Printable(w) : n < Min(Causes(w))}
    BY DEF RaiseHasCause
  <2>1. Ended(w) /\ file \in Files
    BY DEF IInv, TypeOK
  <2>2. text[w].how = "whole" => Causes(w) = {}
    BY <2>1 DEF Ended
  <2>3. ASSUME text[w].how = "raised"
        PROVE  Causes(w) # {} /\ Printed(w) = {n \in Printable(w) : n < Min(Causes(w))}
    <3>1. PICK c \in Causes(w) : /\ \A d \in Causes(w) : c <= d
                                 /\ Printed(w) = {x \in Printable(w) : x < c}
      BY <2>1, <2>3 DEF Ended
    <3>2. \A d \in Causes(w) : d \in Int
      <4>1. N \in Nat /\ \A d \in Causes(w) : d \in 1 .. N
        BY <2>1, FileIs, PrintableIs DEF Causes
      <4> QED
        BY <4>1
    <3>3. PICK S : S = Causes(w)
      OBVIOUS
    <3>4. Min(S) \in S /\ \A d \in S : Min(S) <= d
      BY <3>1, <3>3 DEF Min
    <3>5. Min(S) = c
      BY <3>1, <3>2, <3>3, <3>4
    <3> QED
      BY <3>1, <3>3, <3>5
  <2> QED
    BY <2>2, <2>3
<1> QED
  BY <1>1, Inductive, PTL

-----------------------------------------------------------------------------
(* Names.                                                                  *)
LEMMA NamesAre ==
  ASSUME file \in Files, NEW n \in 1 .. N
  PROVE  /\ file[n].id \notin {ClassName, "std:wstring"}
         /\ In(n) # 0 => file[n].id # file[In(n)].id
         /\ \A m \in 1 .. n - 1 : Path[m] = Path[n] =>
              \E ks \in {{"module"}, {"forward", "interface"}, {"structforward", "struct"}} :
                file[m].kind \in ks /\ file[n].kind \in ks
         /\ \A k \in DOMAIN file[n].names : CanBeNamed(file, n, file[n].names[k])
         /\ file[n].names # <<>> => file[n].kind \in {"interface", "attribute", "operation"}
         /\ \A k \in DOMAIN file[n].types :
              file[n].types[k].of # 0 => CanBeNamed(file, n, file[n].types[k].of)
<1>1. IsFile(file) /\ n \in DOMAIN file
  BY VisitorsAssumption, FileIs
<1>2. WellNamed(file, n)
  BY <1>1 DEF IsFile
<1>3. /\ file[n].id \notin {ClassName, "std:wstring"}
      /\ In(n) # 0 => file[n].id # file[In(n)].id
      /\ \A m \in 1 .. n - 1 : Path[m] = Path[n] =>
           \E ks \in {{"module"}, {"forward", "interface"}, {"structforward", "struct"}} :
             file[m].kind \in ks /\ file[n].kind \in ks
  BY <1>2, Zenon DEF WellNamed, Path, In, Words
<1>4. /\ \A k \in DOMAIN file[n].names : CanBeNamed(file, n, file[n].names[k])
      /\ file[n].names # <<>> => file[n].kind \in {"interface", "attribute", "operation"}
      /\ \A k \in DOMAIN file[n].types :
           file[n].types[k].of # 0 => CanBeNamed(file, n, file[n].types[k].of)
  BY <1>1, Zenon DEF IsFile
<1> QED
  BY <1>3, <1>4

LEMMA OneMore ==
  ASSUME NEW R, NEW q \in Seq(R), NEW x \in R, NEW a, a = Append(q, x)
  PROVE  /\ a \in Seq(R) /\ Len(q) \in Nat /\ Len(a) = Len(q) + 1
         /\ a[Len(q) + 1] = x /\ \A i \in 1 .. Len(q) : a[i] = q[i]
OBVIOUS

(* The path of a declaration is not empty and has only names of the file.  *)
LEMMA PathParts ==
  ASSUME file \in Files, NEW m \in 0 .. N
  PROVE  /\ Path[m] \in Seq(STRING) /\ Len(Path[m]) \in Nat
         /\ \A i \in 1 .. Len(Path[m]) : Path[m][i] # ClassName
         /\ m # 0 => Len(Path[m]) # 0
<1> DEFINE Good(x) == \A i \in 1 .. Len(Path[x]) : Path[x][i] # ClassName
           S == {x \in 0 .. N : \A y \in 0 .. x : Good(y)}
<1>0. N \in Nat /\ \A x \in 0 .. N : Path[x] \in Seq(STRING)
  BY FileIs, PathIs
<1>1. 0 \in S
  <2>1. Len(Path[0]) = 0 /\ \A y \in 0 .. 0 : y = 0
    <3>1. Path[0] = <<>> /\ Len(<<>>) = 0
      BY PathIs
    <3> QED
      BY <3>1
  <2> QED
    BY <1>0, <2>1
<1>2. ASSUME NEW x \in 0 .. N - 1, x \in S PROVE x + 1 \in S
  <2>1. x + 1 \in 1 .. N /\ In(x + 1) \in 0 .. x
    BY <1>0, InIs
  <2>2. PICK q, id : q = Path[In(x + 1)] /\ id = file[x + 1].id
    OBVIOUS
  <2>3. Path[x + 1] = Append(q, id) /\ id # ClassName /\ q \in Seq(STRING) /\ id \in STRING
    <3>1. file[x + 1].id \in STRING
      BY <2>1, KindsAre
    <3>2. In(x + 1) \in 0 .. N
      BY <1>0, <2>1
    <3> QED
      BY <1>0, <2>1, <2>2, <3>1, <3>2, PathIs, NamesAre
  <2>4. \A i \in 1 .. Len(q) : q[i] # ClassName
    BY <1>2, <2>1, <2>2
  <2>5. PICK a : a = Append(q, id)
    OBVIOUS
  <2>6. \A i \in 1 .. Len(a) : a[i] # ClassName
    <3>1. Len(a) = Len(q) + 1 /\ Len(q) \in Nat
      BY <2>3, <2>5, OneMore
    <3>2. a[Len(q) + 1] = id /\ \A i \in 1 .. Len(q) : a[i] = q[i]
      <4>1. PICK R : R = STRING
        OBVIOUS
      <4>2. q \in Seq(R) /\ id \in R
        BY <2>3, <4>1
      <4> QED
        BY <2>5, <4>2, OneMore
    <3>3. \A i \in 1 .. Len(a) : i = Len(q) + 1 \/ i \in 1 .. Len(q)
      BY <3>1
    <3> QED
      BY <2>3, <2>4, <3>2, <3>3
  <2>7. Good(x + 1)
    BY <2>3, <2>5, <2>6
  <2>8. \A y \in 0 .. x + 1 : y \in 0 .. x \/ y = x + 1
    BY <1>0
  <2> HIDE DEF Good
  <2> QED
    BY <1>0, <1>2, <2>1, <2>7, <2>8
<1>3. N \in S
  <2> HIDE DEF S
  <2> QED
    BY <1>0, <1>1, <1>2, Steps
<1>4. m # 0 => Len(Path[m]) # 0
  <2> SUFFICES ASSUME m \in 1 .. N PROVE Len(Path[m]) # 0
    BY <1>0
  <2>1. PICK q, id : q = Path[In(m)] /\ id = file[m].id
    OBVIOUS
  <2>2. Path[m] = Append(q, id) /\ q \in Seq(STRING)
    BY <1>0, <2>1, PathIs, InParent
  <2>3. Len(Append(q, id)) = Len(q) + 1 /\ Len(q) \in Nat
    BY <2>2
  <2> QED
    BY <2>2, <2>3
<1> QED
  BY <1>0, <1>3, <1>4

LEMMA KnownIs ==
  ASSUME file \in Files, NEW w \in Walks, NEW n, NEW kinds, NEW x
  PROVE  x \in Known(w, n, kinds) <=> \E m \in 1 .. N :
           /\ file[m].kind \in kinds /\ x = Path[m]
           /\ w.by \in Whole => m < n \/ (m = n /\ file[n].kind = "interface")
BY FileIs DEF Known

(* What stops a search for a name has the types and namespaces in it.      *)
LEMMA KnownStops ==
  ASSUME NEW w, NEW n, NEW name
  PROVE  Known(w, n, TypeKinds) \subseteq Known(w, n, Stops(name))
BY DEF Known, Stops

(* What can be named is known when it is, and so is the outermost that it  *)
(* is in; unless it is a union, whose name nothing else has.               *)
LEMMA NamedKnown ==
  ASSUME file \in Files, NEW w \in Walks, NEW n \in 1 .. N, NEW d \in 1 .. n - 1,
         file[d].kind \notin {"module"} \cup Values
  PROVE  /\ file[d].kind # "union" => /\ Path[d] \in Known(w, n, TypeKinds)
                                      /\ <<Path[d][1]>> \in Known(w, n, TypeKinds)
         /\ file[d].kind = "union" => Path[d] \notin Known(w, n, TypeKinds)
<1>0. N \in Nat /\ d \in 1 .. N /\ d < n
  BY FileIs
<1>1. file[d].kind # "union" => file[d].kind \in TypeKinds
  BY <1>0, KindsAre DEF TypeKinds, Values
<1>2. file[d].kind # "union" => Path[d] \in Known(w, n, TypeKinds)
  BY <1>0, <1>1, KnownIs
<1>3. ASSUME file[d].kind # "union" PROVE <<Path[d][1]>> \in Known(w, n, TypeKinds)
  <2> DEFINE Root(m) == \E a \in 1 .. m : Path[a] = <<Path[m][1]>> /\ (a = m \/ file[a].kind \in Scopes)
             S == {m \in 1 .. N : ~Root(m)}
  <2>1. ASSUME NEW m \in 1 .. N, \A y \in 1 .. N : y < m => Root(y) PROVE Root(m)
    <3>1. /\ Path[m] = Append(Path[In(m)], file[m].id) /\ file[m].id \in STRING
          /\ In(m) \in 0 .. m - 1 /\ m \in 1 .. m
      <4>1. m \in 1 .. m
        BY <1>0
      <4> QED
        BY <4>1, PathIs, InIs, KindsAre
    <3>2. CASE In(m) = 0
      <4>1. Path[In(m)] = <<>>
        BY <3>2, PathIs
      <4>2. PICK id : id = file[m].id
        OBVIOUS
      <4>3. Path[m] = Append(<<>>, id)
        BY <3>1, <4>1, <4>2, Zenon
      <4>4. Append(<<>>, id) = <<id>> /\ <<id>>[1] = id
        OBVIOUS
      <4>5. Path[m] = <<id>> /\ Path[m][1] = id
        BY <4>3, <4>4
      <4>6. Path[m] = <<Path[m][1]>>
        BY <4>5
      <4> QED
        BY <3>1, <4>6
    <3>3. CASE In(m) # 0
      <4>1. In(m) \in 1 .. N /\ In(m) < m
        BY <1>0, <3>1, <3>3
      <4>2. PICK a \in 1 .. In(m) : Path[a] = <<Path[In(m)][1]>> /\ (a = In(m) \/ file[a].kind \in Scopes)
        BY <2>1, <4>1
      <4>3. PICK q, id : q = Path[In(m)] /\ id = file[m].id
        OBVIOUS
      <4>4. q \in Seq(STRING) /\ Len(q) # 0 /\ Len(q) \in Nat
        BY <1>0, <4>1, <4>3, PathParts
      <4>5. Append(q, id)[1] = q[1]
        BY <4>4
      <4>6. Path[m][1] = Path[In(m)][1]
        BY <3>1, <4>3, <4>5
      <4>7. file[In(m)].kind \in Scopes
        BY <4>1, FileIs DEF Nested, In
      <4>8. a \in 1 .. m
        BY <1>0, <3>1, <4>1
      <4> QED
        BY <4>2, <4>6, <4>7, <4>8
    <3> QED
      BY <3>2, <3>3
  <2> HIDE DEF Root
  <2>2. Root(d)
    <3> SUFFICES ASSUME ~Root(d) PROVE FALSE
      OBVIOUS
    <3>1. S \in SUBSET Nat /\ S # {}
      BY <1>0
    <3>2. PICK m \in S : \A y \in S : m <= y
      BY <3>1, Least
    <3>3. \A y \in 1 .. N : y < m => Root(y)
      BY <1>0, <3>2
    <3> QED
      BY <2>1, <3>2, <3>3
  <2>3. PICK a \in 1 .. d : Path[a] = <<Path[d][1]>> /\ (a = d \/ file[a].kind \in Scopes)
    BY <2>2 DEF Root
  <2>4. file[a].kind \in TypeKinds
    BY <1>1, <1>3, <2>3 DEF TypeKinds, Values, Scopes, Declarations
  <2>5. a \in 1 .. N /\ a < n
    BY <1>0, <2>3
  <2> QED
    BY <2>3, <2>4, <2>5, KnownIs
<1>4. ASSUME file[d].kind = "union", Path[d] \in Known(w, n, TypeKinds) PROVE FALSE
  <2>1. PICK m \in 1 .. N : file[m].kind \in TypeKinds /\ Path[d] = Path[m]
    BY <1>4, KnownIs
  <2>2. m # d
    BY <1>4, <2>1 DEF TypeKinds, Declarations
  <2>3. CASE m < d
    <3>1. m \in 1 .. d - 1 /\ Path[m] = Path[d]
      BY <1>0, <2>1, <2>3
    <3> QED
      BY <1>0, <1>4, <3>1, NamesAre
  <2>4. CASE d < m
    <3>1. d \in 1 .. m - 1
      BY <1>0, <2>4
    <3> QED
      BY <1>4, <2>1, <3>1, NamesAre
  <2> QED
    BY <1>0, <2>2, <2>3, <2>4
<1> QED
  BY <1>2, <1>3, <1>4

(* Where C++ looks: outward from the innermost scope, up to the first that *)
(* has the name's first part.                                              *)
Nearest(stops, place, id, k) ==
  /\ k \in 0 .. Len(place)
  /\ Append(Enclosing(place, k), id) \in stops
  /\ \A i \in k + 1 .. Len(place) : Append(Enclosing(place, i), id) \notin stops
FoundThere(stops, known, place, name, k) ==
  Found(stops, known, place, name) = {Enclosing(place, k) \o name} \cap known

LEMMA FoundAt ==
  ASSUME NEW stops, NEW known, NEW R, NEW place \in Seq(R), NEW name, NEW k, Nearest(stops, place, name[1], k)
  PROVE  FoundThere(stops, known, place, name, k)
<1> DEFINE ks == {i \in 0 .. Len(place) : Append(Enclosing(place, i), name[1]) \in stops}
<1>1. Len(place) \in Nat
  OBVIOUS
<1>2. k \in ks /\ \A i \in ks : i \in Int /\ i <= k
  BY <1>1 DEF Nearest
<1>3. Found(stops, known, place, name)
        = {Enclosing(place, i) \o name : i \in IF ks = {} THEN {} ELSE {Max(ks)}} \cap known
  BY DEF Found
<1> HIDE DEF ks
<1>4. Max(ks) = k
  <2>1. Max(ks) \in ks /\ \A i \in ks : Max(ks) >= i
    BY <1>2 DEF Max
  <2>2. PICK m \in ks : m = Max(ks)
    BY <2>1
  <2>3. m \in Int /\ k \in Int /\ m <= k /\ m >= k
    BY <1>2, <2>1, <2>2
  <2> QED
    BY <2>2, <2>3
<1>5. (IF ks = {} THEN {} ELSE {Max(ks)}) = {k}
  BY <1>2, <1>4
<1> QED
  BY <1>3, <1>5, Zenon DEF FoundThere

LEMMA FoundFirst ==
  ASSUME NEW stops, NEW known, NEW R, NEW place \in Seq(R), NEW name, Found(stops, known, place, name) # {}
  PROVE  \E k : Nearest(stops, place, name[1], k)
<1> DEFINE ks == {i \in 0 .. Len(place) : Append(Enclosing(place, i), name[1]) \in stops}
<1>1. Len(place) \in Nat
  OBVIOUS
<1>2. Found(stops, known, place, name)
        = {Enclosing(place, i) \o name : i \in IF ks = {} THEN {} ELSE {Max(ks)}} \cap known
  BY DEF Found
<1>3. ks # {}
  <2> HIDE DEF ks
  <2> QED
    BY <1>2
<1>4. ks \in SUBSET Nat /\ \A i \in ks : i <= Len(place)
  BY <1>1
<1>5. PICK k \in ks : \A i \in ks : i <= k
  <2> HIDE DEF ks
  <2> QED
    BY <1>1, <1>3, <1>4, Greatest
<1>6. k \in 0 .. Len(place) /\ Append(Enclosing(place, k), name[1]) \in stops
  OBVIOUS
<1>7. \A i \in k + 1 .. Len(place) : Append(Enclosing(place, i), name[1]) \notin stops
  <2> SUFFICES ASSUME NEW i \in k + 1 .. Len(place), Append(Enclosing(place, i), name[1]) \in stops
               PROVE  FALSE
    OBVIOUS
  <2>1. i \in 0 .. Len(place) /\ ~(i <= k)
    BY <1>1, <1>6
  <2>2. i \in ks
    BY <2>1
  <2> HIDE DEF ks
  <2> QED
    BY <1>5, <2>1, <2>2
<1> QED
  BY <1>6, <1>7 DEF Nearest

LEMMA EnclosingIs ==
  ASSUME NEW R, NEW place \in Seq(R), NEW k \in 0 .. Len(place)
  PROVE  /\ Enclosing(place, k) \in Seq(R) /\ Len(Enclosing(place, k)) = k
         /\ \A i \in 1 .. k : Enclosing(place, k)[i] = place[i]
         /\ k = Len(place) => Enclosing(place, k) = place
BY DEF Enclosing

(* Of a sequence with more behind it, the beginning is the sequence; and   *)
(* nothing is known under two names.                                       *)
LEMMA EnclosingPart ==
  ASSUME NEW R, NEW q \in Seq(R), NEW rest \in Seq(R), NEW place, place = q \o rest
  PROVE  Enclosing(place, Len(q)) = q /\ Len(q) \in 0 .. Len(place) /\ place \in Seq(R)
<1>1. /\ place \in Seq(R) /\ Len(place) = Len(q) + Len(rest) /\ Len(q) \in Nat /\ Len(rest) \in Nat
      /\ \A i \in 1 .. Len(q) : place[i] = q[i]
  OBVIOUS
<1>2. Len(q) \in 0 .. Len(place)
  BY <1>1
<1>3. PICK e : e = Enclosing(place, Len(q))
  OBVIOUS
<1>4. e \in Seq(R) /\ Len(e) = Len(q) /\ \A i \in 1 .. Len(q) : e[i] = q[i]
  BY <1>1, <1>2, <1>3, EnclosingIs
<1>5. e = q
  BY <1>4
<1> QED
  BY <1>1, <1>2, <1>3, <1>5

LEMMA LastPart ==
  ASSUME NEW R, NEW a \in Seq(R), NEW b \in Seq(R), NEW x \in R, NEW y \in R, Append(a, x) = Append(b, y)
  PROVE  a = b /\ x = y
<1>1. PICK s : s = Append(a, x)
  OBVIOUS
<1>2. /\ Len(s) = Len(a) + 1 /\ s[Len(a) + 1] = x /\ \A i \in 1 .. Len(a) : s[i] = a[i]
      /\ Len(a) \in Nat
  BY <1>1, OneMore
<1>3. /\ Len(s) = Len(b) + 1 /\ s[Len(b) + 1] = y /\ \A i \in 1 .. Len(b) : s[i] = b[i]
      /\ Len(b) \in Nat
  BY <1>1, OneMore
<1>4. Len(a) = Len(b)
  BY <1>2, <1>3
<1>5. \A i \in 1 .. Len(a) : a[i] = b[i]
  BY <1>2, <1>3, <1>4
<1> QED
  BY <1>2, <1>3, <1>4, <1>5

(* A declaration's whole name finds it if nothing nearer is called as the  *)
(* outermost that it is in.                                                *)
Nearer(w, n, j, name) == \E i \in j + 1 .. Len(Place(w, n)) :
  Append(Enclosing(Place(w, n), i), name[1]) \in Known(w, n, Stops(name))
Finds(w, n, name, d) ==
  Found(Known(w, n, Stops(name)), Known(w, n, TypeKinds), Place(w, n), name) = {Path[d]}
WholeFree(w, n, d) == file[d].kind # "union" /\ ~Nearer(w, n, 0, Path[d])

LEMMA FoundWhole ==
  ASSUME file \in Files, NEW w \in Walks, NEW n \in 1 .. N, NEW d, CanBeNamed(file, n, d)
  PROVE  Finds(w, n, Path[d], d) <=> WholeFree(w, n, d)
<1>r. PICK R : R = STRING \cup {ClassName}
  OBVIOUS
<1>0. PICK stops, known, place, P, id :
        /\ stops = Known(w, n, Stops(P)) /\ known = Known(w, n, TypeKinds)
        /\ place = Place(w, n) /\ P = Path[d] /\ id = P[1]
  OBVIOUS
<1>1. d \in 1 .. n - 1 /\ file[d].kind \notin {"module"} \cup Values
  BY DEF CanBeNamed
<1>2. /\ file[d].kind # "union" => P \in known /\ <<id>> \in stops
      /\ file[d].kind = "union" => P \notin known
  BY <1>0, <1>1, NamedKnown, KnownStops
<1>3. place \in Seq(R) /\ Len(place) \in Nat /\ P \in Seq(R) /\ Len(P) \in Nat /\ Len(P) # 0
  <2>1. place \in Seq(R)
    BY <1>0, <1>r, PlaceIs
  <2>2. d \in 0 .. N /\ d # 0
    BY <1>1, FileIs
  <2>3. P \in Seq(STRING) /\ Len(P) \in Nat /\ Len(P) # 0
    BY <1>0, <2>2, PathParts
  <2> QED
    BY <1>r, <2>1, <2>3
<1>4. id \in R
  BY <1>0, <1>3
<1>5. Append(Enclosing(place, 0), id) = <<id>> /\ 0 \in 0 .. Len(place) /\ Enclosing(place, 0) \o P = P
  <2>1. 0 \in 0 .. Len(place)
    BY <1>3
  <2>2. PICK e : e = Enclosing(place, 0)
    OBVIOUS
  <2>3. e \in Seq(R) /\ Len(e) = 0
    BY <1>3, <2>1, <2>2, EnclosingIs
  <2>4. e = <<>>
    BY <2>3
  <2>5. Append(<<>>, id) = <<id>> /\ <<>> \o P = P
    BY <1>3, <1>4
  <2> QED
    BY <2>1, <2>2, <2>4, <2>5
<1>6. Nearer(w, n, 0, P) <=> \E i \in 0 + 1 .. Len(place) : Append(Enclosing(place, i), id) \in stops
  BY <1>0 DEF Nearer
<1>7. CASE file[d].kind = "union"
  <2>1. P \notin Found(stops, known, place, P)
    BY <1>2, <1>7 DEF Found
  <2> QED
    BY <1>0, <1>7, <2>1 DEF Finds, WholeFree
<1>8. CASE file[d].kind # "union" /\ ~Nearer(w, n, 0, P)
  <2>1. Found(stops, known, place, P) = {P} \cap known
    <3>1. Nearest(stops, place, P[1], 0)
      BY <1>0, <1>2, <1>5, <1>6, <1>8 DEF Nearest
    <3>2. Found(stops, known, place, P) = {Enclosing(place, 0) \o P} \cap known
      <4>1. FoundThere(stops, known, place, P, 0)
        BY <1>3, <3>1, FoundAt
      <4> QED
        BY <4>1 DEF FoundThere
    <3> QED
      BY <1>5, <3>2
  <2> QED
    BY <1>0, <1>2, <1>8, <2>1 DEF Finds, WholeFree
<1>9. CASE file[d].kind # "union" /\ Nearer(w, n, 0, P)
  <2> SUFFICES ASSUME Found(stops, known, place, P) = {P} PROVE FALSE
    BY <1>0, <1>9 DEF Finds, WholeFree
  <2>1. PICK k : Nearest(stops, place, P[1], k)
    <3>1. Found(stops, known, place, P) # {}
      OBVIOUS
    <3> QED
      BY <1>3, <3>1, FoundFirst
  <2>2. k # 0
    BY <1>0, <1>6, <1>9, <2>1 DEF Nearest
  <2>3. PICK e, whole : e = Enclosing(place, k) /\ whole = e \o P
    OBVIOUS
  <2>4. e \in Seq(R) /\ Len(e) = k
    BY <1>3, <2>1, <2>3, EnclosingIs DEF Nearest
  <2>5. Len(whole) = k + Len(P)
    <3>1. Len(e \o P) = Len(e) + Len(P)
      BY <1>3, <2>4
    <3> QED
      BY <2>3, <2>4, <3>1
  <2>6. whole = P
    <3>1. Found(stops, known, place, P) = {Enclosing(place, k) \o P} \cap known
      <4>1. FoundThere(stops, known, place, P, k)
        BY <1>3, <2>1, FoundAt
      <4> QED
        BY <4>1 DEF FoundThere
    <3> QED
      BY <2>3, <3>1
  <2> QED
    BY <1>3, <2>1, <2>2, <2>5, <2>6 DEF Nearest
<1> QED
  BY <1>0, <1>7, <1>8, <1>9 DEF Finds, WholeFree

(* The bare name of one finds it from around it if nothing nearer is       *)
(* called the same.                                                        *)
LEMMA FoundBare ==
  ASSUME file \in Files, NEW w \in Walks, NEW n \in 1 .. N, NEW d, CanBeNamed(file, n, d)
  PROVE  Finds(w, n, <<file[d].id>>, d)
           <=> /\ file[d].kind # "union"
               /\ IsPrefix(Path[In(d)], Place(w, n))
               /\ ~Nearer(w, n, Len(Path[In(d)]), <<file[d].id>>)
<1>r. PICK R : R = STRING \cup {ClassName}
  OBVIOUS
<1>0. PICK name, stops, known, place, P, Q, id :
        /\ name = <<file[d].id>> /\ stops = Known(w, n, Stops(name)) /\ known = Known(w, n, TypeKinds)
        /\ place = Place(w, n) /\ P = Path[d] /\ Q = Path[In(d)] /\ id = file[d].id
  OBVIOUS
<1>1. d \in 1 .. n - 1 /\ file[d].kind \notin {"module"} \cup Values
  BY DEF CanBeNamed
<1>2. d \in 1 .. N
  BY <1>1, FileIs
<1>3. /\ file[d].kind # "union" => P \in known
      /\ file[d].kind = "union" => P \notin known
      /\ known \subseteq stops
  BY <1>0, <1>1, NamedKnown, KnownStops
<1>4. /\ place \in Seq(R) /\ Len(place) \in Nat /\ Q \in Seq(R) /\ Len(Q) \in Nat
      /\ id \in R /\ P = Append(Q, id)
  <2>1. place \in Seq(R)
    BY <1>0, <1>r, PlaceIs
  <2>2. Q \in Seq(STRING) /\ Len(Q) \in Nat
    BY <1>0, <1>2, InParent, PathParts
  <2>3. id \in STRING
    BY <1>0, <1>2, KindsAre
  <2>4. P = Append(Q, id)
    BY <1>0, <1>2, PathIs
  <2>5. Q \in Seq(R)
    BY <1>r, <2>2
  <2>6. id \in R
    BY <1>r, <2>3
  <2> QED
    BY <2>1, <2>2, <2>4, <2>5, <2>6
<1>5. id = name[1] /\ \A e \in Seq(R) : e \o name = Append(e, id)
  <2>1. <<id>>[1] = id /\ \A e \in Seq(R) : e \o <<id>> = Append(e, id)
    BY <1>4
  <2> QED
    BY <1>0, <2>1
<1>6. Nearer(w, n, Len(Q), name)
        <=> \E i \in Len(Q) + 1 .. Len(place) : Append(Enclosing(place, i), id) \in stops
  BY <1>0, <1>5 DEF Nearer
<1>7. IsPrefix(Q, place) <=> Len(Q) <= Len(place) /\ Enclosing(place, Len(Q)) = Q
  <2>1. SubSeq(Q, 1, Len(Q)) = Q
    BY <1>4
  <2> QED
    BY <2>1 DEF IsPrefix, Enclosing
<1>8. ASSUME file[d].kind # "union", IsPrefix(Q, place), ~Nearer(w, n, Len(Q), name)
      PROVE  Found(stops, known, place, name) = {P}
  <2>1. Len(Q) \in 0 .. Len(place) /\ Enclosing(place, Len(Q)) = Q
    BY <1>4, <1>7, <1>8
  <2>2. Append(Enclosing(place, Len(Q)), id) \in stops
    BY <1>3, <1>4, <1>5, <1>8, <2>1
  <2>3. \A i \in Len(Q) + 1 .. Len(place) : Append(Enclosing(place, i), id) \notin stops
    BY <1>6, <1>8
  <2>4. P = Enclosing(place, Len(Q)) \o name
    BY <1>4, <1>5, <2>1
  <2>5. Found(stops, known, place, name) = {P} \cap known
    <3>1. Nearest(stops, place, name[1], Len(Q))
      BY <1>5, <2>1, <2>2, <2>3 DEF Nearest
    <3>2. Found(stops, known, place, name) = {Enclosing(place, Len(Q)) \o name} \cap known
      <4>1. FoundThere(stops, known, place, name, Len(Q))
        BY <1>4, <3>1, FoundAt
      <4> QED
        BY <4>1 DEF FoundThere
    <3> QED
      BY <2>4, <3>2
  <2> QED
    BY <1>3, <1>8, <2>5
<1>9. ASSUME Found(stops, known, place, name) = {P}
      PROVE  file[d].kind # "union" /\ IsPrefix(Q, place) /\ ~Nearer(w, n, Len(Q), name)
  <2>1. P \in known
    BY <1>9 DEF Found
  <2>2. PICK k : Nearest(stops, place, name[1], k)
    <3>1. Found(stops, known, place, name) # {}
      BY <1>9
    <3> QED
      BY <1>4, <3>1, FoundFirst
  <2>3. PICK e : e = Enclosing(place, k)
    OBVIOUS
  <2>4. e \in Seq(R) /\ Len(e) = k
    BY <1>4, <2>2, <2>3, EnclosingIs DEF Nearest
  <2>5. Append(e, id) = P
    <3>1. Found(stops, known, place, name) = {Enclosing(place, k) \o name} \cap known
      <4>1. FoundThere(stops, known, place, name, k)
        BY <1>4, <2>2, FoundAt
      <4> QED
        BY <4>1 DEF FoundThere
    <3>2. Enclosing(place, k) \o name = P
      BY <1>9, <3>1
    <3> QED
      BY <1>5, <2>3, <2>4, <3>2
  <2>6. e = Q
    BY <1>4, <2>4, <2>5, LastPart
  <2>7. k = Len(Q)
    BY <2>4, <2>6
  <2>8. IsPrefix(Q, place)
    <3>1. Enclosing(place, Len(Q)) = Q
      BY <2>3, <2>6, <2>7
    <3>2. Len(Q) <= Len(place)
      BY <1>4, <2>2, <2>7 DEF Nearest
    <3> QED
      BY <1>7, <3>1, <3>2
  <2>9. ~Nearer(w, n, Len(Q), name)
    BY <1>5, <1>6, <2>2, <2>7 DEF Nearest
  <2> QED
    BY <1>3, <2>1, <2>8, <2>9
<1> QED
  BY <1>0, <1>8, <1>9 DEF Finds

(* No module is in an interface: so the last one stays the same.           *)
LEMMA LastModuleIn ==
  ASSUME file \in Files, NEW d \in 1 .. N, file[d].kind = "interface", NEW n \in d .. End(d) - 1
  PROVE  LastModule(n) = LastModule(d)
<1> DEFINE Under == d + 1 .. End(d) - 1
           M == {x \in Under : file[x].kind = "module"}
           ms(c) == {m \in 1 .. c - 1 : InKinds(m, {"module"})}
<1>0. /\ N \in Nat /\ End(d) \in d + 1 .. N + 1
      /\ \A x \in Under : x \in 1 .. N /\ In(x) \in 0 .. x - 1 /\ In(x) >= d
  <2>1. N \in Nat /\ End(d) \in d + 1 .. N + 1 /\ \A x \in Under : In(x) >= d
    BY FileIs, EndIs
  <2>2. \A x \in Under : x \in 1 .. N
    BY <2>1
  <2> QED
    BY <2>1, <2>2, InIs
<1>1. M = {}
  <2> SUFFICES ASSUME M # {} PROVE FALSE
    OBVIOUS
  <2>1. M \in SUBSET Nat
    BY <1>0
  <2>2. PICK x \in M : \A y \in M : x <= y
    BY <2>1, Least
  <2>3. x \in 1 .. N /\ In(x) # 0 /\ In(x) < x /\ x \in Nat /\ In(x) \in Nat /\ In(x) >= d
    BY <1>0, <2>2
  <2>4. file[In(x)].kind = "module"
    BY <2>2, <2>3, FileIs DEF Nested, In
  <2>5. In(x) # d
    BY <2>4
  <2>6. In(x) \in Under
    BY <1>0, <2>2, <2>3, <2>5
  <2>7. In(x) \in M
    BY <2>4, <2>6
  <2> HIDE DEF M
  <2> QED
    BY <2>2, <2>3, <2>7
<1>2. \A m : m \in ms(n) => m \in ms(d)
  <2> SUFFICES ASSUME NEW m \in ms(n) PROVE m \in ms(d)
    OBVIOUS
  <2>1. m \in 1 .. n - 1 /\ file[m].kind = "module" /\ InKinds(m, {"module"})
    BY DEF InKinds
  <2>2. m # d
    BY <2>1
  <2>3. m \notin Under
    BY <1>1, <2>1
  <2>4. m < d
    BY <1>0, <2>1, <2>2, <2>3
  <2> QED
    BY <1>0, <2>1, <2>4
<1>3. \A m : m \in ms(d) => m \in ms(n)
  BY <1>0
<1>4. ms(n) = ms(d)
  BY <1>2, <1>3
<1> QED
  BY <1>4 DEF LastModule

LEMMA LastModuleIs ==
  ASSUME file \in Files, NEW d \in 1 .. N
  PROVE  \/ LastModule(d) = <<>> /\ \A m \in 1 .. d - 1 : ~InKinds(m, {"module"})
         \/ \E m \in STRING : LastModule(d) = <<m>>
<1> DEFINE ms == {m \in 1 .. d - 1 : InKinds(m, {"module"})}
<1>1. LastModule(d) = IF ms = {} THEN <<>> ELSE <<file[Max(ms)].id>>
  BY DEF LastModule
<1>2. CASE ms = {}
  BY <1>1, <1>2
<1>3. CASE ms # {}
  <2>1. d \in Nat /\ ms \in SUBSET Nat /\ \A m \in ms : m <= d /\ m \in 1 .. N /\ m \in Int
    BY FileIs
  <2> HIDE DEF ms
  <2>2. \E x \in ms : \A y \in ms : x >= y
    <3>1. PICK x \in ms : \A y \in ms : y <= x
      BY <1>3, <2>1, Greatest
    <3> QED
      BY <2>1, <3>1
  <2>3. Max(ms) \in ms
    BY <2>2 DEF Max
  <2>4. file[Max(ms)].id \in STRING
    BY <2>1, <2>3, KindsAre
  <2> QED
    BY <1>1, <1>3, <2>4
<1> QED
  BY <1>2, <1>3

LEMMA ClassUnknown ==
  ASSUME file \in Files, NEW w \in Walks, NEW n, NEW kinds, NEW s,
         NEW i \in 1 .. Len(s), s[i] = ClassName
  PROVE  s \notin Known(w, n, kinds)
<1> SUFFICES ASSUME s \in Known(w, n, kinds) PROVE FALSE
  OBVIOUS
<1>1. PICK m \in 1 .. N : s = Path[m]
  BY KnownIs
<1>2. m \in 0 .. N
  BY FileIs
<1> QED
  BY <1>1, <1>2, PathParts

LEMMA TwoNames ==
  ASSUME NEW R, NEW e \in Seq(R), NEW m \in R, NEW x \in R
  PROVE  e \o <<m, x>> = Append(Append(e, m), x) /\ Append(e, m) \in Seq(R)
OBVIOUS

LEMMA SameNames ==
  ASSUME NEW R, NEW a \in Seq(R), NEW b \in Seq(R), Len(a) = Len(b), \A i \in 1 .. Len(a) : a[i] = b[i]
  PROVE  a = b
OBVIOUS

LEMMA OneAndOne ==
  ASSUME NEW R, NEW x \in R, NEW y \in R
  PROVE  <<x>> \o <<y>> = <<x, y>>
<1>1. <<x>> \in Seq(R) /\ <<x>> = Append(<<>>, x) /\ <<>> \in Seq(R)
  OBVIOUS
<1>2. <<x>> \o <<y>> = Append(<<x>>, y)
  BY <1>1
<1>3. <<>> \o <<x, y>> = Append(Append(<<>>, x), y)
  BY <1>1, TwoNames
<1>4. <<>> \o <<x, y>> = <<x, y>>
  OBVIOUS
<1> QED
  BY <1>1, <1>2, <1>3, <1>4

(* The id of a declaration is not used again directly in it.               *)
LEMMA OwnIdUnknown ==
  ASSUME file \in Files, NEW w \in Walks, NEW n, NEW kinds, NEW p \in 1 .. N
  PROVE  Append(Path[p], file[p].id) \notin Known(w, n, kinds)
<1>r. PICK R, Q, o, q0 : R = STRING /\ Q = Path[p] /\ o = file[p].id /\ q0 = Path[In(p)]
  OBVIOUS
<1>0. N \in Nat /\ \A x \in 0 .. N : Path[x] \in Seq(R)
  BY <1>r, FileIs, PathIs
<1>1. \A x \in 1 .. N : In(x) \in 0 .. N /\ file[x].id \in R /\ Path[x] = Append(Path[In(x)], file[x].id)
  BY <1>r, InParent, KindsAre, PathIs
<1>2. q0 \in Seq(R) /\ o \in R /\ Q = Append(q0, o) /\ Q \in Seq(R) /\ Len(Q) = Len(q0) + 1 /\ Len(q0) \in Nat
  <2>1. q0 \in Seq(R) /\ o \in R /\ Q = Append(q0, o)
    BY <1>r, <1>0, <1>1
  <2> QED
    BY <2>1, OneMore
<1> SUFFICES ASSUME Append(Q, o) \in Known(w, n, kinds) PROVE FALSE
  BY <1>r
<1>s. PICK s : s = Append(Q, o)
  OBVIOUS
<1>t. s \in Known(w, n, kinds)
  BY <1>s
<1>3. PICK x \in 1 .. N : s = Path[x]
  BY <1>t, KnownIs
<1>4. Path[In(x)] = Q /\ file[x].id = o
  <2>1. PICK z, q : z = file[x].id /\ q = Path[In(x)]
    OBVIOUS
  <2>2. q \in Seq(R) /\ z \in R /\ Append(q, z) = Append(Q, o)
    BY <1>0, <1>1, <1>s, <1>3, <2>1
  <2>3. q = Q /\ z = o
    BY <1>2, <2>2, LastPart
  <2> QED
    BY <2>1, <2>3
<1>5. In(x) # 0
  <2>1. Path[0] = <<>> /\ Len(<<>>) = 0
    BY PathIs
  <2> QED
    BY <1>2, <1>4, <2>1
<1>6. In(x) \in 1 .. N
  BY <1>0, <1>1, <1>5
<1>7. file[In(x)].id = o
  <2>1. PICK y, z, q : y = In(x) /\ z = file[y].id /\ q = Path[In(y)]
    OBVIOUS
  <2>2. q \in Seq(R) /\ z \in R /\ Append(q, z) = Append(q0, o)
    BY <1>0, <1>1, <1>2, <1>4, <1>6, <2>1
  <2>3. z = o
    BY <1>2, <2>2, LastPart
  <2> QED
    BY <2>1, <2>3
<1> QED
  BY <1>4, <1>5, <1>7, NamesAre

(* An interface is named by the last module and itself: this finds it if   *)
(* the last module is the one that it is in.                               *)
LEMMA FoundInterface ==
  ASSUME file \in Files, NEW w \in Walks, w.by \in Classes \cup Sources, NEW d \in Own(w), NEW n \in 1 .. N,
         \/ n = d /\ w.by \in Classes
         \/ In(n) = d,
         NEW name, name = LastModule(n) \o <<w.interface>>
  PROVE  Finds(w, n, name, d) <=> LastModule(d) = OwnModule(d)
<1>r. PICK R : R = STRING \cup {ClassName}
  OBVIOUS
<1>0. PICK stops, known, place, P, Q, I, L :
        /\ stops = Known(w, n, Stops(name)) /\ known = Known(w, n, TypeKinds) /\ place = Place(w, n) /\ P = Path[d] /\ Q = Path[In(d)]
        /\ I = w.interface /\ L = LastModule(d)
  OBVIOUS
<1>n. /\ N \in Nat /\ w.by \notin Whole
  BY FileIs DEF Whole, Classes, Sources
<1>1. /\ d \in 1 .. N /\ file[d].kind = "interface" /\ file[d].id = I /\ file[d].main
      /\ In(d) \in 0 .. d - 1 /\ I \in STRING
      /\ In(d) # 0 => In(d) \in 1 .. N /\ file[In(d)].kind = "module" /\ file[In(d)].main
  <2>1. d \in 1 .. N /\ file[d].kind = "interface" /\ file[d].id = I /\ file[d].main
    BY <1>0, PrintableIs
  <2>2. In(d) \in 0 .. d - 1 /\ file[d].id \in STRING
    BY <2>1, InIs, KindsAre
  <2>3. In(d) # 0 => file[In(d)].kind = "module" /\ file[In(d)].main
    BY <2>1, FileIs DEF Nested, In
  <2>4. In(d) # 0 => In(d) \in 1 .. N
    BY <1>n, <2>1, <2>2
  <2>5. I \in STRING
    BY <2>1, <2>2
  <2> QED
    BY <2>1, <2>2, <2>3, <2>4, <2>5
<1>2. name = L \o <<I>>
  <2>1. n \in d .. End(d) - 1
    <3>1. d \in 0 .. N
      BY <1>1
    <3>2. End(d) \in d + 1 .. N + 1
      BY <3>1, EndIs
    <3>3. In(n) = d => n \in d + 1 .. End(d) - 1
      BY InParent
    <3> QED
      BY <1>1, <1>n, <3>2, <3>3
  <2>2. LastModule(n) = LastModule(d)
    BY <1>1, <2>1, LastModuleIn
  <2> QED
    BY <1>0, <2>2
<1>3. Q \in Seq(R) /\ Len(Q) \in Nat /\ (In(d) = 0 => Q = <<>>) /\ P = Append(Q, I) /\ I \in R
  <2>1. In(d) \in 0 .. N
    BY <1>1, InParent
  <2>2. Q \in Seq(STRING) /\ Len(Q) \in Nat
    BY <1>0, <2>1, PathParts
  <2>3. P = Append(Q, I)
    BY <1>0, <1>1, PathIs
  <2>4. In(d) = 0 => Q = <<>>
    BY <1>0, PathIs
  <2>5. I \in R
    BY <1>1, <1>r
  <2>6. Q \in Seq(R)
    BY <1>r, <2>2
  <2> QED
    BY <2>2, <2>3, <2>4, <2>5, <2>6
<1>4. PICK rest : rest \in {<<>>, <<ClassName>>} /\ place = Q \o rest
  <2>1. CASE n = d
    <3>1. place = Q
      BY <1>0, <1>1, <2>1, PlaceIs
    <3>2. place = Q \o <<>>
      BY <1>3, <3>1
    <3> QED
      BY <3>2
  <2>2. CASE In(n) = d
    <3>1. d # 0
      BY <1>1
    <3>2. place = Path[In(d)] \o IF w.by \in Classes THEN <<ClassName>> ELSE <<>>
      BY <1>0, <1>1, <1>n, <2>2, <3>1 DEF Place, In
    <3> QED
      BY <1>0, <3>2
  <2> QED
    BY <2>1, <2>2
<1>5. /\ place \in Seq(R) /\ Len(place) \in Nat /\ Len(Q) <= Len(place) /\ Len(place) <= Len(Q) + 1
      /\ Enclosing(place, Len(Q)) = Q
      /\ Len(Q) < Len(place) => place[Len(Q) + 1] = ClassName
  <2>1. ClassName \in R
    BY <1>r
  <2>2. PICK c : c = ClassName
    OBVIOUS
  <2>3. rest \in Seq(R) /\ Len(rest) \in Nat /\ Len(rest) <= 1 /\ (Len(rest) = 1 => rest[1] = c)
    <3>1. \A x \in R : <<x>> \in Seq(R) /\ Len(<<x>>) = 1 /\ <<x>>[1] = x
      OBVIOUS
    <3>2. <<>> \in Seq(R) /\ Len(<<>>) = 0
      OBVIOUS
    <3>3. rest = <<>> \/ rest = <<c>>
      BY <1>4, <2>2
    <3>4. CASE rest = <<>>
      BY <3>2, <3>4
    <3>5. CASE rest = <<c>>
      BY <2>1, <2>2, <3>1, <3>5
    <3> QED
      BY <3>3, <3>4, <3>5
  <2>4. /\ Len(place) = Len(Q) + Len(rest)
        /\ \A i \in 1 .. Len(rest) : place[Len(Q) + i] = rest[i]
    BY <1>3, <1>4, <2>3
  <2>5. Enclosing(place, Len(Q)) = Q /\ place \in Seq(R)
    <3>1. place = Q \o rest
      BY <1>4
    <3>2. Q \in Seq(R) /\ rest \in Seq(R)
      BY <1>3, <2>3
    <3> QED
      BY <3>1, <3>2, EnclosingPart, Zenon
  <2>6. Len(place) \in Nat /\ Len(Q) <= Len(place) /\ Len(place) <= Len(Q) + 1
    BY <1>3, <2>3, <2>4
  <2>7. Len(Q) < Len(place) => Len(rest) = 1
    BY <1>3, <2>3, <2>4
  <2>8. Len(Q) < Len(place) => place[Len(Q) + 1] = ClassName
    BY <2>2, <2>3, <2>4, <2>7
  <2> QED
    BY <2>5, <2>6, <2>8
<1>6. \A id \in R, i \in Len(Q) + 1 .. Len(place) : Append(Enclosing(place, i), id) \notin stops
  <2> TAKE id \in R, i \in Len(Q) + 1 .. Len(place)
  <2>1. i = Len(place) /\ i = Len(Q) + 1 /\ place[i] = ClassName /\ i \in 0 .. Len(place)
    BY <1>3, <1>5
  <2>2. Enclosing(place, i) = place
    BY <1>5, <2>1, EnclosingIs
  <2>3. PICK s : s = Append(place, id)
    OBVIOUS
  <2>4. Len(s) = Len(place) + 1 /\ \A k \in 1 .. Len(place) : s[k] = place[k]
    BY <1>5, <2>3, OneMore
  <2>5. i \in 1 .. Len(s) /\ s[i] = ClassName
    <3>1. i \in 1 .. Len(place)
      BY <1>3, <1>5, <2>1
    <3>2. i \in 1 .. Len(s)
      BY <1>5, <2>4, <3>1
    <3> QED
      BY <2>1, <2>4, <3>1, <3>2
  <2> QED
    BY <1>0, <2>2, <2>3, <2>5, ClassUnknown
<1>7. P \in known /\ known \subseteq stops
  <2>1. file[d].kind \in TypeKinds
    BY <1>1 DEF TypeKinds, Values, Declarations
  <2> QED
    BY <1>0, <1>1, <1>n, <2>1, KnownIs, KnownStops
<1>8. CASE In(d) = 0 /\ L = <<>>
  <2>1. name = <<I>> /\ Q = <<>> /\ Len(Q) = 0
    <3>1. <<>> \o <<I>> = <<I>> /\ Len(<<>>) = 0
      OBVIOUS
    <3> QED
      BY <1>2, <1>3, <1>8, <3>1
  <2>2. name[1] = I /\ P = Q \o name
    <3>1. <<I>>[1] = I /\ Append(Q, I) = Q \o <<I>>
      BY <1>3
    <3> QED
      BY <1>3, <2>1, <3>1
  <2>3. Nearest(stops, place, name[1], Len(Q))
    <3>1. Len(Q) \in 0 .. Len(place)
      BY <1>3, <1>5
    <3>2. Append(Enclosing(place, Len(Q)), I) \in stops
      BY <1>3, <1>5, <1>7
    <3>3. \A i \in Len(Q) + 1 .. Len(place) : Append(Enclosing(place, i), I) \notin stops
      BY <1>3, <1>6
    <3> QED
      BY <2>2, <3>1, <3>2, <3>3 DEF Nearest
  <2>4. Found(stops, known, place, name) = {Enclosing(place, Len(Q)) \o name} \cap known
    <3>1. place \in Seq(R)
      BY <1>5
    <3>2. FoundThere(stops, known, place, name, Len(Q))
      BY <2>3, <3>1, FoundAt
    <3> QED
      BY <3>2 DEF FoundThere
  <2>5. Found(stops, known, place, name) = {P}
    BY <1>5, <1>7, <2>2, <2>4
  <2>6. OwnModule(d) = <<>>
    BY <1>8 DEF OwnModule, In
  <2> QED
    BY <1>0, <1>8, <2>5, <2>6 DEF Finds
<1>9. ASSUME NEW m \in STRING, L = <<m>>
      PROVE  name = <<m, I>> /\ name[1] = m /\ m \in R
             /\ (Found(stops, known, place, name) = {P} => \E e \in Seq(R) : P = Append(Append(e, m), I))
  <2>1. name = <<m, I>> /\ m \in R
    <3>1. <<m>> \o <<I>> = <<m, I>>
      <4>1. m \in R
        BY <1>r
      <4> QED
        BY <1>3, <4>1, OneAndOne
    <3>2. m \in R
      BY <1>r
    <3> QED
      BY <1>2, <1>9, <3>1, <3>2
  <2>2. name[1] = m
    BY <2>1
  <2>3. ASSUME Found(stops, known, place, name) = {P} PROVE \E e \in Seq(R) : P = Append(Append(e, m), I)
    <3>1. PICK k : Nearest(stops, place, name[1], k)
      <4>1. Found(stops, known, place, name) # {}
        BY <2>3
      <4> QED
        BY <1>5, <4>1, FoundFirst
    <3>2. Found(stops, known, place, name) = {Enclosing(place, k) \o name} \cap known
      <4>1. place \in Seq(R)
        BY <1>5
      <4>2. FoundThere(stops, known, place, name, k)
        BY <3>1, <4>1, FoundAt
      <4> QED
        BY <4>2 DEF FoundThere
    <3>3. PICK e : e = Enclosing(place, k)
      OBVIOUS
    <3>4. e \in Seq(R)
      BY <1>5, <3>1, <3>3, EnclosingIs DEF Nearest
    <3>5. P = e \o <<m, I>>
      BY <2>1, <2>3, <3>2, <3>3
    <3>6. e \o <<m, I>> = Append(Append(e, m), I)
      BY <1>3, <2>1, <3>4, TwoNames
    <3> QED
      BY <3>4, <3>5, <3>6
  <2> QED
    BY <2>1, <2>2, <2>3
<1>10. ASSUME In(d) = 0, NEW m \in STRING, L = <<m>>
       PROVE  Found(stops, known, place, name) # {P} /\ LastModule(d) # OwnModule(d)
  <2>1. OwnModule(d) = <<>> /\ <<m>> # <<>>
    BY <1>10 DEF OwnModule, In
  <2>2. ASSUME NEW e \in Seq(R), P = Append(Append(e, m), I) PROVE FALSE
    <3>1. m \in R
      BY <1>9, <1>10
    <3>2. PICK a : a = Append(e, m)
      OBVIOUS
    <3>3. a \in Seq(R) /\ Len(a) = Len(e) + 1 /\ Len(e) \in Nat
      BY <3>1, <3>2, OneMore
    <3>6. Len(a) # 0
      <4>1. \A l \in Nat : l + 1 # 0
        OBVIOUS
      <4> QED
        BY <3>3, <4>1
    <3>4. a = Q
      <4>1. Append(a, I) = Append(Q, I)
        BY <1>3, <2>2, <3>2
      <4> QED
        BY <1>3, <3>3, <4>1, LastPart
    <3>5. Len(Q) = 0
      <4>1. Len(<<>>) = 0
        OBVIOUS
      <4> QED
        BY <1>3, <1>10, <4>1
    <3> QED
      BY <3>4, <3>5, <3>6, Zenon
  <2> QED
    BY <1>0, <1>9, <1>10, <2>1, <2>2
<1>11. ASSUME In(d) # 0 PROVE Found(stops, known, place, name) = {P} <=> LastModule(d) = OwnModule(d)
  <2>1. PICK p, o, q0 : p = In(d) /\ o = file[p].id /\ q0 = Path[In(p)]
    OBVIOUS
  <2>2. /\ p \in 1 .. N /\ p \in 1 .. d - 1 /\ file[p].kind = "module" /\ file[p].main
        /\ OwnModule(d) = <<o>> /\ o \in R /\ o \in STRING
    <3>1. p \in 1 .. N /\ p \in 1 .. d - 1 /\ file[p].kind = "module" /\ file[p].main
      BY <1>1, <1>11, <2>1
    <3>2. OwnModule(d) = <<o>>
      BY <1>11, <2>1 DEF OwnModule, In
    <3>3. o \in STRING
      BY <2>1, <3>1, KindsAre
    <3> QED
      BY <1>r, <3>1, <3>2, <3>3
  <2>3. q0 \in Seq(R) /\ Q = Append(q0, o) /\ Len(q0) \in Nat
    <3>1. In(p) \in 0 .. N
      BY <2>2, InParent
    <3>2. q0 \in Seq(STRING) /\ Len(q0) \in Nat
      BY <2>1, <3>1, PathParts
    <3>3. Q = Append(q0, o)
      BY <1>0, <2>1, <2>2, PathIs
    <3>4. q0 \in Seq(R)
      BY <1>r, <3>2
    <3> QED
      BY <3>2, <3>3, <3>4
  <2>4. Q \in known
    <3>1. file[p].kind \in TypeKinds
      BY <2>2 DEF TypeKinds, Values, Declarations
    <3> QED
      BY <1>0, <1>n, <2>1, <2>2, <3>1, KnownIs
  <2>5. Append(Q, o) \notin stops
    BY <1>0, <2>1, <2>2, OwnIdUnknown
  <2>6. PICK m \in STRING : L = <<m>>
    <3>1. InKinds(p, {"module"})
      BY <2>2 DEF InKinds
    <3> QED
      BY <1>0, <1>1, <2>2, <3>1, LastModuleIs
  <2>7. name = <<m, I>> /\ name[1] = m /\ m \in R
        /\ (Found(stops, known, place, name) = {P} => \E e \in Seq(R) : P = Append(Append(e, m), I))
    BY <1>9, <2>6
  <2>8. ASSUME Found(stops, known, place, name) = {P} PROVE m = o
    <3>1. PICK e \in Seq(R) : P = Append(Append(e, m), I)
      BY <2>7, <2>8
    <3>2. PICK a : a = Append(e, m)
      OBVIOUS
    <3>3. a \in Seq(R)
      BY <2>7, <3>2, OneMore
    <3>4. a = Q
      <4>1. Append(a, I) = Append(Q, I)
        BY <1>3, <3>1, <3>2
      <4> QED
        BY <1>3, <3>3, <4>1, LastPart
    <3>5. Append(e, m) = Append(q0, o)
      BY <2>3, <3>2, <3>4
    <3> QED
      BY <2>2, <2>3, <2>7, <3>5, LastPart
  <2>9. ASSUME m = o PROVE Found(stops, known, place, name) = {P}
    <3>1. PICK k : k = Len(q0)
      OBVIOUS
    <3>2. Len(Q) = k + 1 /\ k \in 0 .. Len(place) /\ k + 1 \in 0 .. Len(place)
      <4>1. Len(Q) = Len(q0) + 1
        BY <2>2, <2>3, OneMore
      <4> QED
        BY <1>5, <2>3, <3>1, <4>1
    <3>3. Enclosing(place, k) = q0
      <4>1. PICK e, f : e = Enclosing(place, k) /\ f = Enclosing(place, k + 1)
        OBVIOUS
      <4>2. e \in Seq(R) /\ Len(e) = k /\ \A i \in 1 .. k : e[i] = place[i]
        BY <1>5, <3>2, <4>1, EnclosingIs
      <4>3. \A i \in 1 .. k + 1 : f[i] = place[i]
        BY <1>5, <3>2, <4>1, EnclosingIs
      <4>4. f = Q
        BY <1>5, <3>2, <4>1
      <4>5. \A i \in 1 .. k : Q[i] = q0[i]
        BY <2>2, <2>3, <3>1, OneMore
      <4>6. \A i \in 1 .. k : e[i] = q0[i]
        BY <2>3, <3>1, <4>2, <4>3, <4>4, <4>5
      <4>7. e = q0
        <5>1. Len(e) = Len(q0)
          BY <3>1, <4>2
        <5> QED
          BY <2>3, <4>2, <4>6, <5>1, SameNames
      <4> QED
        BY <4>1, <4>7
    <3>4. Append(Enclosing(place, k), o) \in stops
      BY <1>7, <2>3, <2>4, <3>3
    <3>5. \A i \in k + 1 .. Len(place) : Append(Enclosing(place, i), o) \notin stops
      <4> TAKE i \in k + 1 .. Len(place)
      <4>1. CASE i = Len(Q)
        BY <1>5, <2>5, <4>1
      <4>2. CASE i # Len(Q)
        <5>1. i \in Len(Q) + 1 .. Len(place)
          BY <1>5, <2>3, <3>1, <3>2, <4>2
        <5> QED
          BY <1>6, <2>2, <5>1
      <4> QED
        BY <4>1, <4>2
    <3>6. Nearest(stops, place, name[1], k)
      <4>1. name[1] = o
        BY <2>7, <2>9
      <4> QED
        BY <3>2, <3>4, <3>5, <4>1 DEF Nearest
    <3>7. Found(stops, known, place, name) = {Enclosing(place, k) \o name} \cap known
      <4>1. place \in Seq(R)
        BY <1>5
      <4>2. FoundThere(stops, known, place, name, k)
        BY <3>6, <4>1, FoundAt
      <4> QED
        BY <4>2 DEF FoundThere
    <3>8. q0 \o <<m, I>> = Append(Append(q0, m), I)
      BY <1>3, <2>3, <2>7, TwoNames
    <3>9. Enclosing(place, k) \o name = P
      BY <1>3, <2>3, <2>7, <2>9, <3>3, <3>8
    <3> QED
      BY <1>7, <3>7, <3>9
  <2>10. LastModule(d) = OwnModule(d) <=> m = o
    BY <1>0, <2>2, <2>6
  <2> QED
    BY <2>8, <2>9, <2>10
<1>12. L = <<>> \/ \E m \in STRING : L = <<m>>
  BY <1>0, <1>1, LastModuleIs
<1> QED
  BY <1>0, <1>8, <1>10, <1>11, <1>12 DEF Finds

(* What the names of a line are, and what they are meant for.              *)
LEMMA LineNames ==
  ASSUME file \in Files, NEW w \in Walks, NEW l, LineFits(w, l), NEW n, n = l.node
  PROVE  /\ n \in 1 .. N /\ n \in Printable(w) /\ l.scope = Place(w, n)
         /\ \A k \in DOMAIN TypesTaken(w, n) : file[n].types[k].kind # "fixed"
              => Names(w.by, file[n].types[k], NULL) = {l.names[k]}
         /\ \A k \in DOMAIN Further(w, n) : l.names[Len(TypesTaken(w, n)) + k] = Further(w, n)[k]
<1>1. n \in Printable(w) /\ l.scope = Place(w, n)
  BY DEF LineFits
<1>2. n \in 1 .. N
  BY <1>1, PrintableIs
<1>3. \A k \in DOMAIN TypesTaken(w, n) : file[n].types[k].kind # "fixed"
              => Names(w.by, file[n].types[k], NULL) = {l.names[k]}
  BY Zenon DEF LineFits, Fits, Named
<1>4. \A k \in DOMAIN Further(w, n) : l.names[Len(TypesTaken(w, n)) + k] = Further(w, n)[k]
  BY Zenon DEF LineFits
<1> QED
  BY <1>1, <1>2, <1>3, <1>4

(* Three sequences in a row.                                               *)
Row(s, a, b, c) ==
  /\ Len(s) = Len(a) + Len(b) + Len(c) /\ Len(a) \in Nat /\ Len(b) \in Nat /\ Len(c) \in Nat
  /\ \A k \in DOMAIN s :
       \/ k \in 1 .. Len(a) /\ s[k] = a[k]
       \/ \E j \in 1 .. Len(b) : k = Len(a) + j /\ s[k] = b[j]
       \/ \E j \in 1 .. Len(c) : k = Len(a) + Len(b) + j /\ s[k] = c[j]

LEMMA InARow ==
  ASSUME NEW R, NEW a \in Seq(R), NEW b \in Seq(R), NEW c \in Seq(R),
         NEW s, s = a \o b \o c
  PROVE  Row(s, a, b, c)
<1>1. PICK ab : ab = a \o b
  OBVIOUS
<1>2. /\ Len(a) \in Nat /\ Len(b) \in Nat /\ Len(c) \in Nat
      /\ ab \in Seq(R) /\ Len(ab) = Len(a) + Len(b)
      /\ \A i \in 1 .. Len(a) : ab[i] = a[i]
      /\ \A i \in 1 .. Len(b) : ab[Len(a) + i] = b[i]
  BY <1>1
<1>3. /\ Len(s) = Len(ab) + Len(c) /\ DOMAIN s = 1 .. Len(s)
      /\ \A i \in 1 .. Len(ab) : s[i] = ab[i]
      /\ \A i \in 1 .. Len(c) : s[Len(ab) + i] = c[i]
  BY <1>1, <1>2
<1>4. ASSUME NEW k \in DOMAIN s
      PROVE  \/ k \in 1 .. Len(a) /\ s[k] = a[k]
             \/ \E j \in 1 .. Len(b) : k = Len(a) + j /\ s[k] = b[j]
             \/ \E j \in 1 .. Len(c) : k = Len(a) + Len(b) + j /\ s[k] = c[j]
  <2>4. CASE k <= Len(a)
    <3>1. k \in 1 .. Len(a) /\ k \in 1 .. Len(ab)
      BY <1>2, <1>3, <2>4
    <3> QED
      BY <1>2, <1>3, <3>1
  <2>5. CASE k > Len(a) /\ k <= Len(ab)
    <3>1. PICK j : j = k - Len(a)
      OBVIOUS
    <3>2. j \in 1 .. Len(b) /\ k = Len(a) + j /\ k \in 1 .. Len(ab)
      BY <1>2, <1>3, <2>5, <3>1
    <3>3. s[k] = b[j]
      BY <1>2, <1>3, <3>2
    <3> QED
      BY <1>2, <1>3, <3>2, <3>3
  <2>6. CASE k > Len(ab)
    <3>1. PICK j : j = k - Len(ab)
      OBVIOUS
    <3>2. j \in 1 .. Len(c) /\ k = Len(a) + Len(b) + j /\ k = Len(ab) + j
      BY <1>2, <1>3, <2>6, <3>1
    <3>3. s[k] = c[j]
      BY <1>3, <3>2
    <3> QED
      BY <1>2, <1>3, <3>2, <3>3
  <2> QED
    BY <1>2, <1>3, <2>4, <2>5, <2>6
<1> QED
  BY <1>2, <1>3, <1>4 DEF Row

IsType(w, n, k, d) ==
  /\ k \in DOMAIN TypesTaken(w, n) /\ k \in DOMAIN file[n].types /\ k <= Len(TypesTaken(w, n))
  /\ file[n].types[k].kind \in {"declared", "sequence"} /\ d = file[n].types[k].of
IsNamed(w, n, k, d) ==
  \E j \in DOMAIN file[n].names :
    /\ k = Len(TypesTaken(w, n)) + j /\ ~(k <= Len(TypesTaken(w, n)))
    /\ d = file[n].names[j]
    /\ j \in DOMAIN Further(w, n) /\ Further(w, n)[j] = Name(Path[d])
IsOwn(w, n, k, d) ==
  /\ w.by \in Classes \cup Sources /\ d \in Own(w)
  /\ (n = d /\ w.by \in Classes) \/ In(n) = d
  /\ \E j \in DOMAIN Further(w, n) :
       /\ k = Len(TypesTaken(w, n)) + j /\ ~(k <= Len(TypesTaken(w, n)))
       /\ Further(w, n)[j] = Name(LastModule(n) \o <<w.interface>>)

LEMMA ScopedIs ==
  ASSUME file \in Files, NEW n \in 1 .. N, NEW ns, ns = file[n].names, NEW s, s = Scoped(ns)
  PROVE  /\ ns \in Seq(Nat) /\ s \in Seq(CxxName) /\ Len(s) = Len(ns) /\ Len(ns) \in Nat
         /\ \A k \in 1 .. Len(ns) : s[k] = Name(Path[ns[k]])
<1>1. /\ ns \in Seq(Nat) /\ N \in Nat
      /\ \A k \in DOMAIN ns : ns[k] \in 1 .. n - 1
  BY KindsAre, FileIs
<1>2. DOMAIN ns = 1 .. Len(ns) /\ Len(ns) \in Nat
  BY <1>1
<1>3. \A k \in 1 .. Len(ns) : Name(Path[ns[k]]) \in CxxName
  <2> TAKE k \in 1 .. Len(ns)
  <2>1. ns[k] \in 0 .. N
    <3>1. ns[k] \in 1 .. n - 1
      BY <1>1, <1>2
    <3> QED
      BY <1>1, <3>1
  <2>2. Path[ns[k]] \in Seq(STRING)
    BY <2>1, PathIs
  <2> QED
    BY <2>2 DEF Name, CxxName
<1>4. s = [k \in 1 .. Len(ns) |-> Name(Path[ns[k]])]
  BY <1>2 DEF Scoped
<1> HIDE DEF Name
<1> QED
  BY <1>1, <1>2, <1>3, <1>4

LEMMA MeantIs ==
  ASSUME file \in Files, NEW w \in Walks, NEW n \in Printable(w),
         ~(file[n].kind = "module" /\ w.by = "AdapterSource"),
         NEW k \in DOMAIN Meant(w, n), NEW d, d = Meant(w, n)[k], d # 0
  PROVE  /\ file[n].kind # "module"
         /\ \/ IsType(w, n, k, d) /\ ~OfInterface(w, n, k)
            \/ IsNamed(w, n, k, d) /\ ~OfInterface(w, n, k)
            \/ IsOwn(w, n, k, d) /\ OfInterface(w, n, k)
<1> DEFINE a == [j \in DOMAIN TypesTaken(w, n) |->
                  IF file[n].types[j].kind \in {"declared", "sequence"} THEN file[n].types[j].of ELSE 0]
<1>0. PICK x, z : x = Name(LastModule(n) \o <<w.interface>>) /\ z = In(n)
  OBVIOUS
<1>1. /\ n \in 1 .. N /\ N \in Nat /\ file[n].main /\ file[n].kind \in Declarations
      /\ file[n].types \in Seq(Type) /\ file[n].names \in Seq(Nat) /\ z \in Nat
  <2>1. n \in 1 .. N /\ N \in Nat /\ file[n].main /\ file[n].kind \in Declarations
    BY PrintableIs, FileIs
  <2>2. file[n].types \in Seq(Type) /\ file[n].names \in Seq(Nat)
    BY <2>1, KindsAre
  <2>3. z \in Nat
    BY <1>0, <2>1, InIs
  <2> QED
    BY <2>1, <2>2, <2>3
<1>2. TypesTaken(w, n) = IF w.by = "AdapterHeader" THEN <<>> ELSE file[n].types
  BY DEF TypesTaken
<1>3. PICK t : t = TypesTaken(w, n)
  OBVIOUS
<1>4. t \in Seq(Type) /\ Len(t) \in Nat /\ DOMAIN t = 1 .. Len(t)
      /\ (\A j \in DOMAIN t : j \in DOMAIN file[n].types /\ file[n].types[j].of \in Nat)
  <2>1. CASE w.by = "AdapterHeader"
    <3>1. <<>> \in Seq(Type) /\ Len(<<>>) = 0 /\ DOMAIN <<>> = {} /\ 1 .. 0 = {}
      OBVIOUS
    <3> QED
      BY <1>2, <1>3, <2>1, <3>1
  <2>2. CASE w.by # "AdapterHeader"
    <3>1. t = file[n].types
      BY <1>2, <1>3, <2>2
    <3>2. t \in Seq(Type) /\ Len(t) \in Nat /\ DOMAIN t = 1 .. Len(t)
      BY <1>1, <3>1
    <3>3. \A j \in DOMAIN t : file[n].types[j].of \in Nat
      BY <1>1, <3>1, TypeAt
    <3> QED
      BY <3>1, <3>2, <3>3
  <2> QED
    BY <2>1, <2>2
<1>5. a \in Seq(Nat) /\ Len(a) = Len(t)
      /\ \A j \in 1 .. Len(t) : a[j] = IF file[n].types[j].kind \in {"declared", "sequence"}
                                       THEN file[n].types[j].of ELSE 0
  <2>1. a = [j \in 1 .. Len(t) |-> IF file[n].types[j].kind \in {"declared", "sequence"}
                                   THEN file[n].types[j].of ELSE 0]
    BY <1>3, <1>4
  <2>2. \A j \in 1 .. Len(t) : (IF file[n].types[j].kind \in {"declared", "sequence"}
                                THEN file[n].types[j].of ELSE 0) \in Nat
    BY <1>4
  <2> HIDE DEF a
  <2> QED
    BY <1>4, <2>1, <2>2
<1>6. Meant(w, n) = CASE file[n].kind = "interface" /\ w.by \notin Whole -> <<n>>
                      [] w.by = "AdapterHeader" /\ file[n].kind = "operation" -> <<z>>
                      [] w.by = "AdapterSource" /\ file[n].kind = "operation" ->
                           a \o file[n].names \o <<z>>
                      [] OTHER -> a \o file[n].names
  BY <1>0, Zenon DEF Meant, In
<1> HIDE DEF a
<1>7. CASE file[n].kind = "interface" /\ w.by \notin Whole
  <2>1. Meant(w, n) = <<n>>
    BY <1>6, <1>7
  <2>2. k = 1 /\ d = n
    <3>1. DOMAIN <<n>> = 1 .. 1 /\ <<n>>[1] = n
      OBVIOUS
    <3> QED
      BY <2>1, <3>1
  <2>3. w.by \in Classes /\ n \in Own(w)
    <3>1. w.by \in Classes \/ w.by \in Sources \/ w.by = "Serializer"
      BY <1>7, WalkIs
    <3> QED
      BY <1>1, <1>7, <3>1, PrintableIs
  <2>4. Len(t) = 0
    <3>1. file[n].types = <<>>
      BY <1>1, <1>7, FileIs DEF Typed
    <3>2. Len(<<>>) = 0
      OBVIOUS
    <3> QED
      BY <1>2, <1>3, <3>1, <3>2
  <2>5. Further(w, n) = <<x>>
    BY <1>0, <1>7 DEF Further, ItsInterface
  <2>6. 1 \in DOMAIN Further(w, n) /\ Further(w, n)[1] = x
    <3>1. 1 \in DOMAIN <<x>> /\ <<x>>[1] = x
      OBVIOUS
    <3> QED
      BY <2>5, <3>1
  <2>7. k = Len(TypesTaken(w, n)) + 1 /\ ~(k <= Len(TypesTaken(w, n)))
    BY <1>3, <2>2, <2>4
  <2>8. IsOwn(w, n, k, d)
    BY <1>0, <2>2, <2>3, <2>6, <2>7 DEF IsOwn
  <2>9. OfInterface(w, n, k)
    BY <1>7 DEF OfInterface
  <2> QED
    BY <1>7, <2>8, <2>9
<1>8. CASE w.by = "AdapterHeader" /\ file[n].kind = "operation"
  <2>1. Meant(w, n) = <<z>>
    BY <1>6, <1>8
  <2>2. k = 1 /\ d = In(n) /\ k = Len(Meant(w, n))
    <3>1. DOMAIN <<z>> = 1 .. 1 /\ <<z>>[1] = z /\ Len(<<z>>) = 1
      OBVIOUS
    <3> QED
      BY <1>0, <2>1, <3>1
  <2>3. w.by \in Classes /\ w.by \notin Whole
    BY <1>8 DEF Classes, Whole
  <2>4. In(n) \in Own(w)
    <3>1. n \notin Own(w)
      BY <1>8, PrintableIs
    <3> QED
      BY <1>1, <1>8, <2>3, <3>1, PrintableIs
  <2>5. Len(t) = 0
    <3>1. Len(<<>>) = 0
      OBVIOUS
    <3> QED
      BY <1>2, <1>3, <1>8, <3>1
  <2>6. Further(w, n) = <<x>>
    BY <1>0, <1>8 DEF Further, ItsInterface, Typed
  <2>7. 1 \in DOMAIN Further(w, n) /\ Further(w, n)[1] = x
    <3>1. 1 \in DOMAIN <<x>> /\ <<x>>[1] = x
      OBVIOUS
    <3> QED
      BY <2>6, <3>1
  <2>8. k = Len(TypesTaken(w, n)) + 1 /\ ~(k <= Len(TypesTaken(w, n)))
    BY <1>3, <2>2, <2>5
  <2>9. IsOwn(w, n, k, d)
    BY <1>0, <2>2, <2>3, <2>4, <2>7, <2>8 DEF IsOwn
  <2>10. OfInterface(w, n, k)
    BY <1>8, <2>2, <2>3 DEF OfInterface
  <2> QED
    BY <1>8, <2>9, <2>10
<1>9. CASE /\ ~(file[n].kind = "interface" /\ w.by \notin Whole)
           /\ ~(w.by = "AdapterHeader" /\ file[n].kind = "operation")
  <2> DEFINE o == w.by = "AdapterSource" /\ file[n].kind = "operation"
  <2>1. PICK b, s, c, c2 :
          /\ b = file[n].names /\ s = Scoped(b)
          /\ c = IF o THEN <<z>> ELSE <<>>
          /\ c2 = IF o THEN <<x>> ELSE <<>>
    OBVIOUS
  <2>2. b \in Seq(Nat) /\ Len(b) \in Nat /\ DOMAIN b = 1 .. Len(b)
        /\ s \in Seq(CxxName) /\ Len(s) = Len(b) /\ \A j \in 1 .. Len(b) : s[j] = Name(Path[b[j]])
    <3>1. b \in Seq(Nat) /\ Len(b) \in Nat /\ s \in Seq(CxxName) /\ Len(s) = Len(b)
          /\ \A j \in 1 .. Len(b) : s[j] = Name(Path[b[j]])
      BY <1>1, <2>1, ScopedIs
    <3>2. DOMAIN b = 1 .. Len(b)
      BY <3>1
    <3> QED
      BY <3>1, <3>2
  <2>3. c \in Seq(Nat) /\ Len(c) \in Nat /\ (o => Len(c) = 1 /\ c[1] = z) /\ (~o => Len(c) = 0)
    <3>1. <<z>> \in Seq(Nat) /\ Len(<<z>>) = 1 /\ <<z>>[1] = z /\ <<>> \in Seq(Nat) /\ Len(<<>>) = 0
      BY <1>1
    <3> QED
      BY <2>1, <3>1
  <2>4. Meant(w, n) = a \o b \o c
    <3>1. CASE o
      BY <1>6, <1>9, <2>1, <3>1, Zenon
    <3>2. CASE ~o
      <4>1. Meant(w, n) = a \o b
        BY <1>6, <1>9, <2>1, <3>2, Zenon
      <4>2. (a \o b) \o <<>> = a \o b
        BY <1>5, <2>2
      <4> QED
        BY <2>1, <3>2, <4>1, <4>2
    <3> QED
      BY <3>1, <3>2
  <2>5. /\ Len(Meant(w, n)) = Len(t) + Len(b) + Len(c)
        /\ \/ k \in 1 .. Len(t) /\ d = a[k]
           \/ \E j \in 1 .. Len(b) : k = Len(t) + j /\ d = b[j]
           \/ \E j \in 1 .. Len(c) : k = Len(t) + Len(b) + j /\ d = c[j]
    <3>1. PICK m : m = a \o b \o c
      OBVIOUS
    <3>2. k \in DOMAIN m /\ d = m[k] /\ Meant(w, n) = m
      BY <2>4, <3>1
    <3>3. /\ Len(m) = Len(a) + Len(b) + Len(c)
          /\ \/ k \in 1 .. Len(a) /\ m[k] = a[k]
             \/ \E j \in 1 .. Len(b) : k = Len(a) + j /\ m[k] = b[j]
             \/ \E j \in 1 .. Len(c) : k = Len(a) + Len(b) + j /\ m[k] = c[j]
      <4>1. PICK R : R = Nat
        OBVIOUS
      <4>2. a \in Seq(R) /\ b \in Seq(R) /\ c \in Seq(R)
        BY <1>5, <2>2, <2>3, <4>1
      <4>3. /\ Len(m) = Len(a) + Len(b) + Len(c)
            /\ \A i \in DOMAIN m :
                 \/ i \in 1 .. Len(a) /\ m[i] = a[i]
                 \/ \E j \in 1 .. Len(b) : i = Len(a) + j /\ m[i] = b[j]
                 \/ \E j \in 1 .. Len(c) : i = Len(a) + Len(b) + j /\ m[i] = c[j]
        <5>1. PICK aa : aa = a
          OBVIOUS
        <5>2. aa \in Seq(R) /\ m = aa \o b \o c
          BY <3>1, <4>2, <5>1
        <5>3. Row(m, aa, b, c)
          BY <4>2, <5>2, InARow
        <5> QED
          BY <5>1, <5>3, Zenon DEF Row
      <4> QED
        BY <3>2, <4>3, Zenon
    <3> QED
      BY <1>5, <3>2, <3>3
  <2>6. file[n].kind \in Typed \cup {"interface"}
    <3> SUFFICES ASSUME file[n].kind \notin Typed \cup {"interface"} PROVE FALSE
      OBVIOUS
    <3>1. file[n].types = <<>> /\ b = <<>> /\ ~o
      BY <1>1, <2>1, FileIs, NamesAre DEF Typed
    <3>2. Len(<<>>) = 0 /\ 1 .. 0 = {}
      OBVIOUS
    <3>3. Len(t) = 0 /\ Len(b) = 0 /\ Len(c) = 0
      BY <1>2, <1>3, <2>3, <3>1, <3>2
    <3> QED
      BY <2>5, <3>2, <3>3
  <2>7. /\ file[n].kind = "interface" => w.by \in Whole /\ ~o
        /\ file[n].kind \in Typed => w.by # "AdapterHeader" /\ (w.by = "AdapterSource" <=> o)
    <3>1. "AdapterHeader" \in Classes /\ "AdapterSource" \in Sources
      BY DEF Classes, Sources
    <3>2. ASSUME file[n].kind \in Typed, w.by = "AdapterHeader" PROVE FALSE
      <4>1. n \notin Own(w) /\ file[n].kind # "module"
        BY <3>2, PrintableIs DEF Typed
      <4> QED
        BY <1>1, <1>9, <3>1, <3>2, <4>1, PrintableIs
    <3>3. ASSUME file[n].kind \in Typed, w.by = "AdapterSource" PROVE o
      <4>1. file[n].kind # "module"
        BY <3>3 DEF Typed
      <4> QED
        BY <1>1, <2>1, <3>1, <3>3, <4>1, PrintableIs
    <3>4. file[n].kind = "interface" => w.by \in Whole /\ ~o
      BY <1>9, <2>1
    <3> QED
      BY <2>1, <3>2, <3>3, <3>4
  <2>8. Further(w, n) = s \o c2
    <3>1. CASE file[n].kind = "interface"
      <4>1. Further(w, n) = s /\ c2 = <<>>
        BY <2>1, <2>7, <3>1 DEF Further
      <4>2. s \o <<>> = s
        BY <2>2
      <4> QED
        BY <4>1, <4>2
    <3>2. CASE file[n].kind \in Typed
      BY <1>0, <2>1, <2>7, <3>2 DEF Further, ItsInterface, Typed
    <3> QED
      BY <2>6, <3>1, <3>2
  <2>9. /\ \A j \in 1 .. Len(b) : j \in DOMAIN Further(w, n) /\ Further(w, n)[j] = s[j]
        /\ o => Len(b) + 1 \in DOMAIN Further(w, n) /\ Further(w, n)[Len(b) + 1] = x
    <3>1. PICK R, f : R = CxxName \cup {x} /\ f = s \o c2
      OBVIOUS
    <3>2. s \in Seq(R) /\ c2 \in Seq(R)
      <4>1. c2 = <<>> \/ c2 = <<x>>
        BY <2>1
      <4> QED
        BY <1>1, <2>1, <3>1, <4>1, FurtherNames
    <3>3. (o => Len(c2) = 1 /\ c2[1] = x) /\ Len(c2) \in Nat
      <4>1. Len(<<x>>) = 1 /\ <<x>>[1] = x /\ Len(<<>>) = 0
        OBVIOUS
      <4> QED
        BY <2>1, <4>1
    <3>4. /\ Len(f) = Len(s) + Len(c2) /\ DOMAIN f = 1 .. Len(f)
          /\ \A j \in 1 .. Len(s) : f[j] = s[j]
          /\ \A j \in 1 .. Len(c2) : f[Len(s) + j] = c2[j]
      BY <3>1, <3>2
    <3>5. \A j \in 1 .. Len(b) : j \in DOMAIN f /\ f[j] = s[j]
      BY <2>2, <3>3, <3>4
    <3>6. o => Len(b) + 1 \in DOMAIN f /\ f[Len(b) + 1] = x
      <4>1. ASSUME o PROVE 1 \in 1 .. Len(c2) /\ Len(b) + 1 \in 1 .. Len(s) + Len(c2) /\ c2[1] = x
        <5>1. Len(c2) = 1 /\ c2[1] = x
          BY <3>3, <4>1
        <5>2. Len(s) = Len(b) /\ Len(b) \in Nat
          BY <2>2
        <5> QED
          BY <5>1, <5>2
      <4>2. Len(s) = Len(b) /\ Len(b) \in Nat
        BY <2>2
      <4> QED
        BY <3>4, <4>1, <4>2
    <3> QED
      BY <2>8, <3>1, <3>5, <3>6
  <2>10. OfInterface(w, n, k) <=> o /\ k = Len(Meant(w, n))
    <3>1. w.by \in Whole => w.by \notin {"AdapterHeader", "AdapterSource"}
      BY DEF Whole
    <3> QED
      BY <1>9, <2>1, <2>6, <2>7, <3>1 DEF OfInterface
  <2>14. file[n].kind # "module"
    BY <2>6 DEF Typed
  <2>11. CASE k \in 1 .. Len(t) /\ d = a[k]
    <3>1. IsType(w, n, k, d)
      BY <1>3, <1>4, <1>5, <2>11 DEF IsType
    <3>2. ~(o /\ k = Len(Meant(w, n)))
      BY <1>4, <2>2, <2>3, <2>5, <2>11
    <3> QED
      BY <2>10, <2>14, <3>1, <3>2
  <2>12. ASSUME NEW j \in 1 .. Len(b), k = Len(t) + j, d = b[j]
         PROVE  IsNamed(w, n, k, d) /\ ~OfInterface(w, n, k)
    <3>1. ~(o /\ k = Len(Meant(w, n)))
      BY <1>4, <2>2, <2>3, <2>5, <2>12
    <3>2. ~(k <= Len(t)) /\ j \in DOMAIN b
      BY <1>4, <2>2, <2>12
    <3>3. j \in DOMAIN Further(w, n) /\ Further(w, n)[j] = Name(Path[d])
      BY <2>2, <2>9, <2>12
    <3>4. IsNamed(w, n, k, d)
      BY <1>3, <2>1, <2>12, <3>2, <3>3, Zenon DEF IsNamed
    <3> QED
      BY <2>10, <3>1, <3>4
  <2>13. ASSUME NEW j \in 1 .. Len(c), k = Len(t) + Len(b) + j, d = c[j]
         PROVE  IsOwn(w, n, k, d) /\ OfInterface(w, n, k)
    <3>1. o /\ j = 1 /\ d = In(n)
      <4>1. o
        <5>1. 1 .. 0 = {}
          OBVIOUS
        <5> QED
          BY <2>3, <5>1
      <4>2. Len(c) = 1 /\ c[1] = z
        BY <2>3, <4>1
      <4>3. j = 1
        BY <4>2
      <4>4. d = In(n)
        BY <1>0, <2>13, <4>2, <4>3
      <4> QED
        BY <4>1, <4>3, <4>4
    <3>2. k = Len(Meant(w, n)) /\ k = Len(t) + (Len(b) + 1) /\ ~(k <= Len(t))
      <4>1. Len(c) = 1
        BY <2>3, <3>1
      <4>2. Len(Meant(w, n)) = Len(t) + Len(b) + 1 /\ k = Len(t) + Len(b) + 1
        BY <2>5, <2>13, <3>1, <4>1
      <4>3. Len(t) \in Nat /\ Len(b) \in Nat
        BY <1>4, <2>2
      <4> QED
        BY <4>2, <4>3
    <3>3. w.by \in Sources /\ In(n) \in Own(w)
      <4>1. w.by \in Sources /\ file[n].kind = "operation"
        BY <2>1, <3>1 DEF Sources
      <4> QED
        BY <1>1, <4>1, PrintableIs
    <3>4. IsOwn(w, n, k, d)
      BY <1>0, <1>3, <2>9, <3>1, <3>2, <3>3, Zenon DEF IsOwn
    <3> QED
      BY <2>10, <3>1, <3>2, <3>4
  <2> QED
    BY <2>5, <2>11, <2>12, <2>13, <2>14
<1> QED
  BY <1>7, <1>8, <1>9

(* Of a line of an IDL file's text, every name that means a declaration is *)
(* found as it should be.                                                  *)
FoundAsMeant(w, n, name, k) ==
  Finds(w, n, name, Meant(w, n)[k]) <=> ShouldBeFound(w, n, k)

LEMMA TypeFound ==
  ASSUME file \in Files, NEW w \in Walks, NEW l, LineFits(w, l), NEW n, n = l.node,
         file[n].kind # "module",
         NEW k \in DOMAIN Meant(w, n), NEW d, d = Meant(w, n)[k], d # 0,
         IsType(w, n, k, d), ~OfInterface(w, n, k)
  PROVE  FoundAsMeant(w, n, l.names[k].name, k)
<1>1. /\ n \in 1 .. N /\ n \in Printable(w)
      /\ \A i \in DOMAIN TypesTaken(w, n) : file[n].types[i].kind # "fixed"
           => Names(w.by, file[n].types[i], NULL) = {l.names[i]}
  BY LineNames
<1>2. /\ k \in DOMAIN TypesTaken(w, n) /\ k \in DOMAIN file[n].types /\ k <= Len(TypesTaken(w, n))
      /\ file[n].types[k].kind \in {"declared", "sequence"} /\ d = file[n].types[k].of
  BY DEF IsType
<1>3. Names(w.by, file[n].types[k], NULL) = {l.names[k]}
  BY <1>1, <1>2
<1>4. CanBeNamed(file, n, d)
  BY <1>1, <1>2, NamesAre
<1>5. CASE file[n].types[k].kind = "declared"
  <2>1. Names(w.by, file[n].types[k], NULL) = {Name(Path[d])}
    BY <1>2, <1>5 DEF Names, BasicTypes
  <2>2. l.names[k].name = Path[d]
    <3>1. l.names[k] = Name(Path[d])
      BY <1>3, <2>1
    <3> QED
      BY <3>1 DEF Name
  <2>3. ShouldBeFound(w, n, k) <=> WholeFree(w, n, d)
    BY <1>5 DEF ShouldBeFound, WholeFree, Nearer
  <2>4. Finds(w, n, Path[d], d) <=> WholeFree(w, n, d)
    BY <1>1, <1>4, FoundWhole
  <2> QED
    BY <2>2, <2>3, <2>4, Zenon DEF FoundAsMeant
<1>6. CASE file[n].types[k].kind = "sequence"
  <2>1. Names(w.by, file[n].types[k], NULL) = {[vector |-> TRUE, name |-> <<file[d].id>>]}
    BY <1>2, <1>6 DEF Names, BasicTypes
  <2>2. l.names[k].name = <<file[d].id>>
    <3>1. l.names[k] = [vector |-> TRUE, name |-> <<file[d].id>>]
      BY <1>3, <2>1
    <3> QED
      BY <3>1
  <2>3. ShouldBeFound(w, n, k) <=> /\ file[d].kind # "union"
                                   /\ IsPrefix(Path[In(d)], Place(w, n))
                                   /\ ~Nearer(w, n, Len(Path[In(d)]), <<file[d].id>>)
    BY <1>2, <1>6 DEF ShouldBeFound, Nearer, In
  <2>4. Finds(w, n, <<file[d].id>>, d)
          <=> /\ file[d].kind # "union"
              /\ IsPrefix(Path[In(d)], Place(w, n))
              /\ ~Nearer(w, n, Len(Path[In(d)]), <<file[d].id>>)
    BY <1>1, <1>4, FoundBare
  <2> QED
    BY <2>2, <2>3, <2>4, Zenon DEF FoundAsMeant
<1> QED
  BY <1>2, <1>5, <1>6

LEMMA NamedFound ==
  ASSUME file \in Files, NEW w \in Walks, NEW l, LineFits(w, l), NEW n, n = l.node,
         file[n].kind # "module",
         NEW k \in DOMAIN Meant(w, n), NEW d, d = Meant(w, n)[k], d # 0,
         IsNamed(w, n, k, d), ~OfInterface(w, n, k)
  PROVE  FoundAsMeant(w, n, l.names[k].name, k)
<1>1. /\ n \in 1 .. N /\ n \in Printable(w)
      /\ \A i \in DOMAIN Further(w, n) : l.names[Len(TypesTaken(w, n)) + i] = Further(w, n)[i]
  <2>1. n \in 1 .. N /\ n \in Printable(w)
    BY LineNames
  <2>2. \A i \in DOMAIN Further(w, n) : l.names[Len(TypesTaken(w, n)) + i] = Further(w, n)[i]
    BY Zenon DEF LineFits
  <2> QED
    BY <2>1, <2>2, Zenon
<1>2. PICK j \in DOMAIN file[n].names :
        /\ k = Len(TypesTaken(w, n)) + j /\ ~(k <= Len(TypesTaken(w, n)))
        /\ d = file[n].names[j]
        /\ j \in DOMAIN Further(w, n) /\ Further(w, n)[j] = Name(Path[d])
  BY Zenon DEF IsNamed
<1>3. CanBeNamed(file, n, d)
  BY <1>1, <1>2, NamesAre
<1>4. l.names[k].name = Path[d]
  <2>1. l.names[k] = Name(Path[d])
    BY <1>1, <1>2, Zenon
  <2> QED
    BY <2>1 DEF Name
<1>5. ShouldBeFound(w, n, k) <=> WholeFree(w, n, d)
  BY <1>2 DEF ShouldBeFound, WholeFree, Nearer
<1>6. Finds(w, n, Path[d], d) <=> WholeFree(w, n, d)
  BY <1>1, <1>3, FoundWhole
<1> QED
  BY <1>4, <1>5, <1>6, Zenon DEF FoundAsMeant

LEMMA OwnFound ==
  ASSUME file \in Files, NEW w \in Walks, NEW l, LineFits(w, l), NEW n, n = l.node,
         file[n].kind # "module",
         NEW k \in DOMAIN Meant(w, n), NEW d, d = Meant(w, n)[k], d # 0,
         IsOwn(w, n, k, d), OfInterface(w, n, k)
  PROVE  FoundAsMeant(w, n, l.names[k].name, k)
<1>1. /\ n \in 1 .. N /\ n \in Printable(w)
      /\ \A i \in DOMAIN Further(w, n) : l.names[Len(TypesTaken(w, n)) + i] = Further(w, n)[i]
  <2>1. n \in 1 .. N /\ n \in Printable(w)
    BY LineNames
  <2>2. \A i \in DOMAIN Further(w, n) : l.names[Len(TypesTaken(w, n)) + i] = Further(w, n)[i]
    BY Zenon DEF LineFits
  <2> QED
    BY <2>1, <2>2, Zenon
<1>2. /\ w.by \in Classes \cup Sources /\ d \in Own(w)
      /\ (n = d /\ w.by \in Classes) \/ In(n) = d
  BY DEF IsOwn
<1>3. PICK j \in DOMAIN Further(w, n) :
        /\ k = Len(TypesTaken(w, n)) + j /\ ~(k <= Len(TypesTaken(w, n)))
        /\ Further(w, n)[j] = Name(LastModule(n) \o <<w.interface>>)
  BY Zenon DEF IsOwn
<1>4. PICK name : name = LastModule(n) \o <<w.interface>>
  OBVIOUS
<1>5. l.names[k].name = name
  <2>1. l.names[k] = Name(name)
    BY <1>1, <1>3, <1>4, Zenon
  <2> QED
    BY <2>1 DEF Name
<1>6. ShouldBeFound(w, n, k) <=> LastModule(d) = OwnModule(d)
  BY <1>3 DEF ShouldBeFound
<1>7. Finds(w, n, name, d) <=> LastModule(d) = OwnModule(d)
  BY <1>1, <1>2, <1>4, FoundInterface
<1> QED
  BY <1>5, <1>6, <1>7, Zenon DEF FoundAsMeant

(* The members an adaptor has in a module name its interface there, by the *)
(* module's id and its own, or alone: within the module's braces both find *)
(* it.                                                                     *)
LEMMA InhabitantIs ==
  ASSUME file \in Files, NEW w \in Walks, NEW n \in 1 .. N, NEW d, d = Inhabitant(w, n), d # 0
  PROVE  /\ d \in 1 .. N /\ file[d].kind = "interface" /\ Path[d] = Append(Path[n], w.interface)
         /\ w.interface \in STRING
<1> DEFINE ds == {m \in DOMAIN file : file[m].kind = "interface" /\ Path[m] = Append(Path[n], w.interface)}
<1>1. ds # {} /\ d = Min(ds)
  BY DEF Inhabitant
<1>2. N \in Nat /\ DOMAIN file = 1 .. N
  BY FileIs
<1>3. ds \in SUBSET Nat
  BY <1>2
<1>4. d \in ds
  <2> HIDE DEF ds
  <2>1. PICK x \in ds : \A y \in ds : x <= y
    BY <1>1, <1>3, Least
  <2> QED
    BY <1>1, <2>1 DEF Min
<1>5. d \in 1 .. N /\ file[d].kind = "interface" /\ Path[d] = Append(Path[n], w.interface)
  BY <1>2, <1>4
<1>6. w.interface \in STRING
  <2>1. PICK q, i : q = Path[n] /\ i = w.interface
    OBVIOUS
  <2>2. Path[d] \in Seq(STRING) /\ q \in Seq(STRING) /\ Path[d] = Append(q, i)
    BY <1>2, <1>5, <2>1, PathIs
  <2>3. Append(q, i)[Len(q) + 1] = i /\ Len(q) + 1 \in 1 .. Len(Append(q, i))
    BY <2>2
  <2> QED
    BY <2>1, <2>2, <2>3
<1> QED
  BY <1>5, <1>6

LEMMA CommonFound ==
  ASSUME file \in Files, NEW w \in Walks, w.by = "AdapterSource", NEW n \in 1 .. N, file[n].kind = "module",
         NEW d, d = Inhabitant(w, n), d # 0, NEW name, NEW place, place = Path[n],
         name = <<file[n].id, w.interface>> \/ name = <<w.interface>>
  PROVE  Found(Known(w, n, Stops(name)), Known(w, n, TypeKinds), place, name) = {Path[d]}
<1>r. PICK R, stops, known, P, Q, I, o :
        /\ R = STRING /\ stops = Known(w, n, Stops(name)) /\ known = Known(w, n, TypeKinds)
        /\ P = Path[d] /\ Q = Path[In(n)] /\ I = w.interface /\ o = file[n].id
  OBVIOUS
<1>1. /\ d \in 1 .. N /\ file[d].kind = "interface" /\ P = Append(place, I)
      /\ I \in R /\ w.by \notin Whole
  BY <1>r, InhabitantIs DEF Whole
<1>2. Q \in Seq(R) /\ o \in R /\ place = Append(Q, o)
  BY <1>r, FileIs, InParent, KindsAre, PathIs
<1>3. /\ place \in Seq(R) /\ Len(Q) \in Nat /\ Len(place) = Len(Q) + 1
      /\ \A i \in 1 .. Len(Q) : place[i] = Q[i]
  BY <1>2, OneMore
<1>4. P \in known /\ place \in known /\ known \subseteq stops
  <2>1. file[d].kind \in TypeKinds /\ file[n].kind \in TypeKinds
    BY <1>1 DEF TypeKinds, Values, Declarations
  <2> QED
    BY <1>r, <1>1, <2>1, KnownIs, KnownStops
<1>5. Enclosing(place, Len(place)) = place /\ Len(place) \in 0 .. Len(place)
  BY <1>3, EnclosingIs
<1>6. CASE name = <<w.interface>>
  <2>1. name[1] = I /\ place \o name = P
    <3>1. <<I>>[1] = I /\ Append(place, I) = place \o <<I>>
      BY <1>1, <1>3
    <3> QED
      BY <1>r, <1>1, <1>6, <3>1
  <2>2. Nearest(stops, place, name[1], Len(place))
    <3>1. Append(Enclosing(place, Len(place)), I) \in stops
      BY <1>1, <1>4, <1>5
    <3>2. Len(place) + 1 .. Len(place) = {}
      BY <1>3
    <3> QED
      BY <1>5, <2>1, <3>1, <3>2 DEF Nearest
  <2>3. FoundThere(stops, known, place, name, Len(place))
    BY <1>3, <2>2, FoundAt
  <2>4. Found(stops, known, place, name) = {P}
    BY <1>4, <1>5, <2>1, <2>3 DEF FoundThere
  <2> QED
    BY <1>r, <2>4
<1>7. CASE name = <<file[n].id, w.interface>>
  <2>1. name[1] = o /\ Q \o name = P
    <3>1. Q \o <<o, I>> = Append(Append(Q, o), I)
      BY <1>1, <1>2, TwoNames
    <3>2. <<o, I>>[1] = o
      OBVIOUS
    <3> QED
      BY <1>r, <1>1, <1>2, <1>7, <3>1, <3>2
  <2>2. PICK k : k = Len(Q)
    OBVIOUS
  <2>3. k \in 0 .. Len(place) /\ Len(place) = k + 1 /\ k \in Nat
    BY <1>3, <2>2
  <2>4. Enclosing(place, k) = Q
    <3>1. PICK e : e = Enclosing(place, k)
      OBVIOUS
    <3>2. e \in Seq(R) /\ Len(e) = k /\ \A i \in 1 .. k : e[i] = place[i]
      BY <1>3, <2>3, <3>1, EnclosingIs
    <3>3. Len(e) = Len(Q) /\ \A i \in 1 .. Len(e) : e[i] = Q[i]
      BY <1>3, <2>2, <3>2
    <3>4. e = Q
      BY <1>2, <3>2, <3>3, SameNames
    <3> QED
      BY <3>1, <3>4
  <2>5. Append(place, o) \notin stops
    BY <1>r, OwnIdUnknown
  <2>6. Nearest(stops, place, name[1], k)
    <3>1. Append(Enclosing(place, k), o) \in stops
      BY <1>2, <1>4, <2>4
    <3>2. \A i \in k + 1 .. Len(place) : i = Len(place)
      BY <2>3
    <3>3. \A i \in k + 1 .. Len(place) : Append(Enclosing(place, i), o) \notin stops
      BY <1>5, <2>5, <3>2
    <3> QED
      BY <2>1, <2>3, <3>1, <3>3 DEF Nearest
  <2>7. FoundThere(stops, known, place, name, k)
    BY <1>3, <2>6, FoundAt
  <2>8. Found(stops, known, place, name) = {P}
    BY <1>4, <2>1, <2>4, <2>7 DEF FoundThere
  <2> QED
    BY <1>r, <2>8
<1> QED
  BY <1>6, <1>7

LEMMA ModuleResolves ==
  ASSUME file \in Files, NEW w \in Walks, w.by = "AdapterSource", NEW l, LineFits(w, l), NEW n, n = l.node,
         file[n].kind = "module", NEW k \in DOMAIN Meant(w, n), NEW d, d = Meant(w, n)[k], d # 0,
         NEW name, name = l.names[k].name
  PROVE  /\ Found(Known(w, n, Stops(name)), Known(w, n, TypeKinds), Append(l.scope, file[n].id), name)
              = {Path[d]}
         /\ ShouldBeFound(w, n, k)
<1>1. n \in 1 .. N /\ n \in Printable(w) /\ l.scope = Place(w, n)
  BY LineNames
<1>2. \A i \in DOMAIN Further(w, n) : l.names[Len(TypesTaken(w, n)) + i] = Further(w, n)[i]
  BY Zenon DEF LineFits
<1>3. PICK x, y, z : /\ x = Name(<<file[n].id, w.interface>>) /\ y = Name(<<w.interface>>)
                     /\ z = Inhabitant(w, n)
  OBVIOUS
<1>4. Further(w, n) = <<x, y>>
  BY <1>3 DEF Further, CommonNames
<1>5. Len(TypesTaken(w, n)) = 0
  <2>1. TypesTaken(w, n) = <<>>
    BY <1>1, FileIs DEF TypesTaken, Typed
  <2> QED
    BY <2>1
<1>6. Meant(w, n) = <<z, z>>
  BY <1>3 DEF Meant
<1>7. (k = 1 \/ k = 2) /\ d = z
  <2>1. DOMAIN <<z, z>> = 1 .. 2 /\ <<z, z>>[1] = z /\ <<z, z>>[2] = z /\ \A i \in 1 .. 2 : i = 1 \/ i = 2
    OBVIOUS
  <2> QED
    BY <1>6, <2>1
<1>8. name = <<file[n].id, w.interface>> \/ name = <<w.interface>>
  <2>1. DOMAIN <<x, y>> = 1 .. 2 /\ <<x, y>>[1] = x /\ <<x, y>>[2] = y /\ 0 + 1 = 1 /\ 0 + 2 = 2
        /\ 1 \in 1 .. 2 /\ 2 \in 1 .. 2
    OBVIOUS
  <2>2. l.names[1] = x /\ l.names[2] = y
    BY <1>2, <1>4, <1>5, <2>1
  <2> QED
    BY <1>3, <1>7, <2>2 DEF Name
<1>9. Append(l.scope, file[n].id) = Path[n]
  <2>1. Place(w, n) = Path[In(n)]
    <3>1. In(n) = 0 \/ file[In(n)].kind = "module"
      BY <1>1, FileIs DEF Nested, In
    <3> QED
      BY <3>1 DEF Place, In
  <2> QED
    BY <1>1, <2>1, PathIs
<1>10. ShouldBeFound(w, n, k)
  <2>1. ~OfInterface(w, n, k) /\ ~(k <= Len(TypesTaken(w, n)))
    BY <1>5, <1>7 DEF OfInterface, Whole
  <2> QED
    BY <2>1 DEF ShouldBeFound
<1>11. PICK place : place = Append(l.scope, file[n].id)
  OBVIOUS
<1>12. Found(Known(w, n, Stops(name)), Known(w, n, TypeKinds), place, name) = {Path[d]}
  <2>1. place = Path[n] /\ d = Inhabitant(w, n) /\ n \in 1 .. N
    BY <1>1, <1>3, <1>7, <1>9, <1>11
  <2> QED
    BY ONLY file \in Files, w \in Walks, w.by = "AdapterSource", file[n].kind = "module", d # 0,
       <1>8, <2>1, CommonFound
<1> QED
  BY <1>10, <1>11, <1>12

LEMMA LineResolves ==
  ASSUME file \in Files, NEW w \in Walks, NEW l, LineFits(w, l), NEW n, n = l.node,
         ~(file[n].kind = "module" /\ w.by = "AdapterSource"),
         NEW k \in DOMAIN Meant(w, n), Meant(w, n)[k] # 0
  PROVE  file[n].kind # "module" /\ FoundAsMeant(w, n, l.names[k].name, k)
<1>1. PICK d : d = Meant(w, n)[k]
  OBVIOUS
<1>2. n \in Printable(w)
  BY LineNames
<1>3. /\ file[n].kind # "module"
      /\ \/ IsType(w, n, k, d) /\ ~OfInterface(w, n, k)
         \/ IsNamed(w, n, k, d) /\ ~OfInterface(w, n, k)
         \/ IsOwn(w, n, k, d) /\ OfInterface(w, n, k)
  BY <1>1, <1>2, MeantIs
<1> QED
  BY <1>1, <1>3, TypeFound, NamedFound, OwnFound

Resolves(w, l, k) ==
  LET n == l.node
      place == IF file[n].kind = "module" THEN Append(l.scope, file[n].id) ELSE l.scope
      name == l.names[k].name
  IN Found(Known(w, n, Stops(name)), Known(w, n, TypeKinds), place, name) = {Path[Meant(w, n)[k]]}
       <=> ShouldBeFound(w, n, k)

LEMMA Resolved ==
  ASSUME file \in Files, NEW w \in Walks, NEW l, LineFits(w, l),
         NEW k \in DOMAIN Meant(w, l.node), Meant(w, l.node)[k] # 0
  PROVE  Resolves(w, l, k)
<1>1. PICK n, d, name : n = l.node /\ d = Meant(w, n)[k] /\ name = l.names[k].name
  OBVIOUS
<1>2. k \in DOMAIN Meant(w, n) /\ d # 0
  BY <1>1
<1>3. CASE file[n].kind = "module" /\ w.by = "AdapterSource"
  <2>1. /\ Found(Known(w, n, Stops(name)), Known(w, n, TypeKinds), Append(l.scope, file[n].id), name) = {Path[d]}
        /\ ShouldBeFound(w, n, k)
    <3>1. LineFits(w, l) /\ n = l.node /\ d = Meant(w, n)[k] /\ d # 0 /\ name = l.names[k].name
          /\ k \in DOMAIN Meant(w, n) /\ w.by = "AdapterSource" /\ file[n].kind = "module"
      BY <1>1, <1>2, <1>3
    <3> QED
      BY ONLY file \in Files, w \in Walks, <3>1, ModuleResolves
  <2> QED
    BY <1>1, <1>3, <2>1, Zenon DEF Resolves
<1>4. CASE ~(file[n].kind = "module" /\ w.by = "AdapterSource")
  <2>1. file[n].kind # "module" /\ FoundAsMeant(w, n, name, k)
    BY <1>1, <1>2, <1>4, LineResolves
  <2>2. l.scope = Place(w, n)
    BY <1>1 DEF LineFits
  <2> QED
    BY <1>1, <2>1, <2>2, Zenon DEF Resolves, FoundAsMeant, Finds
<1> QED
  BY <1>3, <1>4

(* Of every IDL file, in every line that a walk has printed, and of every  *)
(* name for which the lookup is direct, in which no base class or typedef  *)
(* can have a part: C++ finds the declaration that the name is meant for   *)
(* if the place, the file and the order of its modules are as              *)
(* ShouldBeFound says, and otherwise none or another: when the last module *)
(* that was visited is not the interface's own, when something nearer is   *)
(* called the same, when a sequence's element is not declared around the   *)
(* place.                                                                  *)
THEOREM Resolve == Spec => []NamesResolve
<1>1. IInv => NamesResolve
  <2> SUFFICES ASSUME IInv PROVE NamesResolve
    OBVIOUS
  <2>1. ASSUME NEW w \in Walks, NEW p \in DOMAIN text[w].lines,
               NEW k \in DOMAIN Meant(w, text[w].lines[p].node), Meant(w, text[w].lines[p].node)[k] # 0
        PROVE  Resolves(w, text[w].lines[p], k)
    <3>1. PICK l : l = text[w].lines[p]
      OBVIOUS
    <3>2. file \in Files /\ LineFits(w, l)
      BY <3>1 DEF IInv, TypeOK, LinesFit
    <3> QED
      BY <2>1, <3>1, <3>2, Resolved
  <2> QED
    BY <2>1, Zenon DEF NamesResolve, Resolves
<1> QED
  BY <1>1, Inductive, PTL

-----------------------------------------------------------------------------
(* The former back end's walk (v) and that of cxxbackend's header (w) over *)
(* the same file.                                                          *)
ModernName(x) ==
  IF x.name = <<"std:wstring">> THEN Name(<<"std", "wstring">>) ELSE x

ModernNames(s) == [k \in DOMAIN s |-> ModernName(s[k])]

LEMMA SameWork ==
  ASSUME file \in Files, NEW v \in Walks, NEW w \in Walks, v.by \in Whole, w.by \in Whole
  PROVE  /\ Printable(v) = Printable(w)
         /\ \A n : /\ TypesTaken(v, n) = TypesTaken(w, n) /\ TypesTaken(v, n) = file[n].types
                   /\ Place(v, n) = Place(w, n)
                   /\ file[n].kind # "exception" => Further(v, n) = Further(w, n)
<1>1. /\ \A x \in Printable(v) : x \in 1 .. N
      /\ \A x \in Printable(w) : x \in 1 .. N
      /\ \A x \in 1 .. N : x \in Printable(v) <=> x \in Printable(w)
  BY PrintableIs
<1>2. Printable(v) = Printable(w)
  BY <1>1
<1>3. /\ v.by # "AdapterHeader" /\ w.by # "AdapterHeader"
      /\ v.by # "AdapterSource" /\ w.by # "AdapterSource"
  BY DEF Whole
<1>4. ASSUME NEW n
      PROVE  /\ Place(v, n) = Place(w, n)
             /\ file[n].kind # "exception" => Further(v, n) = Further(w, n)
  BY <1>3 DEF Place, Further, CommonNames, Derives
<1> QED
  BY <1>2, <1>3, <1>4 DEF TypesTaken

(* No declaration is called as the former back end calls a wide string.    *)
LEMMA PathNot ==
  ASSUME file \in Files, NEW m \in 1 .. N
  PROVE  Path[m] # <<"std:wstring">> /\ <<file[m].id>> # <<"std:wstring">>
<1>1. file[m].id # "std:wstring" /\ In(m) \in 0 .. N /\ file[m].id \in STRING
  BY NamesAre, InParent, KindsAre
<1>2. PICK q, x : q = Path[In(m)] /\ x = file[m].id
  OBVIOUS
<1>3. q \in Seq(STRING) /\ Path[m] = Append(q, x) /\ x \in STRING /\ x # "std:wstring"
  BY <1>1, <1>2, PathIs
<1>4. Append(q, x) # <<"std:wstring">>
  <2>1. Len(q) \in Nat /\ Len(Append(q, x)) = Len(q) + 1 /\ Append(q, x)[Len(q) + 1] = x
    BY <1>3, OneMore
  <2>2. ASSUME Append(q, x) = <<"std:wstring">> PROVE FALSE
    <3>1. Len(Append(q, x)) = 1 /\ Append(q, x)[1] = "std:wstring"
      BY <2>2
    <3> QED
      BY <1>3, <2>1, <3>1
  <2> QED
    BY <2>2
<1> QED
  BY <1>1, <1>3, <1>4

LEMMA NameModern ==
  ASSUME file \in Files, NEW t \in Type, t.of \in 0 .. N, t.kind = "declared" => t.of # 0,
         t.kind # "fixed", NEW x, NEW y,
         Names("CppVisitor", t, NULL) = {x}, Names("Header", t, NULL) = {y}
  PROVE  y = ModernName(x)
<1>1. N \in Nat
  BY FileIs
<1>2. t.kind \in BasicTypes \cup {"declared", "sequence", "string", "wstring", "fixed"}
  BY DEF Type
<1>3. /\ Class["CppVisitor"].wstring = <<"std:wstring">>
      /\ Class["Header"].wstring = <<"std", "wstring">>
  BY DEF Class, CppVisitor, Header
<1>6. CASE t.kind \in BasicTypes
  <2>1. /\ Names("CppVisitor", t, NULL)
             = IF t.kind \in Class["CppVisitor"].ttsMap THEN {Name(<<t.kind>>)} ELSE {}
        /\ Names("Header", t, NULL)
             = IF t.kind \in Class["Header"].ttsMap THEN {Name(<<t.kind>>)} ELSE {}
    BY <1>6 DEF Names, BasicTypes
  <2>2. x = Name(<<t.kind>>) /\ y = Name(<<t.kind>>)
    BY <2>1
  <2>3. <<t.kind>> # <<"std:wstring">>
    BY <1>6 DEF BasicTypes
  <2> QED
    BY <2>2, <2>3 DEF ModernName, Name
<1>7. CASE t.kind = "declared"
  <2>1. x = Name(Path[t.of]) /\ y = Name(Path[t.of])
    BY <1>7 DEF Names, BasicTypes
  <2>2. t.of \in 1 .. N
    BY <1>1, <1>7
  <2>3. Path[t.of] # <<"std:wstring">>
    BY <2>2, PathNot
  <2> QED
    BY <2>1, <2>3 DEF ModernName, Name
<1>8. CASE t.kind = "sequence"
  <2>1. /\ Names("CppVisitor", t, NULL)
             = IF t.of = 0 THEN {} ELSE {[vector |-> TRUE, name |-> <<file[t.of].id>>]}
        /\ Names("Header", t, NULL)
             = IF t.of = 0 THEN {} ELSE {[vector |-> TRUE, name |-> <<file[t.of].id>>]}
    BY <1>8 DEF Names, BasicTypes
  <2>2. t.of # 0 /\ x = [vector |-> TRUE, name |-> <<file[t.of].id>>] /\ y = x
    BY <2>1
  <2>3. t.of \in 1 .. N
    BY <1>1, <2>2
  <2>4. <<file[t.of].id>> # <<"std:wstring">>
    BY <2>3, PathNot
  <2> QED
    BY <2>2, <2>4 DEF ModernName
<1>9. CASE t.kind = "string"
  <2>1. x = Name(<<"std", "string">>) /\ y = Name(<<"std", "string">>)
    BY <1>9 DEF Names, BasicTypes
  <2>2. <<"std", "string">> # <<"std:wstring">>
    OBVIOUS
  <2> QED
    BY <2>1, <2>2 DEF ModernName, Name
<1>10. CASE t.kind = "wstring"
  <2>1. x = Name(<<"std:wstring">>) /\ y = Name(<<"std", "wstring">>)
    BY <1>3, <1>10 DEF Names, BasicTypes
  <2> QED
    BY <2>1 DEF ModernName, Name
<1> QED
  BY <1>2, <1>6, <1>7, <1>8, <1>9, <1>10

(* Of all types up to a position, one at most leaves the name.             *)
LEMMA NamerOnce ==
  ASSUME file \in Files, NEW w \in Walks, NEW at, NEW n, NEW k, NEW m, NEW j, NEW d, NEW i,
         Namer(w, at, n, k, m, j), Namer(w, at, n, k, d, i)
  PROVE  m = d /\ i = j
<1>1. /\ m \in Printable(w) /\ j \in DOMAIN TypesTaken(w, m) /\ UpTo(at, n, k, m, j)
      /\ file[m].types[j].kind # "fixed"
      /\ d \in Printable(w) /\ i \in DOMAIN TypesTaken(w, d) /\ UpTo(at, n, k, d, i)
      /\ file[d].types[i].kind # "fixed"
  BY DEF Namer
<1>2. m \in 1 .. N /\ d \in 1 .. N /\ j \in Nat /\ i \in Nat /\ N \in Nat
  BY <1>1, TakenAt, FileIs
<1>3. UpTo(m, m, j, d, i)
  BY <1>1, Zenon DEF Namer
<1>4. UpTo(d, d, i, m, j)
  BY <1>1, Zenon DEF Namer
<1> QED
  BY <1>2, <1>3, <1>4 DEF UpTo

LEMMA LeftModern ==
  ASSUME file \in Files, NEW v \in Walks, NEW w \in Walks, v.by = "CppVisitor", w.by = "Header",
         NEW at, NEW n, NEW k, NEW x, NEW y, Left(v, at, n, k, x), Left(w, at, n, k, y)
  PROVE  y = ModernName(x)
<1>1. PICK m, j : Namer(v, at, n, k, m, j) /\ Names(v.by, file[m].types[j], NULL) = {x}
  BY DEF Left
<1>2. PICK d, i : Namer(w, at, n, k, d, i) /\ Names(w.by, file[d].types[i], NULL) = {y}
  BY DEF Left
<1>3. Namer(v, at, n, k, d, i)
  <2>1. v.by \in Whole /\ w.by \in Whole
    BY DEF Whole
  <2>2. Printable(v) = Printable(w) /\ \A z : TypesTaken(v, z) = TypesTaken(w, z)
    BY <2>1, SameWork
  <2> QED
    BY <1>2, <2>2 DEF Namer
<1>4. m = d /\ i = j
  BY <1>1, <1>3, NamerOnce
<1>5. PICK t : t = file[m].types[j]
  OBVIOUS
<1>6. m \in Printable(v) /\ j \in DOMAIN TypesTaken(v, m) /\ t.kind # "fixed"
  BY <1>1, <1>5 DEF Namer
<1>7. m \in 1 .. N /\ j \in DOMAIN file[m].types
  BY <1>6, TakenAt
<1>8. t \in Type /\ t.of \in 0 .. N /\ (t.kind = "declared" => t.of # 0)
  BY <1>5, <1>7, TypeAt
<1>9. Names("CppVisitor", t, NULL) = {x} /\ Names("Header", t, NULL) = {y}
  BY <1>1, <1>2, <1>4, <1>5
<1> QED
  BY <1>6, <1>8, <1>9, NameModern

(* An exception's line has become that of a class with a base.            *)
LEMMA ThrownModern ==
  ASSUME file \in Files, NEW v \in Walks, NEW w \in Walks, v.by = "CppVisitor", w.by = "Header",
         NEW l, NEW h, LineFits(v, l), LineFits(w, h), l.node = h.node, file[l.node].kind = "exception"
  PROVE  h = Modern(l)
<1>1. PICK n : n = l.node
  OBVIOUS
<1>2. /\ l = [node |-> n, scope |-> l.scope, names |-> l.names]
      /\ h = [node |-> n, scope |-> h.scope, names |-> h.names]
      /\ n \in Printable(w) /\ l.scope = Place(v, n) /\ h.scope = Place(w, n)
      /\ Listed(h.names) /\ Len(h.names) = Len(TypesTaken(w, n)) + Len(Further(w, n))
      /\ \A k \in DOMAIN Further(w, n) : h.names[Len(TypesTaken(w, n)) + k] = Further(w, n)[k]
  BY <1>1 DEF LineFits
<1>3. n \in 1 .. N
  BY <1>2, PrintableIs
<1>4. Further(w, n) = Thrown
  BY <1>1 DEF Further, Derives, Typed
<1>5. Len(TypesTaken(w, n)) = 0
  <2>1. TypesTaken(w, n) = <<>>
    BY <1>1, <1>3, FileIs DEF TypesTaken, Typed
  <2> QED
    BY <2>1
<1>6. PICK b, x, y : b = h.names /\ x = Name(<<"std", "runtime_error">>) /\ y = Name(<<"std", "string">>)
  OBVIOUS
<1>7. b = Thrown
  <2>1. Thrown = <<x, y>>
    BY <1>6 DEF Thrown
  <2>2. /\ Len(<<x, y>>) = 2 /\ DOMAIN <<x, y>> = 1 .. 2 /\ <<x, y>>[1] = x /\ <<x, y>>[2] = y
        /\ 0 + 2 = 2 /\ 0 + 1 = 1 /\ 1 \in 1 .. 2 /\ 2 \in 1 .. 2
    OBVIOUS
  <2>3. Len(b) = 2 /\ b[1] = x /\ b[2] = y
    BY <1>2, <1>4, <1>5, <1>6, <2>1, <2>2
  <2>4. b = [k \in 1 .. 2 |-> b[k]]
    BY <1>2, <1>6, <2>3 DEF Listed
  <2>5. b = <<x, y>>
    BY <2>3, <2>4
  <2> QED
    BY <2>1, <2>5
<1>8. Place(v, n) = Place(w, n)
  <2>1. v.by \in Whole /\ w.by \in Whole
    BY DEF Whole
  <2> QED
    BY <2>1, SameWork
<1>9. PICK S, a, c : S = Place(w, n) /\ a = l.names /\ c = Thrown
  OBVIOUS
<1>10. l = [node |-> n, scope |-> S, names |-> a] /\ h = [node |-> n, scope |-> S, names |-> c]
  BY <1>2, <1>6, <1>7, <1>8, <1>9
<1>11. [l EXCEPT !.names = c] = [node |-> n, scope |-> S, names |-> c]
  BY <1>10
<1>12. Modern(l) = [l EXCEPT !.names = c]
  BY <1>9 DEF Modern
<1> QED
  BY <1>10, <1>11, <1>12

(* Any other declaration's line in both texts: the same but for wide       *)
(* strings.                                                                *)
LEMMA LineModern ==
  ASSUME file \in Files, NEW v \in Walks, NEW w \in Walks, v.by = "CppVisitor", w.by = "Header",
         NEW l, NEW h, LineFits(v, l), LineFits(w, h), l.node = h.node, file[l.node].kind # "exception"
  PROVE  h = Modern(l)
<1>1. PICK n : n = l.node
  OBVIOUS
<1>2. /\ l = [node |-> n, scope |-> l.scope, names |-> l.names]
      /\ h = [node |-> n, scope |-> h.scope, names |-> h.names]
      /\ n \in Printable(v) /\ l.scope = Place(v, n) /\ h.scope = Place(w, n)
      /\ Listed(l.names) /\ Listed(h.names)
  BY <1>1 DEF LineFits
<1>3. /\ TypesTaken(v, n) = file[n].types /\ TypesTaken(w, n) = file[n].types
      /\ Place(v, n) = Place(w, n) /\ Further(v, n) = Further(w, n)
  <2>1. v.by \in Whole /\ w.by \in Whole
    BY DEF Whole
  <2> QED
    BY <1>1, <2>1, SameWork
<1>4. PICK ts, f : ts = file[n].types /\ f = Further(w, n)
  OBVIOUS
<1>5. /\ Len(l.names) = Len(ts) + Len(f) /\ Len(h.names) = Len(ts) + Len(f)
      /\ \A k \in DOMAIN ts : Fits(v, n, k, l.names[k]) /\ Fits(w, n, k, h.names[k])
      /\ \A k \in DOMAIN f : l.names[Len(ts) + k] = f[k] /\ h.names[Len(ts) + k] = f[k]
  BY <1>1, <1>3, <1>4 DEF LineFits
<1>6. n \in 1 .. N /\ ts \in Seq(Type)
  <2>1. n \in 1 .. N
    BY <1>2, PrintableIs
  <2> QED
    BY <1>4, <2>1, KindsAre
<1>7. f \in Seq(CxxName) /\ \A k \in 1 .. Len(f) : ModernName(f[k]) = f[k]
  <2>1. PICK ns, s : ns = file[n].names /\ s = Scoped(ns)
    OBVIOUS
  <2>2. /\ ns \in Seq(Nat) /\ s \in Seq(CxxName) /\ Len(s) = Len(ns) /\ Len(ns) \in Nat
        /\ \A k \in 1 .. Len(ns) : s[k] = Name(Path[ns[k]])
    BY <1>6, <2>1, ScopedIs
  <2>3. f = s \/ f = <<>> \/ f = s \o <<>>
    <3>1. w.by \in Whole /\ w.by # "AdapterHeader" /\ w.by # "AdapterSource"
      BY DEF Whole
    <3> QED
      BY <1>1, <1>4, <2>1, <3>1 DEF Further, CommonNames, Derives
  <2>4. f = s \/ f = <<>>
    BY <2>2, <2>3
  <2>5. ASSUME NEW k \in 1 .. Len(ns) PROVE ModernName(s[k]) = s[k]
    <3>1. CanBeNamed(file, n, ns[k])
      <4>1. k \in DOMAIN ns
        BY <2>2
      <4> QED
        BY <1>6, <2>1, <4>1, NamesAre
    <3>2. ns[k] \in 1 .. N
      <4>1. N \in Nat
        BY FileIs
      <4> QED
        BY <1>6, <3>1, <4>1 DEF CanBeNamed
    <3>3. PICK q : q = Path[ns[k]]
      OBVIOUS
    <3>4. q # <<"std:wstring">> /\ s[k] = Name(q)
      BY <2>2, <3>2, <3>3, PathNot
    <3> QED
      BY <3>4 DEF ModernName, Name
  <2>6. CASE f = s
    BY <2>2, <2>5, <2>6
  <2>7. CASE f = <<>>
    <3>1. f \in Seq(CxxName) /\ Len(f) = 0
      BY <2>7
    <3> QED
      BY <3>1
  <2> QED
    BY <2>4, <2>6, <2>7
<1>8. PICK a, b : a = l.names /\ b = h.names
  OBVIOUS
<1>9. ASSUME NEW k \in 1 .. Len(a) PROVE b[k] = ModernName(a[k])
  <2>1. Len(a) = Len(ts) + Len(f) /\ Len(ts) \in Nat /\ Len(f) \in Nat /\ k \in Nat
    BY <1>5, <1>6, <1>7, <1>8
  <2>2. CASE k <= Len(ts)
    <3>1. k \in DOMAIN ts
      BY <1>6, <2>1, <2>2
    <3>2. Left(v, n, n, k, a[k]) /\ Left(w, n, n, k, b[k])
      BY <1>5, <1>8, <3>1 DEF Fits
    <3> QED
      BY <3>2, LeftModern
  <2>3. CASE ~(k <= Len(ts))
    <3>1. PICK j : j = k - Len(ts)
      OBVIOUS
    <3>2. j \in 1 .. Len(f) /\ k = Len(ts) + j
      BY <2>1, <2>3, <3>1
    <3>3. j \in DOMAIN f
      BY <1>7, <3>2
    <3>4. a[k] = f[j] /\ b[k] = f[j]
      BY <1>5, <1>8, <3>2, <3>3
    <3> QED
      BY <1>7, <3>2, <3>4
  <2> QED
    BY <2>2, <2>3
<1>10. /\ Len(a) \in Nat /\ a = [k \in 1 .. Len(a) |-> a[k]] /\ b = [k \in 1 .. Len(b) |-> b[k]]
       /\ Len(b) = Len(a)
  BY <1>2, <1>5, <1>8 DEF Listed
<1>11. b = ModernNames(a)
  <2>1. DOMAIN a = 1 .. Len(a)
    BY <1>10
  <2>2. ModernNames(a) = [k \in 1 .. Len(a) |-> ModernName(a[k])]
    BY <2>1 DEF ModernNames
  <2>3. b = [k \in 1 .. Len(a) |-> ModernName(a[k])]
    BY <1>9, <1>10
  <2> QED
    BY <2>2, <2>3
<1>12. PICK S : S = Place(w, n)
  OBVIOUS
<1>13. l = [node |-> n, scope |-> S, names |-> a] /\ h = [node |-> n, scope |-> S, names |-> b]
  BY <1>2, <1>3, <1>8, <1>12
<1>14. PICK c : c = ModernNames(a)
  OBVIOUS
<1>15. h = [node |-> n, scope |-> S, names |-> c]
  BY <1>11, <1>13, <1>14
<1>16. [l EXCEPT !.names = c] = [node |-> n, scope |-> S, names |-> c]
  BY <1>13
<1>17. Modern(l) = [l EXCEPT !.names = c]
  <2>1. Modern(l) = [l EXCEPT !.names =
                       [k \in DOMAIN l.names |-> IF l.names[k].name = <<"std:wstring">>
                                                 THEN Name(<<"std", "wstring">>) ELSE l.names[k]]]
    BY DEF Modern
  <2>2. c = [k \in DOMAIN l.names |-> IF l.names[k].name = <<"std:wstring">>
                                      THEN Name(<<"std", "wstring">>) ELSE l.names[k]]
    BY <1>8, <1>14 DEF ModernNames, ModernName
  <2> QED
    BY <2>1, <2>2
<1> QED
  BY <1>15, <1>16, <1>17

-----------------------------------------------------------------------------
(* Two texts that have the declarations in order, and the first all there  *)
(* are of the second's up to some place: it is how the second begins.      *)
Rises(f, n) == \A p, q \in 1 .. n : p < q => f[p] < f[q]
Numbers(f, n) == \A p \in 1 .. n : f[p] \in Nat
From(f, A, g, B) ==
  /\ \A p \in 1 .. A : \E q \in 1 .. B : g[q] = f[p]
  /\ \A p \in 1 .. A : \A q \in 1 .. B : g[q] < f[p] => \E i \in 1 .. A : f[i] = g[q]
Same(f, A, g, B) == A <= B /\ \A p \in 1 .. A : f[p] = g[p]

LEMMA Begins ==
  ASSUME NEW A \in Nat, NEW B \in Nat, NEW f, NEW g,
         Numbers(f, A), Numbers(g, B), Rises(f, A), Rises(g, B), From(f, A, g, B)
  PROVE  Same(f, A, g, B)
<1> DEFINE S == {p \in 0 .. A : p <= B /\ \A i \in 1 .. p : f[i] = g[i]}
<1>0. /\ \A p \in 1 .. A : f[p] \in Nat
      /\ \A p \in 1 .. B : g[p] \in Nat
      /\ \A p \in 1 .. A : \E q \in 1 .. B : g[q] = f[p]
      /\ \A p \in 1 .. A : \A q \in 1 .. B : g[q] < f[p] => \E i \in 1 .. A : f[i] = g[q]
  BY DEF Numbers, From
<1>1. 0 \in S
  OBVIOUS
<1>2. ASSUME NEW m \in 0 .. A - 1, m \in S PROVE m + 1 \in S
  <2>1. m \in Nat /\ m + 1 \in 1 .. A /\ m <= B /\ \A i \in 1 .. m : f[i] = g[i]
    BY <1>2
  <2>2. PICK q \in 1 .. B : g[q] = f[m + 1]
    BY <1>0, <2>1
  <2>3. q >= m + 1
    <3>1. ASSUME q \in 1 .. m PROVE FALSE
      <4>1. f[q] = g[q] /\ q \in 1 .. A /\ q < m + 1
        BY <2>1, <3>1
      <4>2. f[q] < f[m + 1]
        BY <2>1, <4>1 DEF Rises
      <4>3. f[q] \in Nat
        BY <1>0, <4>1
      <4> QED
        BY <2>2, <4>1, <4>2, <4>3
    <3> QED
      BY <2>1, <3>1
  <2>4. m + 1 \in 1 .. B
    BY <2>1, <2>3
  <2>5. g[m + 1] = f[m + 1]
    <3>1. ASSUME q # m + 1 PROVE FALSE
      <4>1. g[m + 1] < f[m + 1]
        BY <2>2, <2>3, <2>4, <3>1 DEF Rises
      <4>2. PICK i \in 1 .. A : f[i] = g[m + 1]
        BY <1>0, <2>1, <2>4, <4>1
      <4>3. i < m + 1
        <5>1. ASSUME i > m + 1 PROVE FALSE
          <6>1. f[m + 1] < f[i]
            BY <2>1, <5>1 DEF Rises
          <6>2. f[m + 1] \in Nat /\ f[i] \in Nat
            BY <1>0, <2>1
          <6> QED
            BY <4>1, <4>2, <6>1, <6>2
        <5>2. i # m + 1
          <6>1. f[m + 1] \in Nat /\ f[i] \in Nat
            BY <1>0, <2>1
          <6> QED
            BY <4>1, <4>2, <6>1
        <5> QED
          BY <2>1, <5>1, <5>2
      <4>4. i \in 1 .. m /\ i \in 1 .. B
        BY <2>1, <4>3
      <4>5. g[i] = g[m + 1] /\ g[i] < g[m + 1] /\ g[i] \in Nat
        BY <1>0, <2>1, <2>4, <4>2, <4>3, <4>4 DEF Rises
      <4> QED
        BY <4>5
    <3> QED
      BY <2>2, <3>1
  <2>6. \A i \in 1 .. m + 1 : f[i] = g[i]
    <3>1. \A i \in 1 .. m + 1 : i \in 1 .. m \/ i = m + 1
      BY <2>1
    <3> QED
      BY <2>1, <2>5, <3>1
  <2> QED
    BY <2>1, <2>4, <2>6
<1> HIDE DEF S
<1>3. A \in S
  BY <1>1, <1>2, Steps
<1> QED
  BY <1>3 DEF S, Same

(* A text that has ended has the declarations up to where it raised.       *)
HasEnded(w) == text[w].how # "not yet"

LEMMA EndedUpTo ==
  ASSUME IInv, NEW w \in Walks, HasEnded(w)
  PROVE  /\ Printed(w) \subseteq Printable(w)
         /\ \A x \in Printed(w) : \A y \in Printable(w) : y < x => y \in Printed(w)
<1>1. text[w].how \in {"not yet", "whole", "raised"} /\ Ended(w) /\ file \in Files
  BY DEF IInv, TypeOK
<1>e. text[w].how # "not yet"
  BY DEF HasEnded
<1>2. CASE text[w].how = "whole"
  BY <1>1, <1>2 DEF Ended
<1>3. CASE text[w].how = "raised"
  <2>1. PICK c \in Causes(w) : Printed(w) = {x \in Printable(w) : x < c}
    BY <1>1, <1>3 DEF Ended
  <2>2. N \in Nat /\ \A x \in Printable(w) : x \in 1 .. N
    BY <1>1, FileIs, PrintableIs
  <2>3. c \in 1 .. N
    BY <2>2 DEF Causes
  <2>4. c \in Int /\ \A x \in Printable(w) : x \in Int
    BY <2>2, <2>3
  <2>5. ASSUME NEW x \in Printable(w), x < c, NEW y \in Printable(w), y < x PROVE y < c
    BY <2>4, <2>5
  <2> QED
    BY <2>1, <2>5
<1> QED
  BY <1>1, <1>e, <1>2, <1>3

(* Where one of them raises so does the other, but for TypeCode.           *)
LEMMA CausesSame ==
  ASSUME file \in Files, NEW v \in Walks, NEW w \in Walks, v.by = "CppVisitor", w.by = "Header"
  PROVE  /\ Causes(v) \subseteq Causes(w)
         /\ (\A n \in DOMAIN file : \A k \in DOMAIN file[n].types : file[n].types[k].kind # "TypeCode")
              => Causes(v) = Causes(w)
<1>1. /\ Printable(v) = Printable(w)
      /\ \A n : TypesTaken(v, n) = file[n].types /\ TypesTaken(w, n) = file[n].types
  <2>1. v.by \in Whole /\ w.by \in Whole
    BY DEF Whole
  <2> QED
    BY <2>1, SameWork
<1>2. Class[v.by].ttsMap = BasicTypes /\ Class[w.by].ttsMap = BasicTypes \ {"TypeCode"}
  BY DEF Class, CppVisitor, Header, BasicTypes
<1>3. ASSUME NEW n, NEW k
      PROVE  /\ Unnamed(v, n, k) => Unnamed(w, n, k)
             /\ file[n].types[k].kind # "TypeCode" /\ Unnamed(w, n, k) => Unnamed(v, n, k)
  <2>1. PICK t : t = file[n].types[k]
    OBVIOUS
  <2>2. t.kind \notin BasicTypes \ Class[v.by].ttsMap
    BY <1>2
  <2>3. t.kind # "TypeCode" => t.kind \notin BasicTypes \ Class[w.by].ttsMap
    BY <1>2
  <2>4. (\A m \in Printable(v) : m < n => TypesTaken(v, m) = <<>>)
        <=> \A m \in Printable(w) : m < n => TypesTaken(w, m) = <<>>
    BY <1>1
  <2> QED
    BY <2>1, <2>2, <2>3, <2>4 DEF Unnamed
<1>4. Causes(v) \subseteq Causes(w)
  BY <1>1, <1>3 DEF Causes, BadComment
<1>5. ASSUME \A n \in DOMAIN file : \A k \in DOMAIN file[n].types : file[n].types[k].kind # "TypeCode"
      PROVE  Causes(w) \subseteq Causes(v)
  <2>1. \A n \in Printable(w) : n \in DOMAIN file
    BY PrintableIs, FileIs
  <2> QED
    BY <1>1, <1>3, <1>5, <2>1 DEF Causes, BadComment
<1> QED
  BY <1>4, <1>5

LEMMA PrintedSame ==
  ASSUME IInv, NEW v \in Walks, NEW w \in Walks, v.by = "CppVisitor", w.by = "Header",
         HasEnded(v), HasEnded(w)
  PROVE  /\ Printed(w) \subseteq Printed(v)
         /\ Causes(v) = Causes(w) => text[v].how = text[w].how /\ Printed(v) = Printed(w)
<1>1. /\ text[v].how \in {"whole", "raised"} /\ text[w].how \in {"whole", "raised"}
      /\ Ended(v) /\ Ended(w) /\ file \in Files
  BY DEF IInv, TypeOK, HasEnded
<1>2. Printable(v) = Printable(w)
  <2>1. v.by \in Whole /\ w.by \in Whole
    BY DEF Whole
  <2> QED
    BY <1>1, <2>1, SameWork
<1>3. Causes(v) \subseteq Causes(w)
  BY <1>1, CausesSame
<1>4. N \in Nat /\ \A x \in Printable(w) : x \in 1 .. N
  BY <1>1, FileIs, PrintableIs
<1>5. \A c \in Causes(w) : c \in 1 .. N
  BY <1>4 DEF Causes
<1>6. CASE text[v].how = "whole" /\ text[w].how = "whole"
  <2>1. Printed(v) = Printable(v) /\ Printed(w) = Printable(w)
    BY <1>1, <1>6 DEF Ended
  <2> QED
    BY <1>2, <1>6, <2>1
<1>7. CASE text[v].how = "whole" /\ text[w].how = "raised"
  <2>1. Printed(v) = Printable(v) /\ Causes(v) = {} /\ Causes(w) # {} /\ Printed(w) \subseteq Printable(w)
    BY <1>1, <1>7 DEF Ended
  <2> QED
    BY <1>2, <2>1
<1>8. CASE text[v].how = "raised" /\ text[w].how = "whole"
  <2>1. Causes(v) # {} /\ Causes(w) = {}
    BY <1>1, <1>8 DEF Ended
  <2> QED
    BY <1>3, <2>1
<1>9. CASE text[v].how = "raised" /\ text[w].how = "raised"
  <2>1. PICK c \in Causes(v) : /\ \A d \in Causes(v) : c <= d
                               /\ Printed(v) = {x \in Printable(v) : x < c}
    BY <1>1, <1>9 DEF Ended
  <2>2. PICK b \in Causes(w) : /\ \A d \in Causes(w) : b <= d
                               /\ Printed(w) = {x \in Printable(w) : x < b}
    BY <1>1, <1>9 DEF Ended
  <2>3. c \in 1 .. N /\ b \in 1 .. N /\ b <= c
    BY <1>3, <1>5, <2>1, <2>2
  <2>4. Printed(w) \subseteq Printed(v)
    <3>1. c \in Int /\ b \in Int /\ \A x \in Printable(w) : x \in Int
      BY <1>4, <2>3
    <3>2. ASSUME NEW x \in Printable(w), x < b PROVE x < c
      BY <2>3, <3>1, <3>2
    <3> QED
      BY <1>2, <2>1, <2>2, <3>2
  <2>5. ASSUME Causes(v) = Causes(w) PROVE Printed(v) = Printed(w)
    <3>1. c <= b
      BY <2>1, <2>2, <2>5
    <3>2. c \in Int /\ b \in Int
      BY <1>4, <2>3
    <3>3. c = b
      BY <2>3, <3>1, <3>2
    <3> QED
      BY <1>2, <2>1, <2>2, <3>3
  <2> QED
    BY <1>9, <2>4, <2>5
<1> QED
  BY <1>1, <1>6, <1>7, <1>8, <1>9

(* What a header names of the standard library it includes.                *)
LEMMA NamesStandard ==
  ASSUME NEW w \in Walks, w.by \in Whole, NEW t \in Type, t.kind \notin {"declared", "fixed"},
         NEW x, Names(w.by, t, NULL) = {x}
  PROVE  StdNamed(x) \subseteq Std(t)
<1>1. t.kind \in BasicTypes \cup {"declared", "sequence", "string", "wstring", "fixed"}
  BY DEF Type
<1>2. CASE t.kind \in BasicTypes
  <2>1. Names(w.by, t, NULL) = IF t.kind \in Class[w.by].ttsMap THEN {Name(<<t.kind>>)} ELSE {}
    BY <1>2 DEF Names, BasicTypes
  <2>2. x = Name(<<t.kind>>)
    BY <2>1
  <2>3. x.vector = FALSE /\ x.name[1] # "std"
    BY <1>2, <2>2 DEF Name, BasicTypes
  <2> QED
    BY <2>3 DEF StdNamed
<1>3. CASE t.kind = "sequence"
  <2>1. Names(w.by, t, NULL) = IF t.of = 0 THEN {} ELSE {[vector |-> TRUE, name |-> <<file[t.of].id>>]}
    BY <1>3 DEF Names, BasicTypes
  <2>2. x.vector
    BY <2>1
  <2>3. Std(t) = {"vector"}
    BY <1>3 DEF Std
  <2> QED
    BY <2>2, <2>3 DEF StdNamed
<1>4. CASE t.kind = "string"
  <2>1. x = Name(<<"std", "string">>)
    BY <1>4 DEF Names, BasicTypes
  <2>2. x.vector = FALSE /\ x.name[1] = "std" /\ x.name[2] = "string"
    BY <2>1 DEF Name
  <2>3. Std(t) = {"string"}
    BY <1>4 DEF Std
  <2> QED
    BY <2>2, <2>3 DEF StdNamed
<1>5. CASE t.kind = "wstring"
  <2>1. x = Name(Class[w.by].wstring)
    BY <1>5 DEF Names, BasicTypes
  <2>2. Class[w.by].wstring = <<"std:wstring">> \/ Class[w.by].wstring = <<"std", "wstring">>
    BY DEF Class, Whole, CppVisitor, Header
  <2>3. x.vector = FALSE /\ (x.name[1] = "std" => x.name[2] = "wstring")
    BY <2>1, <2>2 DEF Name
  <2>4. Std(t) = {"wstring"}
    BY <1>5 DEF Std
  <2> QED
    BY <2>3, <2>4 DEF StdNamed
<1> QED
  BY <1>1, <1>2, <1>3, <1>4, <1>5

LEMMA LineCovers ==
  ASSUME file \in Files, NEW w \in Walks, w.by \in Whole, NEW covered, NEW included,
         StdOf(Seen(covered)) \subseteq included,
         NEW l, LineFits(w, l), NEW n, n = l.node, n \in Seen(covered),
         NEW k \in DOMAIN file[n].types, NEW t, t = file[n].types[k], t.kind \notin {"declared", "fixed"}
  PROVE  StdNamed(l.names[k]) \subseteq included
<1>1. n \in 1 .. N /\ TypesTaken(w, n) = file[n].types
  <2>1. w.by # "AdapterHeader"
    BY DEF Whole
  <2> QED
    BY <2>1, LineNames DEF TypesTaken
<1>2. PICK x : x = l.names[k]
  OBVIOUS
<1>3. Names(w.by, t, NULL) = {x}
  <2>1. k \in DOMAIN TypesTaken(w, n)
    BY <1>1
  <2>2. Named(w, n, k, x)
    BY <1>2, <2>1 DEF LineFits, Fits
  <2> QED
    BY <2>2 DEF Named
<1>4. t \in Type
  BY <1>1, TypeAt
<1>5. StdNamed(x) \subseteq Std(t)
  BY <1>3, <1>4, NamesStandard
<1>6. Std(t) \subseteq StdOf(Seen(covered))
  <2> DEFINE Of(m) == UNION {Std(file[m].types[i]) : i \in DOMAIN file[m].types}
  <2>1. Std(t) \subseteq Of(n)
    OBVIOUS
  <2>2. StdOf(Seen(covered)) = UNION {Of(m) : m \in Seen(covered)}
    BY DEF StdOf
  <2> HIDE DEF Of
  <2> QED
    BY <2>1, <2>2
<1> QED
  BY <1>2, <1>5, <1>6

LEMMA Covers ==
  ASSUME IInv, NEW w \in Walks, w.by \in Whole, NEW covered, NEW included, StdOf(Seen(covered)) \subseteq included
  PROVE  IncludesCover(w, covered, included)
<1>1. file \in Files
  BY DEF IInv, TypeOK
<1>2. ASSUME NEW p \in DOMAIN text[w].lines,
             NEW l, l = text[w].lines[p], NEW n, n = l.node, n \in Seen(covered),
             NEW k \in DOMAIN file[n].types, NEW t, t = file[n].types[k], t.kind \notin {"declared", "fixed"}
      PROVE  StdNamed(l.names[k]) \subseteq included
  <2>1. LineFits(w, l)
    BY <1>2 DEF IInv, LinesFit
  <2> QED
    BY <1>1, <1>2, <2>1, LineCovers
<1> QED
  BY <1>2, Zenon DEF IncludesCover

LEMMA NodesBegin ==
  ASSUME IInv, NEW v \in Walks, NEW w \in Walks, Printed(w) \subseteq Printed(v),
         \A x \in Printed(w) : \A y \in Printed(v) : y < x => y \in Printed(w),
         NEW a, a = text[v].lines, NEW b, b = text[w].lines
  PROVE  /\ Len(a) \in Nat /\ Len(b) \in Nat /\ DOMAIN a = 1 .. Len(a) /\ DOMAIN b = 1 .. Len(b)
         /\ Len(b) <= Len(a) /\ \A p \in 1 .. Len(b) : b[p].node = a[p].node
<1>1. file \in Files /\ LinesFit(v) /\ LinesFit(w)
  BY DEF IInv, TypeOK
<1>2. /\ Len(a) \in Nat /\ a = [p \in 1 .. Len(a) |-> a[p]]
      /\ \A p, q \in DOMAIN a : p < q => a[p].node < a[q].node
      /\ \A p \in DOMAIN a : LineFits(v, a[p])
  BY <1>1, Zenon DEF LinesFit
<1>3. /\ Len(b) \in Nat /\ b = [p \in 1 .. Len(b) |-> b[p]]
      /\ \A p, q \in DOMAIN b : p < q => b[p].node < b[q].node
      /\ \A p \in DOMAIN b : LineFits(w, b[p])
  BY <1>1, Zenon DEF LinesFit
<1>4. PICK A, B, f, g : /\ A = Len(b) /\ B = Len(a)
                        /\ f = [p \in 1 .. A |-> b[p].node] /\ g = [p \in 1 .. B |-> a[p].node]
  OBVIOUS
<1>5. A \in Nat /\ B \in Nat /\ DOMAIN a = 1 .. B /\ DOMAIN b = 1 .. A
  BY <1>2, <1>3, <1>4
<1>6. Rises(f, A) /\ Rises(g, B)
  BY <1>2, <1>3, <1>4, <1>5 DEF Rises
<1>7. /\ \A x \in Printed(w) : x \in Nat
      /\ \A x \in Printed(v) : x \in Nat
  <2>1. N \in Nat /\ \A x \in Printable(v) \cup Printable(w) : x \in 1 .. N
    BY <1>1, FileIs, PrintableIs
  <2>2. \A p \in DOMAIN a : a[p].node \in Printable(v)
    BY <1>2 DEF LineFits
  <2>3. \A p \in DOMAIN b : b[p].node \in Printable(w)
    BY <1>3 DEF LineFits
  <2>4. \A x \in Printable(v) \cup Printable(w) : x \in Nat
    BY <2>1
  <2> QED
    BY <2>2, <2>3, <2>4 DEF Printed
<1>8. Printed(v) = {g[p] : p \in 1 .. B} /\ Printed(w) = {f[p] : p \in 1 .. A}
  BY <1>4, <1>5 DEF Printed
<1>9. Same(f, A, g, B)
  <2>1. Numbers(f, A) /\ Numbers(g, B)
    BY <1>7, <1>8 DEF Numbers
  <2>3. \A p \in 1 .. A : \E q \in 1 .. B : g[q] = f[p]
    BY <1>8
  <2>4. \A p \in 1 .. A : \A q \in 1 .. B : g[q] < f[p] => \E i \in 1 .. A : f[i] = g[q]
    BY <1>8
  <2>5. From(f, A, g, B)
    BY <2>3, <2>4 DEF From
  <2> QED
    BY <1>5, <1>6, <2>1, <2>5, Begins
<1>10. ASSUME NEW p \in 1 .. A PROVE b[p].node = a[p].node
  <2>1. p \in 1 .. B /\ f[p] = g[p]
    BY <1>5, <1>9 DEF Same
  <2> QED
    BY <1>4, <2>1
<1>11. A <= B
  BY <1>9 DEF Same
<1> QED
  BY <1>4, <1>5, <1>10, <1>11

LEMMA IsInitial ==
  ASSUME NEW b, NEW c, NEW B \in Nat, NEW C \in Nat, B <= C, Len(b) = B,
         c = [p \in 1 .. C |-> c[p]], \A p \in 1 .. B : b[p] = c[p]
  PROVE  IsPrefix(b, c)
<1>1. Len(c) = C
  OBVIOUS
<1>2. SubSeq(b, 1, B) = [i \in 1 .. B |-> b[i]]
  OBVIOUS
<1>3. SubSeq(c, 1, B) = [i \in 1 .. B |-> c[i]]
  OBVIOUS
<1>4. SubSeq(b, 1, B) = SubSeq(c, 1, B)
  BY <1>2, <1>3
<1> QED
  BY <1>1, <1>4 DEF IsPrefix

(* Of every IDL file: the header includes what its names need, as far as   *)
(* the aggregators look; the new back end's text has the lines that the    *)
(* former's begins with, the same names in them but for wide strings and   *)
(* what an exception derives from and is made of; and unless a type is a   *)
(* TypeCode, both end alike, at the same declaration.                      *)
THEOREM Port == Spec => []PortKeepsHeader
<1>1. IInv => PortKeepsHeader
  <2> SUFFICES ASSUME IInv PROVE PortKeepsHeader
    OBVIOUS
  <2>1. PICK v, w : v = [by |-> "CppVisitor", interface |-> NULL] /\ w = [by |-> "Header", interface |-> NULL]
    OBVIOUS
  <2>2. /\ v.by = "CppVisitor" /\ w.by = "Header" /\ v \in Walks /\ w \in Walks
        /\ v.by \in Whole /\ w.by \in Whole /\ file \in Files
    BY <2>1 DEF Walks, Whole, IInv, TypeOK
  <2>3. IncludesCover(v, {"typedef", "member"}, HeadersAggregator)
    BY <2>2, Covers DEF HeadersAggregator
  <2>4. IncludesCover(w, {"typedef", "operation"}, Aggregator)
    BY <2>2, Covers DEF Aggregator
  <2>5. PICK a, b, c : /\ a = text[v].lines /\ b = text[w].lines
                       /\ c = [p \in DOMAIN a |-> Modern(a[p])]
    OBVIOUS
  <2>6. ASSUME HasEnded(v), HasEnded(w)
        PROVE  /\ IsPrefix(b, c)
               /\ (\A n \in DOMAIN file : \A k \in DOMAIN file[n].types :
                      file[n].types[k].kind # "TypeCode") =>
                    text[v].how = text[w].how /\ Len(a) = Len(b)
    <3>1. /\ Printed(w) \subseteq Printed(v)
          /\ Causes(v) = Causes(w) => text[v].how = text[w].how /\ Printed(v) = Printed(w)
      BY <2>2, <2>6, PrintedSame
    <3>2. \A x \in Printed(w) : \A y \in Printed(v) : y < x => y \in Printed(w)
      <4>1. Printable(v) = Printable(w)
        BY <2>2, SameWork
      <4>2. Printed(v) \subseteq Printable(v)
        BY <2>2, <2>6, EndedUpTo
      <4>3. \A x \in Printed(w) : \A y \in Printable(w) : y < x => y \in Printed(w)
        BY <2>2, <2>6, EndedUpTo
      <4> QED
        BY <4>1, <4>2, <4>3
    <3>3. /\ Len(a) \in Nat /\ Len(b) \in Nat /\ DOMAIN a = 1 .. Len(a) /\ DOMAIN b = 1 .. Len(b)
          /\ Len(b) <= Len(a) /\ \A p \in 1 .. Len(b) : b[p].node = a[p].node
      BY <2>2, <2>5, <3>1, <3>2, NodesBegin
    <3>4. /\ \A p \in DOMAIN a : LineFits(v, a[p])
          /\ \A p \in DOMAIN b : LineFits(w, b[p])
      BY <2>2, <2>5, Zenon DEF IInv, LinesFit
    <3>5. ASSUME NEW p \in 1 .. Len(b) PROVE b[p] = c[p]
      <4>1. p \in DOMAIN a /\ p \in DOMAIN b
        BY <3>3
      <4>2. PICK l, h : l = a[p] /\ h = b[p]
        OBVIOUS
      <4>3. LineFits(v, l) /\ LineFits(w, h) /\ l.node = h.node
        BY <3>3, <3>4, <4>1, <4>2
      <4>4. h = Modern(l)
        BY <2>2, <4>3, LineModern, ThrownModern
      <4> QED
        BY <2>5, <4>1, <4>2, <4>4
    <3>6. PICK A, B : A = Len(a) /\ B = Len(b)
      OBVIOUS
    <3>7. c = [p \in 1 .. A |-> c[p]]
      BY <2>5, <3>3, <3>6
    <3>8. IsPrefix(b, c)
      <4>1. A \in Nat /\ B \in Nat /\ B <= A /\ Len(b) = B /\ \A p \in 1 .. B : b[p] = c[p]
        BY <3>3, <3>5, <3>6
      <4> QED
        BY <3>7, <4>1, IsInitial
    <3>9. ASSUME Causes(v) = Causes(w) PROVE Len(a) = Len(b)
      <4>1. Printed(v) = Printed(w)
        BY <3>1, <3>9
      <4>2. Len(a) <= Len(b)
        BY <2>2, <2>5, <4>1, NodesBegin
      <4>3. A \in Nat /\ B \in Nat /\ A <= B /\ B <= A
        BY <3>3, <3>6, <4>2
      <4>4. A = B
        BY <4>3
      <4> QED
        BY <3>6, <4>4
    <3>10. (\A n \in DOMAIN file : \A k \in DOMAIN file[n].types : file[n].types[k].kind # "TypeCode")
             => Causes(v) = Causes(w)
      BY <2>2, CausesSame
    <3> QED
      BY <3>1, <3>8, <3>9, <3>10, Zenon
  <2> QED
    BY <2>1, <2>3, <2>4, <2>5, <2>6, Zenon DEF PortKeepsHeader, HasEnded
<1> QED
  BY <1>1, Inductive, PTL

=============================================================================
