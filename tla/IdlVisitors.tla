---------------------------- MODULE IdlVisitors ----------------------------
(***************************************************************************)
(* What the visitors of both IDL back ends print of one IDL file: the      *)
(* former cppbackend.py, and cxxbackend with its header, its adaptor and   *)
(* proxy of each interface, and its serializers. A walk goes from          *)
(* declaration to declaration; visiting a type leaves its C++ name in      *)
(* __result_type, from where the declaration takes it. So a walk has       *)
(* state: the braces that are open, the last type, the last module.        *)
(* IdlBackend has the files that these texts go to. Values of constants,   *)
(* comments, sizes of arrays (which no visitor prints, so that an array    *)
(* becomes one of its elements) and declarators after the first are left   *)
(* out, and so are names that the templates use themselves (Words).        *)
(***************************************************************************)
EXTENDS Naturals, Sequences, SequencesExt, FiniteSetsExt

CONSTANTS
  Files,   (* the IDL files to look at                                     *)
  NULL

Declarations == {"module", "interface", "forward", "const", "typedef", "struct", "member",
                 "structforward", "exception", "enum", "attribute", "operation"}
Typed == {"const", "typedef", "member", "attribute", "operation"}
Scopes == {"module", "interface", "struct", "exception"}

(* The basic types that some visitor names, and one that only some do.     *)
BasicTypes == {"void", "long", "TypeCode"}

(* The class of an adaptor or a proxy, whose name no IDL declaration has,  *)
(* nor another of the templates' words.                                    *)
ClassName == "class_name"
Words == {ClassName, "std", "std:wstring"}

(* An IDL file is the sequence of its declarations in the order in which   *)
(* they begin; but an inline struct is before the member that has it. A    *)
(* declaration: its kind and id; "in", the declaration it is in, or 0;     *)
(* whether the outermost it is in is of the main file; the types it is     *)
(* made of (an operation: result and parameters); "names", declarations it *)
(* names as such (bases, exceptions raised); "inline", its first type is   *)
(* declared in it; "alone", it is not such an inline type; "comment", an   *)
(* operation's: "malformed" if one that begins with @@ is not two words.   *)
(* No visitor has a method for a union, nor for an enumerator, which is    *)
(* printed with its enum and stands before it here. A type: its kind, and  *)
(* what declaration it is of (a sequence: of its elements; 0 if they have  *)
(* a type that is not declared).                                           *)
Type == [kind : BasicTypes \cup {"declared", "sequence", "string", "wstring", "fixed"}, of : Nat]
Declaration == [kind : Declarations \cup {"union", "enumerator"}, id : STRING, in : Nat,
                main : BOOLEAN, types : Seq(Type), names : Seq(Nat), inline : BOOLEAN,
                alone : BOOLEAN, comment : {"fine", "malformed"}]

Nested(f, n) ==
  /\ f[n].in \in 0 .. n - 1
  /\ \A m \in f[n].in + 1 .. n - 1 : f[m].in >= f[n].in
  /\ f[n].in # 0 => f[f[n].in].kind \in Scopes /\ f[f[n].in].main = f[n].main
  /\ f[n].kind \in {"module", "interface"} => f[n].in = 0 \/ f[f[n].in].kind = "module"
  /\ f[n].kind \in {"attribute", "operation"} => f[n].in # 0 /\ f[f[n].in].kind = "interface"
  /\ f[n].kind = "member" => f[n].in # 0 /\ f[f[n].in].kind \in {"struct", "exception"}
  /\ f[n].kind = "enumerator" => \E m \in n + 1 .. Len(f) :
       /\ f[m].kind = "enum" /\ f[m].in = f[n].in
       /\ \A k \in n .. m - 1 : f[k].kind = "enumerator"

InlineOf(f, n, m) ==
  /\ m \in 1 .. n - 1 /\ f[m].in = f[n].in /\ f[m].main = f[n].main
  /\ ~f[m].alone /\ f[m].kind \in {"struct", "enum", "union"}
  /\ \A k \in m + 1 .. n - 1 : f[k].in >= m

(* scopedName() of each declaration: different, but for modules that are   *)
(* opened again and forward declarations; and that of a scope is not used  *)
(* directly in it. An identifier has no colon.                             *)
PathOf(f) == LET path[n \in 0 .. Len(f)] ==
                   IF n = 0 THEN <<>> ELSE Append(path[f[n].in], f[n].id)
             IN path
WellNamed(f, n) ==
  /\ f[n].id \notin Words
  /\ f[n].in # 0 => f[n].id # f[f[n].in].id
  /\ \A m \in 1 .. n - 1 : PathOf(f)[m] = PathOf(f)[n] =>
       \E ks \in {{"module"}, {"forward", "interface"}, {"structforward", "struct"}} :
         f[m].kind \in ks /\ f[n].kind \in ks

(* What can be named has been declared and is neither module nor value. A  *)
(* base is named as the interface it is (no typedef of it).                *)
Values == {"const", "member", "attribute", "operation", "enumerator"}
CanBeNamed(f, n, m) ==
  /\ m \in 1 .. n - 1
  /\ f[m].kind \notin {"module"} \cup Values

IsFile(f) ==
  /\ f \in Seq(Declaration)
  /\ \A n \in DOMAIN f :
       /\ Nested(f, n) /\ WellNamed(f, n)
       /\ \A k \in DOMAIN f[n].names : CanBeNamed(f, n, f[n].names[k])
       /\ f[n].names # <<>> => f[n].kind \in {"interface", "attribute", "operation"}
       /\ f[n].kind = "interface" => \A k \in DOMAIN f[n].names : f[f[n].names[k]].kind = "interface"
       /\ f[n].comment # "fine" => f[n].kind = "operation"
       /\ \A k \in DOMAIN f[n].types :
            /\ f[n].types[k].of # 0 => CanBeNamed(f, n, f[n].types[k].of)
            /\ f[n].types[k].kind = "declared" => f[n].types[k].of # 0
       /\ f[n].kind \notin Typed => f[n].types = <<>>
       /\ f[n].inline => /\ f[n].kind \in {"typedef", "member"} /\ f[n].alone /\ f[n].types # <<>>
                         /\ InlineOf(f, n, f[n].types[1].of)
       /\ ~f[n].alone => \E m \in DOMAIN f : f[m].inline /\ f[m].types[1].of = n

ASSUME VisitorsAssumption ==
  /\ \A f \in Files : IsFile(f)
  /\ NULL \notin [by : STRING, interface : STRING \cup {NULL}]
  /\ NULL \notin [vector : BOOLEAN, name : Seq(STRING)]

VARIABLES
  file,         (* the IDL file                                            *)
  walk,         (* the walk under way: its visitor and interface, or NULL  *)
  todo,         (* what the visitor has still to do, a stack               *)
  scope,        (* the names whose braces are open in the text             *)
  result,       (* __result_type: a C++ name, or NULL                      *)
  taken,        (* types taken from it for the line in the making          *)
  module_name,  (* the visitor's module_name or namespace: the last module *)
  text          (* per walk: the lines printed, and how it has ended       *)

state == <<todo, scope, result, taken, module_name>>
vars == <<file, walk, state, text>>

-----------------------------------------------------------------------------
(* The classes: which declarations have a method, which basic types ttsMap *)
(* knows, and how a wide string is called. AstVisitor and TypeVisitor do   *)
(* nothing where a class has no method - so for unions and fixed types.    *)
(* "member" is what visitStruct and visitException do of each member.      *)
CppVisitor == [methods |-> Declarations, ttsMap |-> BasicTypes,
               wstring |-> <<"std:wstring">>]

(* Broken variant of Header: a method was not carried over.                *)
Header_no_attribute == [methods |-> Declarations \ {"attribute"}, ttsMap |-> {"void", "long"},
                        wstring |-> <<"std", "wstring">>]

Header == [methods |-> Declarations, ttsMap |-> {"void", "long"}, wstring |-> <<"std", "wstring">>]
AdapterHeader == [Header EXCEPT !.methods = {"module", "interface", "operation"}]
AdapterSource == [Header EXCEPT !.methods = {"module", "interface", "operation"}]
ProxyHeader == [methods |-> {"module", "interface", "operation"}, ttsMap |-> {"void", "long"},
                wstring |-> <<"std:wstring">>]
ProxySource == [Header EXCEPT !.methods = {"module", "interface", "operation"}]
Serializer == [Header EXCEPT !.methods = {"module", "struct"}]

Class == [CppVisitor |-> CppVisitor, Header |-> Header, AdapterHeader |-> AdapterHeader,
          AdapterSource |-> AdapterSource, ProxyHeader |-> ProxyHeader,
          ProxySource |-> ProxySource, Serializer |-> Serializer]

Whole == {"CppVisitor", "Header"}           (* print every declaration     *)
Classes == {"AdapterHeader", "ProxyHeader"}  (* print a class of their own  *)
Sources == {"AdapterSource", "ProxySource"}  (* and its members             *)
Visitor == <<"CppVisitor", "Header", "AdapterHeader", "AdapterSource",
             "ProxyHeader", "ProxySource", "Serializer">>

(* Words that are the visitors' own are strings, as those of the file are. *)
ASSUME WordsAssumption ==
  BasicTypes \cup Whole \cup Classes \cup Sources
    \cup {"Serializer", "std", "string", "wstring", "std:wstring", "runtime_error"} \subseteq STRING

Ids(kind) == {file[n].id : n \in {m \in DOMAIN file : file[m].kind = kind /\ file[m].alone}}

(* The walks over a file, and the order of their kinds: the former back    *)
(* end is a run of its own; of cxxbackend each walks only if none before   *)
(* has raised.                                                             *)
Walks ==
  [by : Whole, interface : {NULL}]
  \cup [by : Classes \cup Sources, interface : Ids("interface")]
  \cup (IF Ids("struct") = {} THEN {} ELSE [by : {"Serializer"}, interface : {NULL}])
Rank(w) == CHOOSE k \in DOMAIN Visitor : Visitor[k] = w.by

TypeOK ==
  /\ file \in Files
  /\ walk \in Walks \cup {NULL}
  /\ \A k \in DOMAIN todo : todo[k].do \in {"visit", "type", "take", "line", "close"}
  /\ DOMAIN text = Walks
  /\ \A w \in Walks : text[w].how \in {"not yet", "whole", "raised"}

Path == PathOf(file)

(* The declarations that a declaration contains.                           *)
IsContent(m, n) == file[m].in = n /\ file[m].alone /\ (n = 0 => file[m].main)
Contents(n) ==
  LET upto[m \in 0 .. Len(file)] ==
        IF m = 0 THEN <<>> ELSE upto[m - 1] \o (IF IsContent(m, n) THEN <<m>> ELSE <<>>)
  IN  upto[Len(file)]

(* C++ names as they are printed.                                          *)
Name(path) == [vector |-> FALSE, name |-> path]
Scoped(ns) == [k \in DOMAIN ns |-> Name(Path[ns[k]])]

Task(do, n, k) == [do |-> do, node |-> n, part |-> k]
Visits(ns) == [k \in DOMAIN ns |-> Task("visit", ns[k], 0)]
LineOf(n) == Task("line", n, 0)
Close(n) == Task("close", n, 0)

Init ==
  /\ file \in Files
  /\ walk = NULL
  /\ todo = <<>> /\ scope = <<>> /\ result = NULL /\ taken = <<>> /\ module_name = <<>>
  /\ text = [w \in Walks |-> [lines |-> <<>>, how |-> "not yet"]]

(* A visitor is made, and tree.accept calls visitAST.                      *)
visitAST(w) ==
  /\ walk = NULL
  /\ text[w].how = "not yet"
  /\ \A v \in Walks :
       /\ text[v].how = "raised" => v.by = "CppVisitor"
       /\ Rank(v) < Rank(w) => text[v].how # "not yet"
  /\ walk' = w
  /\ todo' = Visits(Contents(0))
  /\ scope' = <<>> /\ result' = NULL /\ taken' = <<>> /\ module_name' = <<>>
  /\ UNCHANGED <<file, text>>

Ends(how) ==
  /\ walk' = NULL
  /\ text' = [text EXCEPT ![walk].how = how]
  /\ UNCHANGED <<file, state>>

Whole_walk ==
  /\ walk # NULL /\ todo = <<>>
  /\ Ends("whole")

-----------------------------------------------------------------------------
Line(n, names) ==
  text' = [text EXCEPT ![walk].lines = Append(@, [node |-> n, scope |-> scope, names |-> names])]
Do(tasks) == todo' = tasks \o Tail(todo)

(* A method for declarations of these kinds is called.                     *)
Accept(kinds, n) ==
  /\ walk # NULL /\ todo # <<>>
  /\ n = Head(todo).node /\ Head(todo).do = "visit"
  /\ file[n].kind \in kinds \cap Class[walk.by].methods
  /\ UNCHANGED <<file, walk>>

(* Its text opens a brace that is closed after these.                      *)
Block(n, id, names, tasks) ==
  /\ Line(n, names)
  /\ scope' = Append(scope, id)
  /\ Do(Append(tasks, Close(n)))
  /\ UNCHANGED <<result, taken>>

(* An adaptor's source has the members every adaptor has in each module:   *)
(* add_object names module_name::interface, handle_message the interface   *)
(* alone. (A proxy's names no declaration but its own class.)              *)
CommonNames(by, module, interface) ==
  IF by = "AdapterSource" THEN <<Name(<<module, interface>>), Name(<<interface>>)>> ELSE <<>>

(* Broken variant: the former module's name is kept.                       *)
visitModule_keep(n) ==
  /\ Accept({"module"}, n)
  /\ module_name' = IF module_name = <<>> THEN <<file[n].id>> ELSE module_name
  /\ Block(n, file[n].id, CommonNames(walk.by, module_name'[1], walk.interface), Visits(Contents(n)))

(* The module's name is not restored at its end.                           *)
visitModule(n) ==
  /\ Accept({"module"}, n)
  /\ Block(n, file[n].id, CommonNames(walk.by, file[n].id, walk.interface), Visits(Contents(n)))
  /\ module_name' = <<file[n].id>>

visitInterface(n) ==
  /\ Accept({"interface"}, n)
  /\ walk.by \in Whole
  /\ Block(n, file[n].id, Scoped(file[n].names), Visits(Contents(n)))
  /\ UNCHANGED module_name

TheInterface == <<Name(module_name \o <<walk.interface>>)>>

visitClass(n) ==
  /\ Accept({"interface"}, n)
  /\ walk.by \in Classes
  /\ file[n].id = walk.interface
  /\ Block(n, ClassName, TheInterface, Visits(Contents(n)))
  /\ UNCHANGED module_name

visitMembers(n) ==
  /\ Accept({"interface"}, n)
  /\ walk.by \in Sources
  /\ file[n].id = walk.interface
  /\ Do(Visits(Contents(n)))
  /\ UNCHANGED <<scope, result, taken, module_name, text>>

(* An exception is a class which, in cxxbackend's header, derives from     *)
(* std::runtime_error and has a constructor from a std::string.            *)
Thrown == <<Name(<<"std", "runtime_error">>), Name(<<"std", "string">>)>>
Derives(by, n) == IF by = "Header" /\ file[n].kind = "exception" THEN Thrown ELSE <<>>

visitStruct(n) ==
  /\ Accept({"struct", "exception"}, n)
  /\ walk.by \in Whole
  /\ Block(n, file[n].id, Derives(walk.by, n), Visits(Contents(n)))
  /\ UNCHANGED module_name

serializeStruct(n) ==
  /\ Accept({"struct"}, n)
  /\ walk.by = "Serializer"
  /\ Line(n, <<>>)
  /\ Do(<<>>)
  /\ UNCHANGED <<scope, result, taken, module_name>>

visitEnum(n) ==
  /\ Accept({"forward", "structforward", "enum"}, n)
  /\ Line(n, <<>>)
  /\ Do(<<>>)
  /\ UNCHANGED <<scope, result, taken, module_name>>

(* A line made of types: an inline type is declared first, then each type  *)
(* is visited and its name taken. Broken variant: the other way round. But *)
(* proxy's source looks at an operation's comments before all that.        *)
BadComment(by, n) == by = "ProxySource" /\ file[n].comment = "malformed"
TypesOf(n) ==
  [j \in 1 .. 2 * Len(file[n].types) |->
     Task(IF j % 2 = 1 THEN "type" ELSE "take", n, (j + 1) \div 2)]
Inline(n) == IF file[n].inline THEN Visits(<<file[n].types[1].of>>) ELSE <<>>

visitTyped_late(n) ==
  /\ Accept(Typed, n)
  /\ walk.by # "AdapterHeader" /\ ~BadComment(walk.by, n)
  /\ Do((IF file[n].inline THEN <<TypesOf(n)[1]>> \o Inline(n) \o Tail(TypesOf(n)) ELSE TypesOf(n))
        \o <<LineOf(n)>>)
  /\ UNCHANGED <<scope, result, taken, module_name, text>>

visitTyped(n) ==
  /\ Accept(Typed, n)
  /\ walk.by # "AdapterHeader" /\ ~BadComment(walk.by, n)
  /\ Do(Inline(n) \o TypesOf(n) \o <<LineOf(n)>>)
  /\ UNCHANGED <<scope, result, taken, module_name, text>>

declareCall(n) ==
  /\ Accept({"operation"}, n)
  /\ walk.by = "AdapterHeader"
  /\ Line(n, TheInterface)
  /\ Do(<<>>)
  /\ UNCHANGED <<scope, result, taken, module_name>>

(* No method, or not the visitor's interface: the methods of the base      *)
(* class do nothing.                                                       *)
visitNothing(n) ==
  /\ walk # NULL /\ todo # <<>>
  /\ n = Head(todo).node /\ Head(todo).do = "visit"
  /\ \/ file[n].kind \notin Class[walk.by].methods
     \/ file[n].kind = "interface" /\ walk.by \notin Whole /\ file[n].id # walk.interface
  /\ Do(<<>>)
  /\ UNCHANGED <<file, walk, scope, result, taken, module_name, text>>

-----------------------------------------------------------------------------
Doing(do) == walk # NULL /\ todo # <<>> /\ Head(todo).do = do

(* What visitBaseType and its like leave in __result_type; {} if they      *)
(* raise: KeyError for what ttsMap does not have, AttributeError for a     *)
(* sequence whose elements' type has no name(). The name() of a declared   *)
(* type is without its scope. Broken variant: names are made up for both.  *)
Names_vague(by, t, before) ==
  CASE t.kind \in BasicTypes -> {Name(<<t.kind>>)}
    [] t.kind = "declared"     -> {Name(Path[t.of])}
    [] t.kind = "sequence"     -> {[vector |-> TRUE, name |-> IF t.of = 0 THEN <<"long">>
                                                          ELSE <<file[t.of].id>>]}
    [] t.kind = "string"       -> {Name(<<"std", "string">>)}
    [] t.kind = "wstring"      -> {Name(Class[by].wstring)}
    [] t.kind = "fixed"        -> {before}

Names(by, t, before) ==
  CASE t.kind \in BasicTypes -> IF t.kind \in Class[by].ttsMap THEN {Name(<<t.kind>>)} ELSE {}
    [] t.kind = "declared"     -> {Name(Path[t.of])}
    [] t.kind = "sequence"     -> IF t.of = 0 THEN {}
                              ELSE {[vector |-> TRUE, name |-> <<file[t.of].id>>]}
    [] t.kind = "string"       -> {Name(<<"std", "string">>)}
    [] t.kind = "wstring"      -> {Name(Class[by].wstring)}
    [] t.kind = "fixed"        -> {before}

TypeOf(task) == file[task.node].types[task.part]

visitType ==
  /\ Doing("type")
  /\ result' \in Names(walk.by, TypeOf(Head(todo)), result)
  /\ Do(<<>>)
  /\ UNCHANGED <<file, walk, scope, taken, module_name, text>>

TypeRaises ==
  /\ Doing("type")
  /\ Names(walk.by, TypeOf(Head(todo)), result) = {}
  /\ Ends("raised")

(* The type is read; before any was visited there is no such attribute.    *)
takeType ==
  /\ Doing("take")
  /\ result # NULL
  /\ taken' = Append(taken, result)
  /\ Do(<<>>)
  /\ UNCHANGED <<file, walk, scope, result, module_name, text>>

TakeRaises ==
  /\ Doing("take")
  /\ result = NULL
  /\ Ends("raised")

(* An exception's members read __result_declarator, which nothing sets.    *)
NeedsDeclarator(n) == file[n].kind = "member" /\ file[file[n].in].kind = "exception"

declare ==
  /\ Doing("line")
  /\ LET n == Head(todo).node IN
       /\ ~NeedsDeclarator(n)
       /\ Line(n, taken \o Scoped(file[n].names)
                        \o IF walk.by = "AdapterSource" THEN TheInterface ELSE <<>>)
  /\ taken' = <<>>
  /\ Do(<<>>)
  /\ UNCHANGED <<file, walk, scope, result, module_name>>

LineRaises ==
  /\ Doing("line")
  /\ NeedsDeclarator(Head(todo).node)
  /\ Ends("raised")

(* A comment that begins with @@ is split into two words, or ValueError.   *)
CommentRaises ==
  /\ Doing("visit")
  /\ file[Head(todo).node].kind \in Typed \cap Class[walk.by].methods
  /\ BadComment(walk.by, Head(todo).node)
  /\ Ends("raised")

closeBrace ==
  /\ Doing("close")
  /\ scope' = Front(scope)
  /\ Do(<<>>)
  /\ UNCHANGED <<file, walk, result, taken, module_name, text>>

Visit(n) ==
  \/ visitModule(n) \/ visitInterface(n) \/ visitClass(n) \/ visitMembers(n)
  \/ visitStruct(n) \/ serializeStruct(n) \/ visitEnum(n) \/ visitTyped(n) \/ declareCall(n)
  \/ visitNothing(n)

Next ==
  \/ \E w \in Walks : visitAST(w)
  \/ \E n \in DOMAIN file : Visit(n)
  \/ visitType \/ takeType \/ declare \/ closeBrace
  \/ TypeRaises \/ TakeRaises \/ LineRaises \/ CommentRaises \/ Whole_walk

Spec == Init /\ [][Next]_vars

-----------------------------------------------------------------------------
(* What the walks should print                                             *)

InKinds(n, kinds) == file[n].main /\ file[n].kind \in kinds
Members(kind, of) == {n \in DOMAIN file : InKinds(n, {kind}) /\ file[n].in \in of}

MainModules == {n \in DOMAIN file : InKinds(n, {"module"})}
Own(w) == {n \in DOMAIN file : InKinds(n, {"interface"}) /\ file[n].id = w.interface}

Printable(w) ==
  CASE w.by \in Whole      -> {n \in DOMAIN file : InKinds(n, Declarations)}
    [] w.by \in Classes    -> MainModules \cup Own(w) \cup Members("operation", Own(w))
    [] w.by \in Sources    -> MainModules \cup Members("operation", Own(w))
    [] w.by = "Serializer" ->
         MainModules \cup {n \in Members("struct", MainModules \cup {0}) : file[n].alone}

Place(w, n) ==
  LET outer == file[n].in IN
  IF w.by \notin Whole /\ outer # 0 /\ file[outer].kind = "interface"
  THEN Path[file[outer].in] \o IF w.by \in Classes THEN <<ClassName>> ELSE <<>>
  ELSE Path[outer]

Printed(w) == {text[w].lines[p].node : p \in DOMAIN text[w].lines}
TypesTaken(w, n) == IF w.by = "AdapterHeader" THEN <<>> ELSE file[n].types

(* Every walk prints, in the order of the file, exactly the declarations   *)
(* that are its to print, each within the braces of the modules and other  *)
(* declarations it is in, of the types it has in the file: none is taken   *)
(* from another declaration, however deep inline ones are nested. Only a   *)
(* fixed type gets the name of whatever type was visited before it, and a  *)
(* struct in an interface or in a struct has no serializer.                *)
TextsFaithful ==
  /\ TypeOK
  /\ \A w \in Walks : LET ls == text[w].lines IN
       /\ \A p, q \in DOMAIN ls : p < q => ls[p].node < ls[q].node
       /\ Printed(w) \subseteq Printable(w)
       /\ text[w].how = "whole" => Printed(w) = Printable(w)
       /\ \A p \in DOMAIN ls : LET n == ls[p].node IN
            /\ ls[p].scope = Place(w, n)
            /\ \A k \in DOMAIN TypesTaken(w, n) :
                 file[n].types[k].kind # "fixed"
                   => Names(w.by, file[n].types[k], NULL) = {ls[p].names[k]}

(* Why a visitor raises at a declaration.                                  *)
Unnamed(w, n, k) ==
  LET t == file[n].types[k] IN
  \/ t.kind = "sequence" /\ t.of = 0
  \/ t.kind \in BasicTypes \ Class[w.by].ttsMap
  \/ t.kind = "fixed" /\ k = 1 /\ \A m \in Printable(w) : m < n => TypesTaken(w, m) = <<>>
Causes(w) ==
  {n \in Printable(w) : \/ NeedsDeclarator(n) \/ BadComment(w.by, n)
                         \/ \E k \in DOMAIN TypesTaken(w, n) : Unnamed(w, n, k)}

(* A walk raises if and only if it has to print a sequence of a type that  *)
(* is not declared, a basic type ttsMap lacks, a fixed type before any     *)
(* other, a member of an exception, or, a proxy's source, an operation     *)
(* with a malformed comment; and then its text has everything before that  *)
(* declaration and nothing after it.                                       *)
RaiseHasCause ==
  \A w \in Walks :
    /\ text[w].how = "whole" => Causes(w) = {}
    /\ text[w].how = "raised" =>
         /\ Causes(w) # {}
         /\ Printed(w) = {n \in Printable(w) : n < Min(Causes(w))}

-----------------------------------------------------------------------------
(* C++ finds a name's first part in the innermost open scope that declares *)
(* it, and the rest in there. What is not a type or a namespace hides a    *)
(* name that stands alone and is passed over before "::". The class of an  *)
(* adaptor or a proxy and the members have the whole header before them;   *)
(* a class is known in the list of its bases.                              *)
TypeKinds == Declarations \ Values
Known(w, n, kinds) ==
  {Path[m] : m \in {k \in DOMAIN file :
     /\ file[k].kind \in kinds
     /\ w.by \in Whole => k < n \/ (k = n /\ file[n].kind = "interface")}}
Stops(name) == IF Len(name) = 1 THEN TypeKinds \cup Values ELSE TypeKinds

Enclosing(place, k) == SubSeq(place, 1, k)
Found(stops, known, place, name) ==
  LET ks == {k \in 0 .. Len(place) : Append(Enclosing(place, k), name[1]) \in stops}
  IN {Enclosing(place, k) \o name : k \in IF ks = {} THEN {} ELSE {Max(ks)}} \cap known

(* Classes also have what their bases have, and their bases' own names; a  *)
(* proxy has its interface as base. And "::" goes through a typedef. A     *)
(* lookup is direct if neither can have a part in it.                      *)
Bases(w) ==
  IF w.by \in {"AdapterHeader", "AdapterSource"} THEN {}
  ELSE UNION {ToSet(file[n].names) : n \in {m \in DOMAIN file : file[m].kind = "interface"}}
         \cup IF w.by \in {"ProxyHeader", "ProxySource"} THEN Own(w) ELSE {}
Direct(w, name) ==
  /\ \A b \in Bases(w) : /\ file[b].id # name[1]
                         /\ \A m \in DOMAIN file : Path[m] # Append(Path[b], name[1])
  /\ Len(name) > 1 => \A m \in DOMAIN file : file[m].kind = "typedef" => file[m].id # name[1]

(* The declarations that a line's names are meant for, 0 for none. In a    *)
(* module without the interface an adaptor's source means none: its class  *)
(* is not declared there either (MembersDeclared in IdlBackend).           *)
Inhabitant(w, n) ==
  LET ds == {m \in DOMAIN file : file[m].kind = "interface" /\ Path[m] = Append(Path[n], w.interface)}
  IN IF ds = {} THEN 0 ELSE Min(ds)
Meant(w, n) ==
  LET types == [k \in DOMAIN TypesTaken(w, n) |->
                  IF file[n].types[k].kind \in {"declared", "sequence"} THEN file[n].types[k].of ELSE 0]
  IN CASE file[n].kind = "module" /\ w.by = "AdapterSource" -> <<Inhabitant(w, n), Inhabitant(w, n)>>
       [] file[n].kind = "interface" /\ w.by \notin Whole -> <<n>>
       [] w.by = "AdapterHeader" /\ file[n].kind = "operation" -> <<file[n].in>>
       [] w.by = "AdapterSource" /\ file[n].kind = "operation" ->
            types \o file[n].names \o <<file[n].in>>
       [] OTHER -> types \o file[n].names

OfInterface(w, n, k) ==
  /\ w.by \notin Whole
  /\ \/ file[n].kind = "interface"
     \/ /\ file[n].kind = "operation" /\ w.by \in {"AdapterHeader", "AdapterSource"}
        /\ k = Len(Meant(w, n))

LastModule(n) ==
  LET ms == {m \in 1 .. n - 1 : InKinds(m, {"module"})}
  IN IF ms = {} THEN <<>> ELSE <<file[Max(ms)].id>>
OwnModule(n) == IF file[n].in = 0 THEN <<>> ELSE <<file[file[n].in].id>>

(* When a name should be found: a declaration's whole name, if nothing     *)
(* nearer is called as its outermost module; the bare name of a sequence's *)
(* element, if it is declared around the place and nothing nearer is       *)
(* called the same; an interface's, if no module lies between its own and  *)
(* it; and in its module's common members always.                          *)
ShouldBeFound(w, n, k) ==
  LET d == Meant(w, n)[k]
      place == Place(w, n)
      Nearer(j, name) == \E i \in j + 1 .. Len(place) :
        Append(Enclosing(place, i), name[1]) \in Known(w, n, Stops(name))
  IN CASE file[n].kind = "module" -> TRUE
       [] OfInterface(w, n, k) -> LastModule(d) = OwnModule(d)
       [] k <= Len(TypesTaken(w, n)) /\ file[n].types[k].kind = "sequence" ->
            /\ file[d].kind # "union"
            /\ IsPrefix(Path[file[d].in], place)
            /\ ~Nearer(Len(Path[file[d].in]), <<file[d].id>>)
       [] OTHER -> file[d].kind # "union" /\ ~Nearer(0, Path[d])

(* Whatever a line names, if the lookup is direct, C++ finds there and     *)
(* then the declaration that the IDL file means if ShouldBeFound; in the   *)
(* other cases it finds none, or another. (A module's names are within its *)
(* braces.)                                                                *)
NamesResolve ==
  \A w \in Walks : \A p \in DOMAIN text[w].lines :
    LET l == text[w].lines[p]
        n == l.node
        place == IF file[n].kind = "module" THEN Append(l.scope, file[n].id) ELSE l.scope IN
    \A k \in DOMAIN Meant(w, n) :
      LET name == l.names[k].name IN
      Meant(w, n)[k] # 0 /\ Direct(w, name) =>
        (Found(Known(w, n, Stops(name)), Known(w, n, TypeKinds), place, name) = {Path[Meant(w, n)[k]]}
           <=> ShouldBeFound(w, n, k))

-----------------------------------------------------------------------------
(* The standard headers the back ends include: tools.Aggregator does not   *)
(* look at the members of structs, cppbackend's aggregator not at          *)
(* operations; neither looks at attributes, constants and inline types.    *)
Std(t) == CASE t.kind = "sequence" -> {"vector"}
            [] t.kind \in {"string", "wstring"} -> {t.kind}
            [] OTHER -> {}
StdOf(ns) == UNION {UNION {Std(file[n].types[k]) : k \in DOMAIN file[n].types} : n \in ns}
Seen(kinds) ==
  {n \in DOMAIN file : file[n].kind \in kinds /\ (file[n].kind = "member" =>
                         file[file[n].in].kind = "struct" /\ file[file[n].in].alone)}

Aggregator == StdOf(Seen({"typedef", "operation"})) \cup {"stdexcept"}
HeadersAggregator == StdOf(Seen({"typedef", "member"}))

StdNamed(name) ==
  IF name.vector THEN {"vector"} ELSE IF name.name[1] = "std" THEN {name.name[2]} ELSE {}

(* A header includes what its typedefs name, and cppbackend's what members *)
(* of structs, cxxbackend's what operations do.                            *)
IncludesCover(by, covered, included) ==
  \A p \in DOMAIN text[by].lines : LET l == text[by].lines[p] IN
    l.node \in Seen(covered) =>
      \A k \in DOMAIN file[l.node].types :
        file[l.node].types[k].kind \notin {"declared", "fixed"} => StdNamed(l.names[k]) \subseteq included

Modern(line) ==
  [line EXCEPT !.names =
     IF file[line.node].kind = "exception" THEN Thrown
     ELSE [k \in DOMAIN @ |-> IF @[k].name = <<"std:wstring">> THEN Name(<<"std", "wstring">>) ELSE @[k]]]

(* cxxbackend's header says what the former back end's said: both raise at *)
(* the same declaration (but for TypeCode) and print the same lines, apart *)
(* from the misspelt std::wstring, and from exceptions: those have become  *)
(* classes with a base and a constructor. Each includes what the parts of  *)
(* it name that its aggregator looks at.                                   *)
PortKeepsHeader ==
  LET former == [by |-> "CppVisitor", interface |-> NULL]
      new == [by |-> "Header", interface |-> NULL]
      both == text[former].how # "not yet" /\ text[new].how # "not yet"
  IN /\ IncludesCover(former, {"typedef", "member"}, HeadersAggregator)
     /\ IncludesCover(new, {"typedef", "operation"}, Aggregator)
     /\ both =>
          IsPrefix(text[new].lines, [p \in DOMAIN text[former].lines |-> Modern(text[former].lines[p])])
     /\ both /\ (\A n \in DOMAIN file : \A k \in DOMAIN file[n].types :
                   file[n].types[k].kind # "TypeCode") =>
          /\ text[former].how = text[new].how
          /\ Len(text[former].lines) = Len(text[new].lines)

=============================================================================
