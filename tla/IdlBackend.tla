----------------------------- MODULE IdlBackend -----------------------------
(***************************************************************************)
(* buildtools/idl/backends/cxxbackend: omniidl runs it once for every IDL  *)
(* file of a directory, and make may run several at a time. Each run       *)
(* writes a header, and for each interface it sees an adaptor and a proxy, *)
(* all into one directory. A file is opened (and emptied) first and gets   *)
(* its text when the visitor has walked the tree - or as much of it as     *)
(* there is when the visitor raises, which ends the run.                   *)
(***************************************************************************)
EXTENDS Naturals, Sequences, SequencesExt

CONSTANTS
  Directories,   (* the directories of IDL files to look at                *)
  Names,         (* names of IDL files and interfaces                      *)
  NULL

(* An IDL file: its pragmas ("fine" or "malformed": not two words), the    *)
(* files, itself and included ones, whose pragmas stand before the first   *)
(* declaration of its tree, whether it declares what header's visitor      *)
(* raises at (Causes in IdlVisitors), the files it includes, its modules.  *)
(* A module: its id, whether structs are declared in it, whether C++ takes *)
(* what the header has of its declarations (but for operations: an         *)
(* attribute, or a member whose type is not Carried, is not taken), its    *)
(* interfaces. An interface: what it inherits, its operations. An          *)
(* operation: result, parameters, and the comment it has ("none",          *)
(* "timeout", "malformed": "@@" and not two words). omniidl lets a module  *)
(* be reopened, but not declare the same interface again, and no two       *)
(* operations of an interface have the same name. Left out are modules in  *)
(* modules, and names that C++ or the generated classes use themselves.    *)
ASSUME IdlAssumption ==
  \A d \in Directories : DOMAIN d \subseteq Names /\ \A f \in DOMAIN d :
    /\ d[f].pragma \in {"fine", "malformed"} /\ d[f].raises \in BOOLEAN
    /\ d[f].heads \subseteq DOMAIN d
    /\ d[f].includes \subseteq DOMAIN d \ {f}
    /\ d[f].modules \in Seq(ToSet(d[f].modules))
    /\ \A j, k \in DOMAIN d[f].modules : LET m == d[f].modules[j] n == d[f].modules[k] IN
         j # k /\ m.id = n.id => DOMAIN m.interfaces \cap DOMAIN n.interfaces = {}
    /\ \A m \in ToSet(d[f].modules) :
         /\ DOMAIN m.interfaces \subseteq Names
         /\ \A i \in DOMAIN m.interfaces :
              LET ops == m.interfaces[i].ops
              IN  ops \in Seq(ToSet(ops)) /\ \A j, k \in DOMAIN ops : ops[j].id = ops[k].id => j = k

(* The types that come out as names of C++ types and can be serialised:    *)
(* they have an id in type_traits.h (where int64_t is long) or, structs of *)
(* a module with such members, a serialize(); a "vector" is a typedef of a *)
(* sequence of such structs, and other typedefs are as what they stand     *)
(* for. The rest are boolean, any and wchar, whose names in ttsMap are not *)
(* C++'s; char, float, long long, unsigned long long, long double and      *)
(* enums, without an id; structs that an interface declares, and unions,   *)
(* without a serialize(); wstring, "std:wstring" in proxy's header; and    *)
(* interfaces, abstract classes without objects.                           *)
NotCxx == {"boolean", "any", "wchar"}
Unserialised == {"char", "float", "long long", "unsigned long long", "long double", "enum",
                 "inner struct", "union"}
Abstract == {"interface"}
Carried == {"short", "unsigned short", "long", "unsigned long", "octet", "double", "string",
            "struct", "vector"}
IdlTypes == Carried \cup NotCxx \cup Unserialised \cup Abstract \cup {"wstring"}

VARIABLES
  dir,       (* the directory of IDL files                                 *)
  pending,   (* per IDL file: the outputs not yet opened                   *)
  open,      (* per IDL file: the output being written                     *)
  text,      (* per output: NULL, or the set of texts that are in it       *)
  aborted    (* IDL files whose run raised                                 *)

vars == <<dir, pending, open, text, aborted>>

Kinds == <<"hpp", "adaptor.hpp", "adaptor.cpp", "proxy.hpp", "proxy.cpp", "util.hpp">>
Outputs == Names \X ToSet(Kinds)
PerInterface == {"adaptor.hpp", "adaptor.cpp", "proxy.hpp", "proxy.cpp"}
Texts == [by : Names, whole : BOOLEAN]

ASSUME NullAssumption == NULL \notin Outputs /\ \A T \in SUBSET Texts : NULL # T

TypeOK ==
  /\ dir \in Directories
  /\ pending \in [DOMAIN dir -> SUBSET Outputs]
  /\ open \in [DOMAIN dir -> Outputs \cup {NULL}]
  /\ text \in [Outputs -> {NULL} \cup SUBSET [by : DOMAIN dir, whole : BOOLEAN]]
  /\ aborted \subseteq DOMAIN dir

-----------------------------------------------------------------------------
(* What omniidl hands to the visitors.                                     *)
Modules(f) == ToSet(dir[f].modules)
Declared(f) == UNION {DOMAIN m.interfaces : m \in Modules(f)}
OpsIn(m, i) == IF i \in DOMAIN m.interfaces THEN m.interfaces[i].ops ELSE <<>>
Operations(f) == UNION {ToSet(OpsIn(m, i)) : m \in Modules(f), i \in Names}

(* The declarations of a tree include those of all included files.         *)
Visible(f) ==
  {g \in DOMAIN dir : \A S \in SUBSET DOMAIN dir :
     (f \in S /\ \A h \in S : dir[h].includes \subseteq S) => g \in S}

(* tools.Aggregator: it does not tell the main file from included ones.    *)
Interfaces(f) == UNION {Declared(g) : g \in Visible(f)}
HasStructs(f) == \E g \in Visible(f) : \E m \in Modules(g) : m.structs

(* The outputs of a run, and the order of their kinds. Broken variants:    *)
(* the names made from the file's name; serializer's run forgotten.        *)
Generated_by_file(f) ==
  {<<f, "hpp">>} \cup ({f} \X PerInterface)
                 \cup (IF HasStructs(f) THEN {<<f, "util.hpp">>} ELSE {})

Generated_no_util(f) == {<<f, "hpp">>} \cup (Interfaces(f) \X PerInterface)

Generated(f) ==
  {<<f, "hpp">>} \cup (Interfaces(f) \X PerInterface)
                 \cup (IF HasStructs(f) THEN {<<f, "util.hpp">>} ELSE {})
Stage(o) == CHOOSE k \in DOMAIN Kinds : Kinds[k] = o[2]

(* Where a visitor raises: what it cannot print is met first by header's;  *)
(* a comment that cannot be split is met by proxy's source. Broken         *)
(* variant: header's visitor enters included files as well.                *)
RaisesAt_included(f, o) == o[2] = "hpp" /\ \E g \in Visible(f) : dir[g].raises

RaisesAt(f, o) ==
  \/ o[2] = "hpp" /\ dir[f].raises
  \/ o[2] = "proxy.cpp" /\ \E m \in Modules(f) : \E op \in ToSet(OpsIn(m, o[1])) : op.comment = "malformed"

Init ==
  /\ dir \in Directories
  /\ pending = [f \in DOMAIN dir |-> Generated(f)]
  /\ open = [f \in DOMAIN dir |-> NULL]
  /\ text = [o \in Outputs |-> NULL]
  /\ aborted = {}

(* Aggregator.visitAST raises at a pragma that is not two words, whichever *)
(* file it comes from.                                                     *)
BadPragma(f) == \E g \in dir[f].heads : dir[g].pragma = "malformed"

SplitFails(f) ==
  /\ f \notin aborted
  /\ BadPragma(f)
  /\ aborted' = aborted \cup {f}
  /\ UNCHANGED <<dir, pending, open, text>>

Open(f, o) ==
  /\ f \notin aborted
  /\ ~BadPragma(f)
  /\ open[f] = NULL
  /\ o \in pending[f]
  /\ \A q \in pending[f] : Stage(o) <= Stage(q)
  /\ pending' = [pending EXCEPT ![f] = @ \ {o}]
  /\ open' = [open EXCEPT ![f] = o]
  /\ text' = [text EXCEPT ![o] = {}]
  /\ UNCHANGED <<dir, aborted>>

(* The visitor ends, or raises; either way the file is flushed and closed. *)
Close(f) ==
  /\ f \notin aborted
  /\ open[f] # NULL
  /\ text' = [text EXCEPT ![open[f]] = @ \cup {[by |-> f, whole |-> ~RaisesAt(f, open[f])]}]
  /\ open' = [open EXCEPT ![f] = NULL]
  /\ aborted' = IF RaisesAt(f, open[f]) THEN aborted \cup {f} ELSE aborted
  /\ UNCHANGED <<dir, pending>>

Next == \E f \in DOMAIN dir :
          SplitFails(f) \/ Close(f) \/ \E o \in Outputs : Open(f, o)

Spec == Init /\ [][Next]_vars

-----------------------------------------------------------------------------
(* What the texts say. A visitor only enters declarations of the main file *)
(* and, but for the header, only the interface it was made for; but a      *)
(* source has the members every class has once per module, also if a       *)
(* module is reopened.                                                     *)
DeclaredClasses(f, i) == {m.id : m \in {n \in Modules(f) : i \in DOMAIN n.interfaces}}
SourceClasses(f) == {m.id : m \in Modules(f)}

(* handle_message's vtbl in the n-th module: operations collects the names *)
(* over all modules walked so far; each entry calls the member of the      *)
(* class in this module. Broken variant: those of the first module only.   *)
Ids(ops) == [k \in DOMAIN ops |-> ops[k].id]
Vtbl_first(f, i, n) == Ids(OpsIn(dir[f].modules[1], i))

Vtbl(f, i, n) == FlattenSeq([k \in 1 .. n |-> Ids(OpsIn(dir[f].modules[k], i))])

(* A message's arguments as each side's source has them: a call carries    *)
(* all parameters, also those that are only out; a reply carries the       *)
(* result and what is_out.                                                 *)
Types(params) == [k \in DOMAIN params |-> params[k].type]
Outs(op) == SelectSeq(op.params, LAMBDA p : p.mode # "in")
Result(op) == IF op.result = "void" THEN <<>> ELSE <<op.result>>

ProxySends(op) == Types(op.params)
AdaptorReads(op) == Types(op.params)
AdaptorReplies(op) == Result(op) \o Types(Outs(op))
ProxyReads(op) == Result(op) \o Types(Outs(op))

(* What makes the C++ compiler refuse an operation: a type with a name     *)
(* that C++ does not know, no serialize() for it, a variable of an         *)
(* abstract class, "std:wstring" in proxy's header, and "void r;" in       *)
(* proxy's source.                                                         *)
TypesOf(op) == ({op.result} \ {"void"}) \cup {p.type : p \in ToSet(op.params)}
Refused(op) ==
  \/ ~(TypesOf(op) \subseteq Carried)
  \/ op.result = "void" /\ Outs(op) # <<>>

(* Operations that an interface has from its bases: the header's classes   *)
(* inherit them as pure virtual functions, no proxy implements them.       *)
Bases(f, i) == UNION {m.interfaces[i].inherits :
                        m \in {n \in UNION {Modules(g) : g \in Visible(f)} : i \in DOMAIN n.interfaces}}
Ancestors(f, i) ==
  {a \in Names : \A S \in SUBSET Names :
     (Bases(f, i) \subseteq S /\ \A b \in S : Bases(f, b) \subseteq S) => a \in S}
Inherited(f, i) ==
  UNION {ToSet(OpsIn(m, a)) : m \in UNION {Modules(g) : g \in Visible(f)}, a \in Ancestors(f, i)}

WrittenBy(o, f) == text[o] = {[by |-> f, whole |-> TRUE]}

(* Every name that the generated files of an interface include stands for  *)
(* a generated file: <interface>.hpp, which must declare the interface,    *)
(* and <interface>_util.hpp. What a header includes for included IDL files *)
(* keeps their directory, and no output is written there.                  *)
IncludesFound(f, i) ==
  /\ dir[f].includes = {}
  /\ \E g \in DOMAIN dir : /\ WrittenBy(<<i, "hpp">>, g)
                           /\ DeclaredClasses(f, i) \subseteq DeclaredClasses(g, i)
  /\ HasStructs(f) => text[<<i, "util.hpp">>] # NULL

ModulesDiffer(f) ==
  \A j, k \in DOMAIN dir[f].modules : dir[f].modules[j].id = dir[f].modules[k].id => j = k

MembersDeclared(f, i) ==
  /\ SourceClasses(f) = DeclaredClasses(f, i) /\ ModulesDiffer(f)
  /\ \A n \in DOMAIN dir[f].modules :
       ToSet(Vtbl(f, i, n)) = ToSet(Ids(OpsIn(dir[f].modules[n], i)))

(* The generated adaptor and proxy of an interface can be compiled, and    *)
(* objects of the proxy's class made.                                      *)
Usable(f, i) ==
  /\ IncludesFound(f, i) /\ MembersDeclared(f, i)
  /\ Inherited(f, i) = {}
  /\ \A m \in Modules(f) : m.compiles
  /\ \A m \in Modules(f) : \A op \in ToSet(OpsIn(m, i)) : ~Refused(op)

-----------------------------------------------------------------------------
Ended(f) == f \in aborted \/ (pending[f] = {} /\ open[f] = NULL)
AllEnded == \A f \in DOMAIN dir : Ended(f)
Completed(f) == Ended(f) /\ f \notin aborted

(* Runs do not disturb each other, whatever their order and overlap,       *)
(* unless one sees an interface that the other declares: it then writes    *)
(* hollow files of the same names, which may replace or spoil the others.  *)
OutputsKept ==
  AllEnded => \A f \in DOMAIN dir : Completed(f) =>
    \A i \in Declared(f) : (\A g \in DOMAIN dir \ {f} : i \notin Interfaces(g)) =>
      \A k \in PerInterface : WrittenBy(<<i, k>>, f)

(* What IDL the back end supports: a file without includes that declares   *)
(* one interface, named as the file and without inherited operations or    *)
(* attributes, of carried types and without out parameters where there is  *)
(* no result, in one module - or in several which all declare it, each     *)
(* with the operations of the one before. That comes out usable, and       *)
(* nothing else.                                                           *)
Supported(f, i) ==
  /\ dir[f].includes = {} /\ i = f /\ Inherited(f, i) = {}
  /\ \A m \in Modules(f) : m.compiles
  /\ \A op \in Operations(f) : ~Refused(op)
  /\ \A n \in DOMAIN dir[f].modules :
       /\ i \in DOMAIN dir[f].modules[n].interfaces
       /\ n > 1 => ToSet(Ids(OpsIn(dir[f].modules[n - 1], i)))
                     \subseteq ToSet(Ids(OpsIn(dir[f].modules[n], i)))

UsableIffSupported ==
  AllEnded => \A f \in DOMAIN dir : Completed(f) =>
    \A i \in Declared(f) :
      (Declared(f) = {i} /\ \A g \in DOMAIN dir \ {f} : i \notin Declared(g))
        => (Usable(f, i) <=> Supported(f, i))

(* In whatever the runs leave, a proxy and the adaptor beside it agree:    *)
(* each operation the proxy offers is in the vtbl - once, if there is one  *)
(* module - and both sides order arguments and results alike.              *)
WireAgrees ==
  \A f \in DOMAIN dir : \A i \in Declared(f) :
    (WrittenBy(<<i, "adaptor.cpp">>, f) /\ WrittenBy(<<i, "proxy.cpp">>, f)) =>
      \A n \in DOMAIN dir[f].modules : \A op \in ToSet(OpsIn(dir[f].modules[n], i)) :
        LET entries == {k \in DOMAIN Vtbl(f, i, n) : Vtbl(f, i, n)[k] = op.id} IN
          /\ entries # {}
          /\ Len(dir[f].modules) = 1 => \E k \in entries : entries = {k}
          /\ ProxySends(op) = AdaptorReads(op)
          /\ AdaptorReplies(op) = ProxyReads(op)

(* A run ends early only for a declaration or comment of its own file, or  *)
(* for a pragma at the head of its tree, which may be an included file's;  *)
(* then no output after the one it raised in is its own.                   *)
AbortHasCause ==
  \A f \in aborted :
    /\ \/ BadPragma(f)
       \/ dir[f].raises
       \/ \E op \in Operations(f) : op.comment = "malformed"
    /\ \A o \in pending[f] : text[o] = NULL \/ \A t \in text[o] : t.by # f

(* A text cut short is the work of a run that ended with an error, so make *)
(* has reported it; an interface's adaptor is never the part that is cut,  *)
(* as the header's visitor meets every such declaration before.            *)
CutShort ==
  \A o \in Outputs : text[o] # NULL =>
    \A t \in text[o] : ~t.whole => t.by \in aborted /\ o[2] \in {"hpp", "proxy.cpp"}

(* How runs end, and what failed ones leave.                               *)
FailuresContained == TypeOK /\ AbortHasCause /\ CutShort

=============================================================================
