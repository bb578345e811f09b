---------------------------- MODULE MCIdlBackend ----------------------------
(* Directories for TLC: one interface with each kind of operation; files   *)
(* that include each other, share names or hold several modules; the IDL   *)
(* files of the repository's examples.                                     *)
EXTENDS IdlBackend

Op(id, result, params, comment) ==
  [id |-> id, result |-> result, params |-> params, comment |-> comment]
File(pragma, heads, includes, modules) ==
  [pragma |-> pragma, heads |-> heads, raises |-> FALSE, includes |-> includes, modules |-> modules]
Raising(file) == [file EXCEPT !.raises = TRUE]
Module(id, structs, interfaces) ==
  [id |-> id, structs |-> structs, compiles |-> TRUE, interfaces |-> interfaces]
Declaring(m) == [m EXCEPT !.compiles = FALSE]
Interface(inherits, ops) == [inherits |-> inherits, ops |-> ops]

Param == [mode : {"in", "out", "inout"},
          type : {"long", "struct", "boolean", "float", "inner struct", "wstring", "interface"}]
First == {Op("first", r, p, "none") : r \in {"void", "long", "string"},
                                      p \in {<<>>} \cup {<<q>> : q \in Param}}
           \cup {Op("first", r, <<>>, "none") : r \in IdlTypes}
           \cup {Op("first", "void", <<>>, c) : c \in {"timeout", "malformed"}}
Second == Op("second", "long", <<[mode |-> "in", type |-> "string"],
                                 [mode |-> "out", type |-> "string"]>>, "none")

OneInterface ==
  {"timer" :> File(p, {"timer"}, {}, <<Module("m", TRUE, "timer" :> Interface({}, <<op, Second>>))>>) :
     p \in {"fine", "malformed"}, op \in First}
  \cup {"timer" :> File("fine", {}, {}, <<Declaring(Module("m", s, "timer" :> Interface({}, <<Second>>)))>>) :
         s \in BOOLEAN}

(* The second may be the first again, with nothing declared twice.         *)
SeveralModules ==
  {"timer" :> File("fine", {"timer"}, {}, <<Module("m", FALSE, a), Module("n", s, b)>>) :
     s \in BOOLEAN,
     a \in {"timer" :> Interface({}, <<Second>>), "monitor" :> Interface({}, <<Second>>)},
     b \in {"timer" :> Interface({}, <<Op("first", "void", <<>>, "none")>>),
            "timer" :> Interface({}, <<Second>>), <<>>}}
  \cup {"timer" :> File("fine", {"timer"}, {}, <<Module("m", FALSE, a), Module("m", s, <<>>)>>) :
          s \in BOOLEAN, a \in {"timer" :> Interface({}, o) : o \in {<<>>, <<Second>>}}}

Timer(s) == File("fine", {"timer"}, {}, <<Module("m", s, "timer" :> Interface({}, <<Second>>))>>)
Timers == UNION {{Timer(s), Raising(Timer(s)), [Timer(s) EXCEPT !.pragma = "malformed"]} : s \in BOOLEAN}

(* Apart from including timer.idl or not; what cannot be an IDL file, with *)
(* a base it does not see or a name declared twice, is left out.           *)
Alone ==
  {"monitor" :> Interface({}, <<Second>>),
   "observer" :> Interface({}, <<Second>>),
   "timer" :> Interface({}, <<Second>>),
   "monitor" :> Interface({}, <<Second>>) @@ "observer" :> Interface({}, <<>>)}
Including ==
  {"monitor" :> Interface({}, <<Second>>),
   "monitor" :> Interface({"timer"}, <<Op("first", "void", <<>>, "malformed")>>),
   "monitor" :> Interface({"timer"}, <<>>) @@ "observer" :> Interface({"monitor"}, <<>>)}

TwoFiles ==
  {"timer" :> t @@ "monitor" :> File("fine", {"monitor"}, {}, <<Module("m", s, a)>>) :
     t \in Timers, s \in BOOLEAN, a \in Alone}
  \cup {"timer" :> t @@ "monitor" :> File("fine", h, {"timer"}, <<Module("m", s, a)>>) :
         h \in {{"timer"}, {"monitor"}}, t \in Timers, s \in BOOLEAN, a \in Including}

(* test/01-basic-scenario, 03-exceptions and 05-struct-passing (the file   *)
(* database.idl is called timer here): the examples that are built.        *)
In(type) == [mode |-> "in", type |-> type]
Examples ==
  {"timer" :> File("fine", {"timer"}, {}, <<Module("dboost_test", FALSE, "timer" :> Interface({},
      <<Op("add_timer", "long", <<In("long")>>, "none"),
        Op("remove_timer", "void", <<In("long")>>, "timeout")>>))>>),
   "timer" :> File("fine", {"timer"}, {}, <<Module("dboost_test", TRUE, "timer" :> Interface({},
      <<Op("add_person", "long", <<In("struct")>>, "none"),
        Op("find_person_by_id", "struct", <<In("long")>>, "none"),
        Op("find_by_family", "struct", <<In("string")>>, "none")>>))>>)}

MCDirectories == OneInterface \cup SeveralModules \cup TwoFiles \cup Examples

=============================================================================
