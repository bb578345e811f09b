--------------------------- MODULE MCIdlVisitors ---------------------------
(* IDL files for TLC. The first declarations are those of an included      *)
(* file, unless there is none.                                             *)
EXTENDS IdlVisitors

Plain(kind) == [kind |-> kind, of |-> 0]
Declared(n) == [kind |-> "declared", of |-> n]
Sequence(n) == [kind |-> "sequence", of |-> n]

Decl(kind, id, in, types) ==
  [kind |-> kind, id |-> id, in |-> in, types |-> types, names |-> <<>>,
   main |-> TRUE, inline |-> FALSE, alone |-> TRUE, comment |-> "fine"]
Naming(d, ns) == [d EXCEPT !.names = ns]
Inner(d) == [d EXCEPT !.alone = FALSE]
Having(d) == [d EXCEPT !.inline = TRUE]
Included(ds) == [k \in DOMAIN ds |-> [ds[k] EXCEPT !.main = FALSE]]

Long == Plain("long")
Constant == {Long, Plain("string"), Plain("wstring"), Plain("fixed")}
Parameter(n) == {Plain("TypeCode"), Plain("wstring"), Declared(n)}
Types(n) == Constant \cup Parameter(n) \cup {Sequence(n), Sequence(0)}

(* Two structs, maybe of one name or called as a module, and a declaration *)
(* of each kind and type in each place from where the first can be named.  *)
Structs ==
  <<Decl("module", "a", 0, <<>>), Decl("struct", "S", 1, <<>>), Decl("member", "x", 2, <<Long>>)>>
Second(in, s) == <<Decl("module", "b", in, <<>>), Decl("struct", s, 4, <<>>),
                   Decl("member", "x", 5, <<Plain("string")>>)>>
Again == <<Decl("module", "a", 0, <<>>)>>

Thing(in, n, t) ==
  {<<Decl("typedef", "thing", in, <<t>>)>>,
   <<Decl("struct", "thing", in, <<>>), Decl("member", "m", n, <<t>>)>>,
   <<Decl("exception", "thing", in, <<>>), Decl("member", "m", n, <<t>>)>>}
  \cup (IF t \notin Constant THEN {} ELSE {<<Decl("const", "thing", in, <<t>>)>>})
  \cup (IF t \notin Parameter(2) THEN {} ELSE
         {<<Decl("interface", "timer", in, <<>>), Decl("attribute", "now", n, <<t>>),
            Decl("operation", "op", n, <<Plain("void"), t>>)>>})
Places ==
  {Structs \o Second(1, "T") \o thing : thing \in UNION {Thing(1, 7, t) : t \in Types(2)}}
  \cup
  UNION {{Structs \o Second(inner, s) \o thing : thing \in Thing(4, 7, t)}
           \cup {Structs \o Second(0, s) \o Again \o thing : thing \in Thing(7, 8, t)} :
           inner \in {0, 1}, s \in {"S", "T", "a"}, t \in {Declared(2), Sequence(2)}}

(* Types declared where they are used, up to two deep, and empty texts.    *)
Inlines ==
  {<<Decl("module", "a", 0, <<>>), Decl("struct", "S", 1, <<>>),
     Inner(Decl(kind, "T", 2, <<>>)), Having(Decl("member", "t", 2, <<Declared(3)>>)),
     Decl("member", "u", 2, <<u>>), Decl("typedef", "V", 1, <<Declared(2)>>)>> :
     kind \in {"struct", "enum", "union"}, u \in {Declared(3), Sequence(3), Plain("fixed")}}
  \cup
  {<<Decl("module", "a", 0, <<>>), Inner(Decl("struct", "S", 1, <<>>)),
     Inner(Decl("struct", "T", 2, <<>>)), Decl("member", "x", 3, <<x>>),
     Having(Decl("member", "t", 2, <<Declared(3)>>)),
     Having(Decl("typedef", "V", 1, <<Declared(2)>>))>> : x \in Types(2)}
  \cup
  {<<Decl("typedef", "f", 0, <<Plain("fixed")>>)>>, <<Decl("union", "u", 0, <<>>)>>, <<>>,
   <<Decl("exception", "e", 0, <<>>), Inner(Decl("struct", "T", 1, <<>>)),
     Having(Decl("member", "m", 1, <<Declared(2)>>))>>}

(* Modules before, after and around interfaces of one or several names.    *)
Operation(in, e) == Naming(Decl("operation", "op", in, <<Long, Plain("wstring")>>), e)
Modules ==
  {f \in {<<Decl("module", "a", 0, <<>>), Decl("exception", "e", 1, <<>>),
            Decl("module", "b", inner, <<>>), Decl("interface", "timer", 3, <<>>),
            Operation(4, <<2>>),
            Decl("module", third[1], third[2], <<>>),
            Naming(Decl("interface", last[1], last[2], <<>>), base), Operation(7, <<>>)>> :
            inner \in {0, 1},
            third \in {<<"b", 0>>, <<"c", 3>>, <<"c", 1>>, <<"c", 0>>, <<"a", 3>>, <<"a", 0>>},
            last \in {<<"monitor", 0>>, <<"monitor", 1>>, <<"monitor", 3>>, <<"monitor", 6>>,
                      <<"timer", 6>>},
            base \in {<<>>, <<4>>}} :
     IsFile(f) /\ (f[3].in = 1 \/ f[6].id # "b" \/ f[7].id # "timer")}
  \cup
  {Included(<<Decl("module", "a", 0, <<>>), Decl("interface", "timer", 1, <<>>), Operation(2, <<>>),
              Decl("struct", "S", 1, <<>>)>>)
   \o <<Decl("module", "a", 0, <<>>), Decl("forward", "monitor", 5, <<>>),
        Decl("structforward", "T", 5, <<>>), Decl("interface", "monitor", 5, <<>>),
        Decl("struct", "in_interface", 8, <<>>), Decl("member", "m", 9, <<t>>),
        Decl("operation", "op", 8, <<Declared(2), Long>>)>> : t \in Types(4)}

(* test/05-struct-passing/database.idl                                     *)
Database ==
  <<Decl("module", "dboost_test", 0, <<>>),
    Decl("struct", "date", 1, <<>>), Decl("member", "year", 2, <<Long>>),
    Decl("struct", "person", 1, <<>>), Decl("member", "name", 4, <<Plain("string")>>),
    Decl("member", "birth_date", 4, <<Declared(2)>>),
    Decl("exception", "id_not_found", 1, <<>>),
    Decl("typedef", "persons", 1, <<Sequence(4)>>),
    Decl("interface", "database", 1, <<>>),
    Decl("operation", "add_person", 9, <<Long, Declared(4)>>),
    Naming(Decl("operation", "find_person_by_id", 9, <<Declared(4), Long>>), <<7>>),
    Decl("operation", "find_by_family", 9, <<Declared(8), Plain("string")>>)>>

Commented == {[Database EXCEPT ![k].comment = "malformed"] : k \in 10 .. 12}

(* Values, types and bases called as a struct, between it and its uses.    *)
Hiders(in, n) ==
  {<<Decl("const", "S", in, <<Long>>)>>, <<Decl("typedef", "S", in, <<Long>>)>>,
   <<Decl("enumerator", "S", in, <<>>), Decl("enum", "e", in, <<>>)>>}
  \cup IF n = 0 THEN {} ELSE
         {<<Decl("interface", "I", in, <<>>), Decl("operation", "S", n, <<Long>>),
            Decl("typedef", "own", n, <<Sequence(2)>>), Decl("attribute", "now", n, <<Declared(2)>>),
            Naming(Decl("interface", "J", in, <<>>), <<n>>), Decl("typedef", "thing", n + 4, <<Sequence(2)>>)>>,
          <<Naming(Decl("interface", "S", in, <<>>), <<2>>), Decl("attribute", "now", n, <<Declared(2)>>)>>}
Hiding ==
  {<<Decl("module", "a", 0, <<>>), Decl("struct", "S", 1, <<>>), Decl("member", "x", 2, <<Long>>),
     Decl("module", "b", 1, <<>>)>> \o hider
   \o <<Decl("typedef", "thing", 4, <<Sequence(2)>>), Decl("typedef", "whole", 4, <<Declared(2)>>)>> :
     hider \in Hiders(4, 5)}
  \cup
  {<<Decl("module", "a", 0, <<>>), Decl("interface", "S", 0, <<>>), Decl("operation", "op", 2, <<Long>>),
     Decl("module", "b", 0, <<>>)>> \o hider
   \o <<Decl("struct", "thing", 4, <<>>), Decl("member", "S", 4 + Len(hider) + 1, <<Declared(2)>>),
         Decl("member", "T", 4 + Len(hider) + 1, <<Declared(2)>>)>> :
     hider \in Hiders(4, 5)}

MCFiles == Places \cup Inlines \cup Modules \cup {Database} \cup Commented
             \cup {f \in Hiding : IsFile(f)}

=============================================================================
