---------------------------- MODULE MCSerializer ----------------------------
(* Argument lists: those of the tests' IDL files, and all lists of one or  *)
(* two types, and structs of two members, where each kind meets each kind. *)
EXTENDS Serializer

CONSTANTS i0, i1, s0, s0NUL, latin1, b0, b1
MCBasicValues == [i |-> {i0, i1}, s |-> {s0, s0NUL, latin1}, b |-> {b0, b1}]
MCCStr == [v \in UNION {MCBasicValues[k] : k \in BasicTypes} |-> IF v = s0NUL THEN s0 ELSE v]

Simple(id) == [k |-> id, of |-> <<>>]
Struct(ts) == [k |-> "struct", of |-> ts]
Vec(t) == [k |-> "vec", of |-> <<t>>]

(* 3 is the date of the tests, 7 their person without the surname, and 8  *)
(* the persons.                                                            *)
Declared ==
  <<Simple("i"), Simple("s"), Struct(<<1, 1>>), Vec(1), Struct(<<1>>), Vec(5),
    Struct(<<2, 3>>), Vec(7), Vec(3), Vec(4), Struct(<<4>>), Vec(11), Vec(9)>>
Kinds == <<1, 2, 3, 4, 6>>
MCType ==
  Declared \o [n \in 1 .. 25 |-> Struct(<<Kinds[((n - 1) \div 5) + 1], Kinds[((n - 1) % 5) + 1]>>)]
  \o <<Simple("b"), Struct(<<1, 39>>), Vec(40)>>

MCMessageTypes ==
  {<<t>> : t \in 1 .. 38} \cup {MCType[t].of : t \in 14 .. 38}
  \cup {<<1, 1, 3>>, <<7, 3>>, <<1, 13>>}
  \cup {<<39>>, <<39, 1>>, <<1, 39>>, <<40>>, <<40, 2>>, <<41>>}
=============================================================================
