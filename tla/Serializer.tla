----------------------------- MODULE Serializer -----------------------------
(***************************************************************************)
(* include/serializer.h and the code generated around it: the caller       *)
(* appends the arguments to a message one after another with operator&,    *)
(* the callee extracts as many of the same types, one after another, from  *)
(* an iterator (a reply carries results in the same way). A value is       *)
(* basic, a struct or a vector; std::string is one of the basic types. A   *)
(* string is passed on by its c_str(), which ends at its first NUL, and    *)
(* libdbus refuses one that is not UTF-8. A bool is passed on by its       *)
(* address, where libdbus takes or puts four bytes: what the bytes beside  *)
(* it do, and what happens to them, is left open (a little-endian build).  *)
(*                                                                         *)
(* C++ declares a type before it is part of another: a type is its         *)
(* position in Type, and "of" are the types of a struct's members or of a  *)
(* vector's elements. What the templates do with a type, they do with its  *)
(* parts: each is a function F of types that only uses Parts(F, t).        *)
(***************************************************************************)
EXTENDS Naturals, Sequences

CONSTANTS
  BasicTypes,      (* type ids of type_traits.h                            *)
  BasicValues,     (* per id: its values                                   *)
  CStr,            (* per basic value: what is passed on of it; all of it, *)
                   (* but of a string with a NUL                           *)
  NotUtf8,         (* strings that libdbus refuses                         *)
  Wide,            (* the id of bool                                       *)
  Type,            (* the declared types: [k |-> id, "struct" or "vec", of] *)
  MessageTypes,    (* argument lists: sequences of types                   *)
  MaxLength        (* bound: elements of a vector                          *)

Types == DOMAIN Type
Basic(t) == Type[t].k \in BasicTypes
Parts(F, t) == [i \in DOMAIN Type[t].of |-> F[Type[t].of[i]]]

ASSUME SerializerAssumption ==
  /\ BasicTypes \cap {"struct", "vec", "invalid"} = {}
  /\ Type \in Seq([k : BasicTypes \cup {"struct", "vec"}, of : Seq(Nat)])
  /\ \A t \in Types : /\ Basic(t) => Type[t].of = <<>>
                      /\ \A i \in DOMAIN Type[t].of : Type[t].of[i] \in 1 .. t - 1
                      /\ Type[t].k = "vec" => Len(Type[t].of) = 1
                      /\ Type[t].k = "struct" => Type[t].of # <<>>
  /\ \A k \in BasicTypes : \A v \in BasicValues[k] : CStr[v] \in BasicValues[k]
  /\ Wide \subseteq BasicTypes
  /\ \A t \in Types :   (* of std::vector<bool> the templates make no code *)
       Type[t].k = "vec" => Type[Type[t].of[1]].k \notin Wide
  /\ MessageTypes \subseteq Seq(Types) \ {<<>>}
  /\ MaxLength \in Nat

(* The values of a type, from those of its parts.                          *)
Product(parts) ==
  {v \in [DOMAIN parts -> UNION {parts[i] : i \in DOMAIN parts}] :
     \A i \in DOMAIN parts : v[i] \in parts[i]}
Vectors(part) == UNION {[1 .. n -> part] : n \in 0 .. MaxLength}

ValuesFrom(t, parts) ==
  CASE Basic(t)               -> BasicValues[Type[t].k]
    [] Type[t].k = "struct"   -> Product(parts)
    [] Type[t].k = "vec"      -> Vectors(parts[1])
ValuesOf[t \in Types] == ValuesFrom(t, Parts(ValuesOf, t))

ListsOf(ts) == Product([i \in DOMAIN ts |-> ValuesOf[ts[i]]])

(* A type and the types it is made of.                                     *)
WithinFrom(t, parts) == {t} \cup UNION {parts[i] : i \in DOMAIN parts}
Within[t \in Types] == WithinFrom(t, Parts(Within, t))

HasVector(t) == \E u \in Within[t] : Type[u].k = "vec"
HasBool(t) == \E u \in Within[t] : Type[u].k \in Wide

VARIABLES
  types,    (* the argument types of the operation                         *)
  args,     (* what the caller passes                                      *)
  phase,    (* "write", "read", "returned", "refused" (the callee throws)  *)
            (* or "aborted" (a failed check or broken memory ends it)      *)
  message,  (* items appended so far: [type, value]                        *)
  cursor,   (* position of the callee's iterator in the message            *)
  got       (* what the callee has extracted so far                        *)

vars == <<types, args, phase, message, cursor, got>>

Init ==
  /\ types \in MessageTypes
  /\ args \in ListsOf(types)
  /\ phase = "write"
  /\ message = <<>> /\ cursor = 1 /\ got = <<>>

-----------------------------------------------------------------------------
(* What the type_collector says of a type, a D-Bus signature: the element  *)
(* of a vector is put in parentheses whether it is a struct or not. Broken *)
(* variant: a struct's members are without parentheses, which is no single *)
(* type for the element of an array.                                       *)
Signature(k, of) == [k |-> k, of |-> of]

CollectedFrom_bare(t, parts) ==
  IF Type[t].k = "vec"
  THEN Signature("vec", <<Signature("struct", parts)>>)
  ELSE Signature(IF Type[t].k = "struct" THEN "bare" ELSE Type[t].k, parts)

CollectedFrom(t, parts) ==
  IF Type[t].k = "vec"
  THEN Signature("vec", <<Signature("struct", parts)>>)
  ELSE Signature(Type[t].k, parts)
Collected[t \in Types] == CollectedFrom(t, Parts(Collected, t))

(* The signature of what is written: a vector opens an array of the        *)
(* collected element type, without the prefix.                             *)
WrittenFrom(t, parts) ==
  Signature(Type[t].k, IF Type[t].k = "vec" THEN Parts(Collected, t) ELSE parts)
Written[t \in Types] == WrittenFrom(t, Parts(Written, t))

(* A check of libdbus fails when the element it is given is not of the     *)
(* type that the array was opened with, and for a string that is not       *)
(* UTF-8: it ends the process or, where checks are made not fatal, the     *)
(* append is refused and DBOOST_CHECK throws. These values pass.           *)
WritableFrom(t, parts) ==
  CASE Basic(t)               -> {v \in ValuesOf[t] : CStr[v] \notin NotUtf8}
    [] Type[t].k = "struct"   -> {v \in ValuesOf[t] : \A i \in DOMAIN v : v[i] \in parts[i]}
    [] Type[t].k = "vec"      ->
         {v \in ValuesOf[t] : \A i \in DOMAIN v : /\ v[i] \in parts[1]
                                                  /\ Parts(Written, t) = Parts(Collected, t)}
Writable[t \in Types] == WritableFrom(t, Parts(Writable, t))

(* What gets into the message of a value.                                  *)
SentFrom(t, parts) ==
  [v \in ValuesOf[t] |->
     IF Basic(t) THEN CStr[v]
     ELSE [i \in DOMAIN v |-> parts[IF Type[t].k = "vec" THEN 1 ELSE i][v[i]]]]
Sent[t \in Types] == SentFrom(t, Parts(Sent, t))

(* operator& of an oserializer, for the next argument. With other bytes    *)
(* than zeros beside it, a bool is no boolean to libdbus's check.          *)
WriteNext ==
  /\ phase = "write"
  /\ Len(message) < Len(types)
  /\ LET n == Len(message) + 1
     IN  \/ /\ args[n] \in Writable[types[n]]
            /\ message' = Append(message, [type |-> types[n], value |-> Sent[types[n]][args[n]]])
            /\ phase' = IF n = Len(types) THEN "read" ELSE "write"
         \/ /\ args[n] \notin Writable[types[n]] \/ HasBool(types[n])
            /\ phase' = "aborted" /\ UNCHANGED message
  /\ UNCHANGED <<types, args, cursor, got>>

-----------------------------------------------------------------------------
(* An iserializer is an iterator: a sequence of items and a position, at   *)
(* which get_arg_type finds an item or the end. What is read from it is    *)
(* [ok, value, pos]: whether no exception was thrown, the value, and where *)
(* the iterator is left.                                                   *)
Item == UNION {[type : {t}, value : ValuesOf[t]] : t \in Types}

Thrown == [ok |-> FALSE, value |-> <<>>, pos |-> 0]
Taken(value, pos) == [ok |-> TRUE, value |-> value, pos |-> pos]

(* What dbus_message_iter_recurse iterates over.                           *)
Items(item) ==
  [i \in DOMAIN item.value |->
     [type |-> Type[item.type].of[IF Type[item.type].k = "vec" THEN 1 ELSE i],
      value |-> item.value[i]]]

ArgType(items, pos) == IF pos \in DOMAIN items THEN Type[items[pos].type].k ELSE "invalid"

(* A string in a message has no NUL, and is taken whole.                   *)
(* Broken variant: the extraction does not advance.                        *)
ReadBasic_stay(t, items, pos) ==
  IF ArgType(items, pos) = Type[t].k THEN Taken(items[pos].value, pos) ELSE Thrown

ReadBasic(t, items, pos) ==
  IF ArgType(items, pos) = Type[t].k THEN Taken(items[pos].value, pos + 1) ELSE Thrown

(* Values from one iterator, one per reader: the generated is & p1 & p2,   *)
(* and the generated serialize() of a struct's members.                    *)
ThenRead(before, reader, items) ==
  LET r == reader[items][before.pos]
  IN  IF before.ok /\ r.ok THEN Taken(Append(before.value, r.value), r.pos) ELSE Thrown

ReadAll(readers, items) ==
  LET done[n \in 0 .. Len(readers)] ==
        IF n = 0 THEN Taken(<<>>, 1) ELSE ThenRead(done[n - 1], readers[n], items)
  IN  done[Len(readers)]

(* The struct is read with an iterator of its own; the iterator that       *)
(* stands at the struct stays there.                                       *)
ReadStruct(readers, items, pos) ==
  IF ArgType(items, pos) # "struct"
  THEN Thrown
  ELSE LET r == ReadAll(readers, Items(items[pos]))
       IN  IF r.ok THEN Taken(r.value, pos) ELSE Thrown

(* The loop over an array, of as many rounds as it has items at the most:  *)
(* after each element the iterator is advanced, also if extracting the     *)
(* element has advanced it.                                                *)
ThenElement(before, reader, items) ==
  LET r == reader[items][before.pos]
  IN  IF ~before.ok \/ ArgType(items, before.pos) = "invalid" THEN before
      ELSE IF r.ok THEN Taken(Append(before.value, r.value), r.pos + 1) ELSE Thrown

ReadElements(reader, items) ==
  LET done[n \in 0 .. Len(items)] ==
        IF n = 0 THEN Taken(<<>>, 1) ELSE ThenElement(done[n - 1], reader, items)
  IN  done[Len(items)]

ReadVector(reader, items, pos) ==
  IF ArgType(items, pos) # "vec"
  THEN Thrown
  ELSE LET r == ReadElements(reader, Items(items[pos]))
       IN  IF r.ok THEN Taken(r.value, pos) ELSE Thrown

(* operator& chooses the strategy by the type.                             *)
Reader(t, readers) ==
  [items \in Seq(Item) |-> [pos \in Nat |->
     CASE Basic(t)               -> ReadBasic(t, items, pos)
       [] Type[t].k = "struct"   -> ReadStruct(readers, items, pos)
       [] Type[t].k = "vec"      -> ReadVector(readers[1], items, pos)]]
Read[t \in Types] == Reader(t, Parts(Read, t))

(* operator& of an iserializer, for the next parameter.                    *)
ReadNext ==
  /\ phase = "read"
  /\ LET r == Read[types[Len(got) + 1]][message][cursor]
     IN  IF r.ok
         THEN /\ got' = Append(got, r.value)
              /\ cursor' = r.pos
              /\ phase' = IF Len(got') = Len(types) THEN "returned" ELSE "read"
         ELSE phase' = "refused" /\ UNCHANGED <<got, cursor>>
  /\ UNCHANGED <<types, args, message>>

(* If there is a bool in it, libdbus's four bytes go over its neighbours:  *)
(* the parameters may change, or the program break.                        *)
ReadBool ==
  /\ phase = "read"
  /\ LET n == Len(got) + 1
         r == Read[types[n]][message][cursor]
     IN  /\ HasBool(types[n])
         /\ \/ /\ r.ok
               /\ got' \in ListsOf(SubSeq(types, 1, n))
               /\ cursor' = r.pos
               /\ phase' = IF n = Len(types) THEN "returned" ELSE "read"
            \/ phase' \in {"refused", "aborted"} /\ UNCHANGED <<got, cursor>>
  /\ UNCHANGED <<types, args, message>>

Next == WriteNext \/ ReadNext \/ ReadBool

Spec == Init /\ [][Next]_vars

-----------------------------------------------------------------------------
TypeOK ==
  /\ types \in MessageTypes
  /\ args \in ListsOf(types)
  /\ phase \in {"write", "read", "returned", "refused", "aborted"}
  /\ message \in Seq(Item) /\ Len(message) <= Len(types)
  /\ cursor \in 1 .. Len(types) + 1
  /\ Len(got) <= Len(types)
  /\ \A i \in DOMAIN got : got[i] \in ValuesOf[types[i]]

(* What was passed, as far as it can get into a message.                   *)
passed == [i \in DOMAIN types |-> Sent[types[i]][args[i]]]

(* The lists that are read back whatever their values: every type before   *)
(* the last is basic; a struct in the last has such a list of members, a   *)
(* vector has such structs, without a vector in them, as elements. There   *)
(* is no bool in them.                                                     *)
BasicButLast(ts) == \A i \in DOMAIN ts : i < Len(ts) => Basic(ts[i])
Readable(t) ==
  \A u \in Within[t] :
    /\ Type[u].k = "struct" => BasicButLast(Type[u].of)
    /\ Type[u].k = "vec" => Type[Type[u].of[1]].k = "struct" /\ ~HasVector(Type[u].of[1])
Supported(ts) ==
  /\ BasicButLast(ts) /\ Readable(ts[Len(ts)])
  /\ \A i \in DOMAIN ts : ~HasBool(ts[i])

(* Whatever the values, the arguments of these operations reach the        *)
(* servant as they were passed, but for what follows a NUL in a string, if *)
(* they are sent at all: the IDL files of the tests keep to such lists.    *)
SupportedArrive ==
  Supported(types) => phase # "refused" /\ \A i \in DOMAIN got : got[i] = passed[i]

(* Where a value is lost or repeated without an exception: in a vector of  *)
(* basic elements, of which every second one is skipped, or where a struct *)
(* or vector follows another, which is then extracted again.               *)
Repeats(ts) ==
  \E i \in DOMAIN ts : i < Len(ts) /\ ~Basic(ts[i]) /\ Type[ts[i + 1]].k = Type[ts[i]].k

FragileFrom(t, parts) ==
  CASE Basic(t)               -> {}
    [] Type[t].k = "struct"   ->
         {v \in ValuesOf[t] : Repeats(Type[t].of) \/ \E i \in DOMAIN v : v[i] \in parts[i]}
    [] Type[t].k = "vec"      ->
         {v \in ValuesOf[t] : \/ Basic(Type[t].of[1]) /\ Len(v) > 1
                              \/ \E i \in DOMAIN v : v[i] \in parts[1]}
Fragile[t \in Types] == FragileFrom(t, Parts(Fragile, t))

DifferenceHasCause ==
  phase = "returned" /\ got # passed =>
    \/ Repeats(types)
    \/ \E i \in DOMAIN types : passed[i] \in Fragile[types[i]] \/ HasBool(types[i])

(* The reader stays inside the message and the declared types; the lists   *)
(* above arrive up to the NULs in their strings, the others unless it      *)
(* raises, for that cause, or next to a bool.                              *)
ArgumentsArrive == TypeOK /\ SupportedArrive /\ DifferenceHasCause

(* Values that have a string in them which libdbus refuses.                *)
BadTextFrom(t, parts) ==
  {v \in ValuesOf[t] :
     IF Basic(t) THEN CStr[v] \in NotUtf8
     ELSE \E i \in DOMAIN v : v[i] \in parts[IF Type[t].k = "vec" THEN 1 ELSE i]}
BadText[t \in Types] == BadTextFrom(t, Parts(BadText, t))

(* A call ends at a check of libdbus only for a vector within a vector, a  *)
(* string that is not UTF-8 or a bool: structs and other basic values as   *)
(* elements are described as they are written.                             *)
NestsVectors(t) == \E u \in Within[t] : Type[u].k = "vec" /\ HasVector(Type[u].of[1])
Spoilt(t, v) == v \in BadText[t] \/ HasBool(t)
AbortHasCause ==
  phase = "aborted" => \E i \in DOMAIN types : NestsVectors(types[i]) \/ Spoilt(types[i], args[i])

(* The comment on type_collector, serializer.h:103-105: it collects what   *)
(* DBus needs to store a vector of arbitrary type. Then only what a vector *)
(* or another argument holds could end the call.                           *)
VectorOfArbitraryType == phase = "aborted" => \E i \in DOMAIN types : Spoilt(types[i], args[i])

=============================================================================
