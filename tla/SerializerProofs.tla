-------------------------- MODULE SerializerProofs --------------------------
(***************************************************************************)
(* For all declared types, all values and all argument lists: what arrives *)
(* of the arguments, and which of them libdbus cannot be given.            *)
(*                                                                         *)
(* The functions of types use only what they give for a type's parts, which *)
(* are declared before it. That makes three arguments by induction on the  *)
(* position of a type: such a function has the value its definition gives  *)
(* (the lemmas ...Def), reading a type never gives anything but a value of *)
(* it (AllReadWell), and reading an item as the type it was written as     *)
(* gives that value or a cause (AllFaithful). The installed provers take no *)
(* induction rule with an operator parameter, so induction is over the     *)
(* members of a set, from the least-number principle. The state invariant  *)
(* IInv carries AllFaithful from one argument to the next.                 *)
(***************************************************************************)
EXTENDS Serializer, Integers, WellFoundedInduction, SequenceTheorems, TLAPS

N == Len(Type)

(* A set of numbers has a least one; what is in a set at 0 and from each   *)
(* number to the next is in it at all; what holds of a type if it holds of *)
(* all before it holds of all types.                                       *)
LEMMA Least == \A S \in SUBSET Nat : S # {} => \E x \in S : \A y \in S : x <= y
<1> SUFFICES ASSUME NEW S \in SUBSET Nat, S # {} PROVE \E x \in S : \A y \in S : x <= y
  OBVIOUS
<1>1. PICK x \in S : \A y \in S : <<y, x>> \notin OpToRel(<, Nat)
  BY NatLessThanWellFounded, WFMin
<1>2. \A y \in S : ~(y < x)
  BY <1>1 DEF OpToRel
<1> QED
  BY <1>2

LEMMA Steps ==
  ASSUME NEW n \in Nat, NEW S, 0 \in S, \A m \in 0 .. n - 1 : m \in S => m + 1 \in S
  PROVE  n \in S
<1> SUFFICES ASSUME n \notin S PROVE FALSE
  OBVIOUS
<1>1. PICK m \in 0 .. n : m \notin S /\ \A k \in 0 .. n : k \notin S => m <= k
  <2>1. PICK x \in {k \in 0 .. n : k \notin S} : \A y \in {k \in 0 .. n : k \notin S} : x <= y
    <3>1. {k \in 0 .. n : k \notin S} \in SUBSET Nat /\ n \in {k \in 0 .. n : k \notin S}
      OBVIOUS
    <3> QED
      BY <3>1, Least
  <2> QED
    BY <2>1
<1>2. m # 0 /\ m - 1 \in 0 .. n - 1
  BY <1>1
<1>3. m - 1 \in S
  BY <1>1, <1>2
<1> QED
  BY <1>1, <1>2, <1>3

(* A table of types: parts are declared before what is made of them.       *)
LEMMA TypesAre ==
  /\ N \in Nat /\ Types = 1 .. N
  /\ \A t \in Types : Type[t] \in [k : BasicTypes \cup {"struct", "vec"}, of : Seq(Nat)]
  /\ \A t \in Types : \A i \in DOMAIN Type[t].of : Type[t].of[i] \in 1 .. t - 1 /\ Type[t].of[i] \in Types
  /\ \A t \in Types : Type[t].k = "vec" => DOMAIN Type[t].of = {1} /\ ~Basic(t)
  /\ \A t \in Types : Type[t].k = "struct" => ~Basic(t)
  /\ \A t \in Types : Basic(t) \/ Type[t].k = "struct" \/ Type[t].k = "vec"
<1>1. N \in Nat /\ Types = 1 .. N
  BY SerializerAssumption DEF Types, N
<1>2. \A t \in Types : Type[t] \in [k : BasicTypes \cup {"struct", "vec"}, of : Seq(Nat)]
  <2> DEFINE R == [k : BasicTypes \cup {"struct", "vec"}, of : Seq(Nat)]
  <2>1. Type \in Seq(R)
    BY SerializerAssumption
  <2> HIDE DEF R
  <2>2. \A t \in Types : Type[t] \in R
    BY <2>1 DEF Types
  <2> QED
    BY <2>2 DEF R
<1>3. \A t \in Types : \A i \in DOMAIN Type[t].of : Type[t].of[i] \in 1 .. t - 1
  BY SerializerAssumption
<1>4. \A t \in Types : \A u \in 1 .. t - 1 : u \in Types
  BY <1>1
<1>5. \A t \in Types : Type[t].k = "vec" => Len(Type[t].of) = 1
  BY SerializerAssumption
<1>6. \A t \in Types : DOMAIN Type[t].of = 1 .. Len(Type[t].of)
  <2> TAKE t \in Types
  <2>1. Type[t].of \in Seq(Nat)
    BY <1>2
  <2> QED
    BY <2>1
<1>7. \A t \in Types : Type[t].k = "vec" => DOMAIN Type[t].of = {1}
  BY <1>5, <1>6
<1>8. \A t \in Types : Type[t].k \in BasicTypes \cup {"struct", "vec"}
  BY <1>2
<1> QED
  BY <1>1, <1>2, <1>3, <1>4, <1>7, <1>8, SerializerAssumption DEF Basic

LEMMA TypeInduction ==
  ASSUME NEW S, \A t \in Types : (\A u \in 1 .. t - 1 : u \in S) => t \in S
  PROVE  \A t \in Types : t \in S
<1> SUFFICES ASSUME NEW t \in Types, t \notin S PROVE FALSE
  OBVIOUS
<1>1. PICK x \in {u \in Types : u \notin S} : \A y \in {u \in Types : u \notin S} : x <= y
  <2>1. {u \in Types : u \notin S} \in SUBSET Nat /\ {u \in Types : u \notin S} # {}
    <3>1. Types \subseteq Nat
      BY TypesAre
    <3> QED
      BY <3>1
  <2> QED
    BY <2>1, Least
<1>2. \A u \in 1 .. x - 1 : u \in S
  BY <1>1, TypesAre
<1> QED
  BY <1>1, <1>2

(* A type's parts depend on what precedes it only.                         *)
LEMMA PartsAgree ==
  ASSUME NEW t \in Types, NEW g, NEW h, \A u \in 1 .. t - 1 : g[u] = h[u]
  PROVE  Parts(g, t) = Parts(h, t)
BY TypesAre DEF Parts

(* Each recursive function of types is its own right-hand side: functions on *)
(* 1 .. n with that property exist for every n, by induction, and those on *)
(* all types are what the definition chooses from.                         *)
LEMMA ValuesOfDef == ValuesOf = [t \in Types |-> ValuesFrom(t, Parts(ValuesOf, t))]
<1> DEFINE Fits(n, g) == g = [t \in 1 .. n |-> ValuesFrom(t, Parts(g, t))]
<1> DEFINE S == {n \in Nat : \E g : Fits(n, g)}
<1>1. 0 \in S
  <2>1. Fits(0, [t \in 1 .. 0 |-> 0])
    OBVIOUS
  <2> QED
    BY <2>1
<1>2. ASSUME NEW n \in 0 .. N - 1, n \in S PROVE n + 1 \in S
  <2>1. PICK g : Fits(n, g)
    BY <1>2
  <2> DEFINE h == [t \in 1 .. n + 1 |-> ValuesFrom(t, Parts(g, t))]
  <2>2. \A u \in 1 .. n : h[u] = g[u]
    <3> TAKE u \in 1 .. n
    <3>1. g[u] = ValuesFrom(u, Parts(g, u))
      BY <2>1
    <3> QED
      BY <3>1
  <2>3. \A t \in 1 .. n + 1 : Parts(h, t) = Parts(g, t)
    <3> HIDE DEF h
    <3> TAKE t \in 1 .. n + 1
    <3>1. t \in Types /\ \A u \in 1 .. t - 1 : h[u] = g[u]
      BY <2>2, TypesAre
    <3> QED
      BY <3>1, PartsAgree
  <2>4. h = [t \in 1 .. n + 1 |-> ValuesFrom(t, Parts(h, t))]
    <3>1. \A t \in 1 .. n + 1 : ValuesFrom(t, Parts(h, t)) = ValuesFrom(t, Parts(g, t))
      BY <2>3
    <3>2. [t \in 1 .. n + 1 |-> ValuesFrom(t, Parts(h, t))] = [t \in 1 .. n + 1 |-> ValuesFrom(t, Parts(g, t))]
      BY <3>1
    <3> QED
      BY <3>2
  <2>5. Fits(n + 1, h)
    BY <2>4
  <2>6. n + 1 \in Nat
    BY <1>2
  <2> HIDE DEF Fits, h
  <2> QED
    BY <2>5, <2>6
<1>3. \E g : Fits(N, g)
  <2> HIDE DEF Fits
  <2>1. N \in S
    BY <1>1, <1>2, Steps, TypesAre
  <2> QED
    BY <2>1
<1>4. \E g : g = [t \in Types |-> ValuesFrom(t, Parts(g, t))]
  BY <1>3, TypesAre
<1> QED
  BY <1>4 DEF ValuesOf

LEMMA SentDef == Sent = [t \in Types |-> SentFrom(t, Parts(Sent, t))]
<1> DEFINE Fits(n, g) == g = [t \in 1 .. n |-> SentFrom(t, Parts(g, t))]
<1> DEFINE S == {n \in Nat : \E g : Fits(n, g)}
<1>1. 0 \in S
  <2>1. Fits(0, [t \in 1 .. 0 |-> 0])
    OBVIOUS
  <2> QED
    BY <2>1
<1>2. ASSUME NEW n \in 0 .. N - 1, n \in S PROVE n + 1 \in S
  <2>1. PICK g : Fits(n, g)
    BY <1>2
  <2> DEFINE h == [t \in 1 .. n + 1 |-> SentFrom(t, Parts(g, t))]
  <2>2. \A u \in 1 .. n : h[u] = g[u]
    <3> TAKE u \in 1 .. n
    <3>1. g[u] = SentFrom(u, Parts(g, u))
      BY <2>1
    <3> QED
      BY <3>1
  <2>3. \A t \in 1 .. n + 1 : Parts(h, t) = Parts(g, t)
    <3> HIDE DEF h
    <3> TAKE t \in 1 .. n + 1
    <3>1. t \in Types /\ \A u \in 1 .. t - 1 : h[u] = g[u]
      BY <2>2, TypesAre
    <3> QED
      BY <3>1, PartsAgree
  <2>4. h = [t \in 1 .. n + 1 |-> SentFrom(t, Parts(h, t))]
    <3>1. \A t \in 1 .. n + 1 : SentFrom(t, Parts(h, t)) = SentFrom(t, Parts(g, t))
      BY <2>3
    <3>2. [t \in 1 .. n + 1 |-> SentFrom(t, Parts(h, t))] = [t \in 1 .. n + 1 |-> SentFrom(t, Parts(g, t))]
      BY <3>1
    <3> QED
      BY <3>2
  <2>5. Fits(n + 1, h)
    BY <2>4
  <2>6. n + 1 \in Nat
    BY <1>2
  <2> HIDE DEF Fits, h
  <2> QED
    BY <2>5, <2>6
<1>3. \E g : Fits(N, g)
  <2> HIDE DEF Fits
  <2>1. N \in S
    BY <1>1, <1>2, Steps, TypesAre
  <2> QED
    BY <2>1
<1>4. \E g : g = [t \in Types |-> SentFrom(t, Parts(g, t))]
  BY <1>3, TypesAre
<1> QED
  BY <1>4 DEF Sent

LEMMA BadTextDef == BadText = [t \in Types |-> BadTextFrom(t, Parts(BadText, t))]
<1> DEFINE Fits(n, g) == g = [t \in 1 .. n |-> BadTextFrom(t, Parts(g, t))]
<1> DEFINE S == {n \in Nat : \E g : Fits(n, g)}
<1>1. 0 \in S
  <2>1. Fits(0, [t \in 1 .. 0 |-> 0])
    OBVIOUS
  <2> QED
    BY <2>1
<1>2. ASSUME NEW n \in 0 .. N - 1, n \in S PROVE n + 1 \in S
  <2>1. PICK g : Fits(n, g)
    BY <1>2
  <2> DEFINE h == [t \in 1 .. n + 1 |-> BadTextFrom(t, Parts(g, t))]
  <2>2. \A u \in 1 .. n : h[u] = g[u]
    <3> TAKE u \in 1 .. n
    <3>1. g[u] = BadTextFrom(u, Parts(g, u))
      BY <2>1
    <3> QED
      BY <3>1
  <2>3. \A t \in 1 .. n + 1 : Parts(h, t) = Parts(g, t)
    <3> HIDE DEF h
    <3> TAKE t \in 1 .. n + 1
    <3>1. t \in Types /\ \A u \in 1 .. t - 1 : h[u] = g[u]
      BY <2>2, TypesAre
    <3> QED
      BY <3>1, PartsAgree
  <2>4. h = [t \in 1 .. n + 1 |-> BadTextFrom(t, Parts(h, t))]
    <3>1. \A t \in 1 .. n + 1 : BadTextFrom(t, Parts(h, t)) = BadTextFrom(t, Parts(g, t))
      BY <2>3
    <3>2. [t \in 1 .. n + 1 |-> BadTextFrom(t, Parts(h, t))] = [t \in 1 .. n + 1 |-> BadTextFrom(t, Parts(g, t))]
      BY <3>1
    <3> QED
      BY <3>2
  <2>5. Fits(n + 1, h)
    BY <2>4
  <2>6. n + 1 \in Nat
    BY <1>2
  <2> HIDE DEF Fits, h
  <2> QED
    BY <2>5, <2>6
<1>3. \E g : Fits(N, g)
  <2> HIDE DEF Fits
  <2>1. N \in S
    BY <1>1, <1>2, Steps, TypesAre
  <2> QED
    BY <2>1
<1>4. \E g : g = [t \in Types |-> BadTextFrom(t, Parts(g, t))]
  BY <1>3, TypesAre
<1> QED
  BY <1>4 DEF BadText

LEMMA CollectedDef == Collected = [t \in Types |-> CollectedFrom(t, Parts(Collected, t))]
<1> DEFINE Fits(n, g) == g = [t \in 1 .. n |-> CollectedFrom(t, Parts(g, t))]
<1> DEFINE S == {n \in Nat : \E g : Fits(n, g)}
<1>1. 0 \in S
  <2>1. Fits(0, [t \in 1 .. 0 |-> 0])
    OBVIOUS
  <2> QED
    BY <2>1
<1>2. ASSUME NEW n \in 0 .. N - 1, n \in S PROVE n + 1 \in S
  <2>1. PICK g : Fits(n, g)
    BY <1>2
  <2> DEFINE h == [t \in 1 .. n + 1 |-> CollectedFrom(t, Parts(g, t))]
  <2>2. \A u \in 1 .. n : h[u] = g[u]
    <3> TAKE u \in 1 .. n
    <3>1. g[u] = CollectedFrom(u, Parts(g, u))
      BY <2>1
    <3> QED
      BY <3>1
  <2>3. \A t \in 1 .. n + 1 : Parts(h, t) = Parts(g, t)
    <3> HIDE DEF h
    <3> TAKE t \in 1 .. n + 1
    <3>1. t \in Types /\ \A u \in 1 .. t - 1 : h[u] = g[u]
      BY <2>2, TypesAre
    <3> QED
      BY <3>1, PartsAgree
  <2>4. h = [t \in 1 .. n + 1 |-> CollectedFrom(t, Parts(h, t))]
    <3>1. \A t \in 1 .. n + 1 : CollectedFrom(t, Parts(h, t)) = CollectedFrom(t, Parts(g, t))
      BY <2>3
    <3>2. [t \in 1 .. n + 1 |-> CollectedFrom(t, Parts(h, t))] = [t \in 1 .. n + 1 |-> CollectedFrom(t, Parts(g, t))]
      BY <3>1
    <3> QED
      BY <3>2
  <2>5. Fits(n + 1, h)
    BY <2>4
  <2>6. n + 1 \in Nat
    BY <1>2
  <2> HIDE DEF Fits, h
  <2> QED
    BY <2>5, <2>6
<1>3. \E g : Fits(N, g)
  <2> HIDE DEF Fits
  <2>1. N \in S
    BY <1>1, <1>2, Steps, TypesAre
  <2> QED
    BY <2>1
<1>4. \E g : g = [t \in Types |-> CollectedFrom(t, Parts(g, t))]
  BY <1>3, TypesAre
<1> QED
  BY <1>4 DEF Collected

LEMMA WrittenDef == Written = [t \in Types |-> WrittenFrom(t, Parts(Written, t))]
<1> DEFINE Fits(n, g) == g = [t \in 1 .. n |-> WrittenFrom(t, Parts(g, t))]
<1> DEFINE S == {n \in Nat : \E g : Fits(n, g)}
<1>1. 0 \in S
  <2>1. Fits(0, [t \in 1 .. 0 |-> 0])
    OBVIOUS
  <2> QED
    BY <2>1
<1>2. ASSUME NEW n \in 0 .. N - 1, n \in S PROVE n + 1 \in S
  <2>1. PICK g : Fits(n, g)
    BY <1>2
  <2> DEFINE h == [t \in 1 .. n + 1 |-> WrittenFrom(t, Parts(g, t))]
  <2>2. \A u \in 1 .. n : h[u] = g[u]
    <3> TAKE u \in 1 .. n
    <3>1. g[u] = WrittenFrom(u, Parts(g, u))
      BY <2>1
    <3> QED
      BY <3>1
  <2>3. \A t \in 1 .. n + 1 : Parts(h, t) = Parts(g, t)
    <3> HIDE DEF h
    <3> TAKE t \in 1 .. n + 1
    <3>1. t \in Types /\ \A u \in 1 .. t - 1 : h[u] = g[u]
      BY <2>2, TypesAre
    <3> QED
      BY <3>1, PartsAgree
  <2>4. h = [t \in 1 .. n + 1 |-> WrittenFrom(t, Parts(h, t))]
    <3>1. \A t \in 1 .. n + 1 : WrittenFrom(t, Parts(h, t)) = WrittenFrom(t, Parts(g, t))
      BY <2>3
    <3>2. [t \in 1 .. n + 1 |-> WrittenFrom(t, Parts(h, t))] = [t \in 1 .. n + 1 |-> WrittenFrom(t, Parts(g, t))]
      BY <3>1
    <3> QED
      BY <3>2
  <2>5. Fits(n + 1, h)
    BY <2>4
  <2>6. n + 1 \in Nat
    BY <1>2
  <2> HIDE DEF Fits, h
  <2> QED
    BY <2>5, <2>6
<1>3. \E g : Fits(N, g)
  <2> HIDE DEF Fits
  <2>1. N \in S
    BY <1>1, <1>2, Steps, TypesAre
  <2> QED
    BY <2>1
<1>4. \E g : g = [t \in Types |-> WrittenFrom(t, Parts(g, t))]
  BY <1>3, TypesAre
<1> QED
  BY <1>4 DEF Written

LEMMA WritableDef == Writable = [t \in Types |-> WritableFrom(t, Parts(Writable, t))]
<1> DEFINE Fits(n, g) == g = [t \in 1 .. n |-> WritableFrom(t, Parts(g, t))]
<1> DEFINE S == {n \in Nat : \E g : Fits(n, g)}
<1>1. 0 \in S
  <2>1. Fits(0, [t \in 1 .. 0 |-> 0])
    OBVIOUS
  <2> QED
    BY <2>1
<1>2. ASSUME NEW n \in 0 .. N - 1, n \in S PROVE n + 1 \in S
  <2>1. PICK g : Fits(n, g)
    BY <1>2
  <2> DEFINE h == [t \in 1 .. n + 1 |-> WritableFrom(t, Parts(g, t))]
  <2>2. \A u \in 1 .. n : h[u] = g[u]
    <3> TAKE u \in 1 .. n
    <3>1. g[u] = WritableFrom(u, Parts(g, u))
      BY <2>1
    <3> QED
      BY <3>1
  <2>3. \A t \in 1 .. n + 1 : Parts(h, t) = Parts(g, t)
    <3> HIDE DEF h
    <3> TAKE t \in 1 .. n + 1
    <3>1. t \in Types /\ \A u \in 1 .. t - 1 : h[u] = g[u]
      BY <2>2, TypesAre
    <3> QED
      BY <3>1, PartsAgree
  <2>4. h = [t \in 1 .. n + 1 |-> WritableFrom(t, Parts(h, t))]
    <3>1. \A t \in 1 .. n + 1 : WritableFrom(t, Parts(h, t)) = WritableFrom(t, Parts(g, t))
      BY <2>3
    <3>2. [t \in 1 .. n + 1 |-> WritableFrom(t, Parts(h, t))] = [t \in 1 .. n + 1 |-> WritableFrom(t, Parts(g, t))]
      BY <3>1
    <3> QED
      BY <3>2
  <2>5. Fits(n + 1, h)
    BY <2>4
  <2>6. n + 1 \in Nat
    BY <1>2
  <2> HIDE DEF Fits, h
  <2> QED
    BY <2>5, <2>6
<1>3. \E g : Fits(N, g)
  <2> HIDE DEF Fits
  <2>1. N \in S
    BY <1>1, <1>2, Steps, TypesAre
  <2> QED
    BY <2>1
<1>4. \E g : g = [t \in Types |-> WritableFrom(t, Parts(g, t))]
  BY <1>3, TypesAre
<1> QED
  BY <1>4 DEF Writable

LEMMA WithinDef == Within = [t \in Types |-> WithinFrom(t, Parts(Within, t))]
<1> DEFINE Fits(n, g) == g = [t \in 1 .. n |-> WithinFrom(t, Parts(g, t))]
<1> DEFINE S == {n \in Nat : \E g : Fits(n, g)}
<1>1. 0 \in S
  <2>1. Fits(0, [t \in 1 .. 0 |-> 0])
    OBVIOUS
  <2> QED
    BY <2>1
<1>2. ASSUME NEW n \in 0 .. N - 1, n \in S PROVE n + 1 \in S
  <2>1. PICK g : Fits(n, g)
    BY <1>2
  <2> DEFINE h == [t \in 1 .. n + 1 |-> WithinFrom(t, Parts(g, t))]
  <2>2. \A u \in 1 .. n : h[u] = g[u]
    <3> TAKE u \in 1 .. n
    <3>1. g[u] = WithinFrom(u, Parts(g, u))
      BY <2>1
    <3> QED
      BY <3>1
  <2>3. \A t \in 1 .. n + 1 : Parts(h, t) = Parts(g, t)
    <3> HIDE DEF h
    <3> TAKE t \in 1 .. n + 1
    <3>1. t \in Types /\ \A u \in 1 .. t - 1 : h[u] = g[u]
      BY <2>2, TypesAre
    <3> QED
      BY <3>1, PartsAgree
  <2>4. h = [t \in 1 .. n + 1 |-> WithinFrom(t, Parts(h, t))]
    <3>1. \A t \in 1 .. n + 1 : WithinFrom(t, Parts(h, t)) = WithinFrom(t, Parts(g, t))
      BY <2>3
    <3>2. [t \in 1 .. n + 1 |-> WithinFrom(t, Parts(h, t))] = [t \in 1 .. n + 1 |-> WithinFrom(t, Parts(g, t))]
      BY <3>1
    <3> QED
      BY <3>2
  <2>5. Fits(n + 1, h)
    BY <2>4
  <2>6. n + 1 \in Nat
    BY <1>2
  <2> HIDE DEF Fits, h
  <2> QED
    BY <2>5, <2>6
<1>3. \E g : Fits(N, g)
  <2> HIDE DEF Fits
  <2>1. N \in S
    BY <1>1, <1>2, Steps, TypesAre
  <2> QED
    BY <2>1
<1>4. \E g : g = [t \in Types |-> WithinFrom(t, Parts(g, t))]
  BY <1>3, TypesAre
<1> QED
  BY <1>4 DEF Within

LEMMA FragileDef == Fragile = [t \in Types |-> FragileFrom(t, Parts(Fragile, t))]
<1> DEFINE Fits(n, g) == g = [t \in 1 .. n |-> FragileFrom(t, Parts(g, t))]
<1> DEFINE S == {n \in Nat : \E g : Fits(n, g)}
<1>1. 0 \in S
  <2>1. Fits(0, [t \in 1 .. 0 |-> 0])
    OBVIOUS
  <2> QED
    BY <2>1
<1>2. ASSUME NEW n \in 0 .. N - 1, n \in S PROVE n + 1 \in S
  <2>1. PICK g : Fits(n, g)
    BY <1>2
  <2> DEFINE h == [t \in 1 .. n + 1 |-> FragileFrom(t, Parts(g, t))]
  <2>2. \A u \in 1 .. n : h[u] = g[u]
    <3> TAKE u \in 1 .. n
    <3>1. g[u] = FragileFrom(u, Parts(g, u))
      BY <2>1
    <3> QED
      BY <3>1
  <2>3. \A t \in 1 .. n + 1 : Parts(h, t) = Parts(g, t)
    <3> HIDE DEF h
    <3> TAKE t \in 1 .. n + 1
    <3>1. t \in Types /\ \A u \in 1 .. t - 1 : h[u] = g[u]
      BY <2>2, TypesAre
    <3> QED
      BY <3>1, PartsAgree
  <2>4. h = [t \in 1 .. n + 1 |-> FragileFrom(t, Parts(h, t))]
    <3>1. \A t \in 1 .. n + 1 : FragileFrom(t, Parts(h, t)) = FragileFrom(t, Parts(g, t))
      BY <2>3
    <3>2. [t \in 1 .. n + 1 |-> FragileFrom(t, Parts(h, t))] = [t \in 1 .. n + 1 |-> FragileFrom(t, Parts(g, t))]
      BY <3>1
    <3> QED
      BY <3>2
  <2>5. Fits(n + 1, h)
    BY <2>4
  <2>6. n + 1 \in Nat
    BY <1>2
  <2> HIDE DEF Fits, h
  <2> QED
    BY <2>5, <2>6
<1>3. \E g : Fits(N, g)
  <2> HIDE DEF Fits
  <2>1. N \in S
    BY <1>1, <1>2, Steps, TypesAre
  <2> QED
    BY <2>1
<1>4. \E g : g = [t \in Types |-> FragileFrom(t, Parts(g, t))]
  BY <1>3, TypesAre
<1> QED
  BY <1>4 DEF Fragile

LEMMA ReadDef == Read = [t \in Types |-> Reader(t, Parts(Read, t))]
<1> DEFINE Fits(n, g) == g = [t \in 1 .. n |-> Reader(t, Parts(g, t))]
<1> DEFINE S == {n \in Nat : \E g : Fits(n, g)}
<1>1. 0 \in S
  <2>1. Fits(0, [t \in 1 .. 0 |-> 0])
    OBVIOUS
  <2> QED
    BY <2>1
<1>2. ASSUME NEW n \in 0 .. N - 1, n \in S PROVE n + 1 \in S
  <2>1. PICK g : Fits(n, g)
    BY <1>2
  <2> DEFINE h == [t \in 1 .. n + 1 |-> Reader(t, Parts(g, t))]
  <2>2. \A u \in 1 .. n : h[u] = g[u]
    <3> TAKE u \in 1 .. n
    <3>1. g[u] = Reader(u, Parts(g, u))
      BY <2>1
    <3> QED
      BY <3>1
  <2>3. \A t \in 1 .. n + 1 : Parts(h, t) = Parts(g, t)
    <3> HIDE DEF h
    <3> TAKE t \in 1 .. n + 1
    <3>1. t \in Types /\ \A u \in 1 .. t - 1 : h[u] = g[u]
      BY <2>2, TypesAre
    <3> QED
      BY <3>1, PartsAgree
  <2>4. h = [t \in 1 .. n + 1 |-> Reader(t, Parts(h, t))]
    <3>1. \A t \in 1 .. n + 1 : Reader(t, Parts(h, t)) = Reader(t, Parts(g, t))
      BY <2>3
    <3>2. [t \in 1 .. n + 1 |-> Reader(t, Parts(h, t))] = [t \in 1 .. n + 1 |-> Reader(t, Parts(g, t))]
      BY <3>1
    <3> QED
      BY <3>2
  <2>5. Fits(n + 1, h)
    BY <2>4
  <2>6. n + 1 \in Nat
    BY <1>2
  <2> HIDE DEF Fits, h
  <2> QED
    BY <2>5, <2>6
<1>3. \E g : Fits(N, g)
  <2> HIDE DEF Fits
  <2>1. N \in S
    BY <1>1, <1>2, Steps, TypesAre
  <2> QED
    BY <2>1
<1>4. \E g : g = [t \in Types |-> Reader(t, Parts(g, t))]
  BY <1>3, TypesAre
<1> QED
  BY <1>4 DEF Read

-----------------------------------------------------------------------------
(* The readers of lists, as sequences of results.                          *)
LEMMA AllDone ==
  ASSUME NEW readers, Len(readers) \in Nat, NEW items
  PROVE  \E done :
           /\ done[0] = Taken(<<>>, 1)
           /\ \A n \in 0 .. Len(readers) - 1 : done[n + 1] = ThenRead(done[n], readers[n + 1], items)
           /\ ReadAll(readers, items) = done[Len(readers)]
<1> DEFINE From(g, m) == IF m = 0 THEN Taken(<<>>, 1) ELSE ThenRead(g[m - 1], readers[m], items)
<1> DEFINE Fits(n, g) == g = [m \in 0 .. n |-> From(g, m)]
<1> DEFINE S == {n \in Nat : \E g : Fits(n, g)}
<1>1. 0 \in S
  <2>1. Fits(0, [m \in 0 .. 0 |-> Taken(<<>>, 1)])
    OBVIOUS
  <2> QED
    BY <2>1
<1>2. ASSUME NEW n \in 0 .. Len(readers) - 1, n \in S PROVE n + 1 \in S
  <2>1. PICK g : Fits(n, g)
    BY <1>2
  <2> DEFINE h == [m \in 0 .. n + 1 |-> From(g, m)]
  <2>2. \A m \in 0 .. n : h[m] = g[m]
    <3> TAKE m \in 0 .. n
    <3>1. g[m] = From(g, m)
      BY <2>1
    <3> QED
      BY <3>1
  <2>3. \A m \in 0 .. n + 1 : From(h, m) = From(g, m)
    <3> HIDE DEF h
    <3> TAKE m \in 0 .. n + 1
    <3>1. m # 0 => h[m - 1] = g[m - 1]
      BY <2>2
    <3> QED
      BY <3>1
  <2> HIDE DEF From
  <2>4. h = [m \in 0 .. n + 1 |-> From(h, m)]
    <3>1. [m \in 0 .. n + 1 |-> From(h, m)] = [m \in 0 .. n + 1 |-> From(g, m)]
      BY <2>3
    <3> QED
      BY <3>1
  <2>5. Fits(n + 1, h)
    BY <2>4
  <2>6. n + 1 \in Nat
    BY <1>2
  <2> HIDE DEF Fits, h
  <2> QED
    BY <2>5, <2>6
<1>3. \E g : Fits(Len(readers), g)
  <2> HIDE DEF Fits
  <2>1. Len(readers) \in S
    BY <1>1, <1>2, Steps
  <2> QED
    BY <2>1
<1> DEFINE done == CHOOSE g : Fits(Len(readers), g)
<1>4. Fits(Len(readers), done)
  <2> HIDE DEF Fits
  <2> QED
    BY <1>3
<1>5. ReadAll(readers, items) = done[Len(readers)]
  BY DEF ReadAll
<1> HIDE DEF done
<1>6. \A m \in 0 .. Len(readers) : done[m] = From(done, m)
  <2> HIDE DEF From
  <2> QED
    BY <1>4
<1>7. \A n \in 0 .. Len(readers) - 1 : done[n + 1] = ThenRead(done[n], readers[n + 1], items)
  <2> TAKE n \in 0 .. Len(readers) - 1
  <2>1. n + 1 \in 0 .. Len(readers) /\ n + 1 # 0 /\ (n + 1) - 1 = n
    OBVIOUS
  <2> QED
    BY <2>1, <1>6
<1>8. done[0] = Taken(<<>>, 1)
  BY <1>6
<1> QED
  BY <1>5, <1>7, <1>8

LEMMA ElementsDone ==
  ASSUME NEW reader, NEW items, Len(items) \in Nat
  PROVE  \E done :
           /\ done[0] = Taken(<<>>, 1)
           /\ \A n \in 0 .. Len(items) - 1 : done[n + 1] = ThenElement(done[n], reader, items)
           /\ ReadElements(reader, items) = done[Len(items)]
<1> DEFINE From(g, m) == IF m = 0 THEN Taken(<<>>, 1) ELSE ThenElement(g[m - 1], reader, items)
<1> DEFINE Fits(n, g) == g = [m \in 0 .. n |-> From(g, m)]
<1> DEFINE S == {n \in Nat : \E g : Fits(n, g)}
<1>1. 0 \in S
  <2>1. Fits(0, [m \in 0 .. 0 |-> Taken(<<>>, 1)])
    OBVIOUS
  <2> QED
    BY <2>1
<1>2. ASSUME NEW n \in 0 .. Len(items) - 1, n \in S PROVE n + 1 \in S
  <2>1. PICK g : Fits(n, g)
    BY <1>2
  <2> DEFINE h == [m \in 0 .. n + 1 |-> From(g, m)]
  <2>2. \A m \in 0 .. n : h[m] = g[m]
    <3> TAKE m \in 0 .. n
    <3>1. g[m] = From(g, m)
      BY <2>1
    <3> QED
      BY <3>1
  <2>3. \A m \in 0 .. n + 1 : From(h, m) = From(g, m)
    <3> HIDE DEF h
    <3> TAKE m \in 0 .. n + 1
    <3>1. m # 0 => h[m - 1] = g[m - 1]
      BY <2>2
    <3> QED
      BY <3>1
  <2> HIDE DEF From
  <2>4. h = [m \in 0 .. n + 1 |-> From(h, m)]
    <3>1. [m \in 0 .. n + 1 |-> From(h, m)] = [m \in 0 .. n + 1 |-> From(g, m)]
      BY <2>3
    <3> QED
      BY <3>1
  <2>5. Fits(n + 1, h)
    BY <2>4
  <2>6. n + 1 \in Nat
    BY <1>2
  <2> HIDE DEF Fits, h
  <2> QED
    BY <2>5, <2>6
<1>3. \E g : Fits(Len(items), g)
  <2> HIDE DEF Fits
  <2>1. Len(items) \in S
    BY <1>1, <1>2, Steps
  <2> QED
    BY <2>1
<1> DEFINE done == CHOOSE g : Fits(Len(items), g)
<1>4. Fits(Len(items), done)
  <2> HIDE DEF Fits
  <2> QED
    BY <1>3
<1>5. ReadElements(reader, items) = done[Len(items)]
  BY DEF ReadElements
<1> HIDE DEF done
<1>6. \A m \in 0 .. Len(items) : done[m] = From(done, m)
  <2> HIDE DEF From
  <2> QED
    BY <1>4
<1>7. \A n \in 0 .. Len(items) - 1 : done[n + 1] = ThenElement(done[n], reader, items)
  <2> TAKE n \in 0 .. Len(items) - 1
  <2>1. n + 1 \in 0 .. Len(items) /\ n + 1 # 0 /\ (n + 1) - 1 = n
    OBVIOUS
  <2> QED
    BY <2>1, <1>6
<1>8. done[0] = Taken(<<>>, 1)
  BY <1>6
<1> QED
  BY <1>5, <1>7, <1>8

-----------------------------------------------------------------------------
(* What values and items are.                                              *)
LEMMA PartsAre ==
  ASSUME NEW F, NEW t \in Types
  PROVE  /\ DOMAIN Parts(F, t) = DOMAIN Type[t].of
         /\ \A i \in DOMAIN Type[t].of : Parts(F, t)[i] = F[Type[t].of[i]]
BY DEF Parts

LEMMA OfIs ==
  ASSUME NEW t \in Types
  PROVE  /\ Len(Type[t].of) \in Nat
         /\ DOMAIN Type[t].of = 1 .. Len(Type[t].of)
         /\ Type[t].of \in Seq(Types)
<1>1. Type[t].of \in Seq(Nat)
  BY TypesAre
<1>2. \A i \in DOMAIN Type[t].of : Type[t].of[i] \in Types
  BY TypesAre
<1> DEFINE of == Type[t].of
<1> HIDE DEF of
<1>3. of \in Seq(Nat) /\ \A i \in DOMAIN of : of[i] \in Types
  BY <1>1, <1>2 DEF of
<1>4. Len(of) \in Nat /\ DOMAIN of = 1 .. Len(of) /\ of \in Seq(Types)
  BY <1>3
<1> QED
  BY <1>4 DEF of

LEMMA StructValues ==
  ASSUME NEW t \in Types, Type[t].k = "struct", NEW v
  PROVE  v \in ValuesOf[t] <=>
           /\ v = [i \in DOMAIN Type[t].of |-> v[i]]
           /\ \A i \in DOMAIN Type[t].of : v[i] \in ValuesOf[Type[t].of[i]]
<1>1. ValuesOf[t] = Product(Parts(ValuesOf, t))
  BY ValuesOfDef, TypesAre DEF ValuesFrom
<1> DEFINE parts == Parts(ValuesOf, t)
<1>2. DOMAIN parts = DOMAIN Type[t].of /\ \A i \in DOMAIN parts : parts[i] = ValuesOf[Type[t].of[i]]
  BY PartsAre
<1> HIDE DEF parts
<1>3. v \in Product(parts) <=> v = [i \in DOMAIN parts |-> v[i]] /\ \A i \in DOMAIN parts : v[i] \in parts[i]
  BY DEF Product
<1> QED
  BY <1>1, <1>2, <1>3 DEF parts

LEMMA VectorValues ==
  ASSUME NEW t \in Types, Type[t].k = "vec", NEW v
  PROVE  v \in ValuesOf[t] <=>
           \E n \in 0 .. MaxLength : v \in [1 .. n -> ValuesOf[Type[t].of[1]]]
<1>1. ValuesOf[t] = Vectors(Parts(ValuesOf, t)[1])
  BY ValuesOfDef, TypesAre DEF ValuesFrom
<1>2. Parts(ValuesOf, t)[1] = ValuesOf[Type[t].of[1]]
  BY PartsAre, TypesAre
<1> QED
  BY <1>1, <1>2 DEF Vectors

LEMMA ItemIs ==
  ASSUME NEW item
  PROVE  item \in Item <=> /\ item = [type |-> item.type, value |-> item.value]
                           /\ item.type \in Types
                           /\ item.value \in ValuesOf[item.type]
BY DEF Item

(* What is iterated over in an item are items.                             *)
LEMMA StructItems ==
  ASSUME NEW item \in Item, Type[item.type].k = "struct"
  PROVE  /\ Items(item) \in Seq(Item)
         /\ Len(Items(item)) = Len(Type[item.type].of)
         /\ \A i \in DOMAIN Type[item.type].of :
              Items(item)[i] = [type |-> Type[item.type].of[i], value |-> item.value[i]]
<1> DEFINE t == item.type  v == item.value  of == Type[t].of
<1>1. t \in Types /\ v \in ValuesOf[t]
  BY ItemIs
<1>2. v = [i \in DOMAIN of |-> v[i]] /\ \A i \in DOMAIN of : v[i] \in ValuesOf[of[i]]
  BY <1>1, StructValues
<1>3. Items(item) = [i \in DOMAIN of |-> [type |-> of[i], value |-> v[i]]]
  BY <1>2 DEF Items
<1>4. \A i \in DOMAIN of : [type |-> of[i], value |-> v[i]] \in Item
  BY <1>1, <1>2, TypesAre, ItemIs
<1>5. DOMAIN of = 1 .. Len(of) /\ Len(of) \in Nat
  BY <1>1, OfIs
<1> HIDE DEF t, v, of
<1>6. Items(item) \in Seq(Item) /\ Len(Items(item)) = Len(of)
  BY <1>3, <1>4, <1>5
<1> QED
  BY <1>3, <1>6 DEF t, v, of

LEMMA VectorItems ==
  ASSUME NEW item \in Item, Type[item.type].k = "vec"
  PROVE  /\ Items(item) \in Seq(Item)
         /\ Len(Items(item)) = Len(item.value)
         /\ Len(Items(item)) \in 0 .. MaxLength
         /\ DOMAIN item.value = 1 .. Len(Items(item))
         /\ \A i \in 1 .. Len(Items(item)) :
              Items(item)[i] = [type |-> Type[item.type].of[1], value |-> item.value[i]]
<1> DEFINE t == item.type  v == item.value  e == Type[t].of[1]
<1>1. t \in Types /\ v \in ValuesOf[t] /\ e \in Types
  BY ItemIs, TypesAre
<1>2. PICK n \in 0 .. MaxLength : v \in [1 .. n -> ValuesOf[e]]
  BY <1>1, VectorValues
<1>3. Items(item) = [i \in 1 .. n |-> [type |-> e, value |-> v[i]]]
  BY <1>2 DEF Items
<1>4. \A i \in 1 .. n : [type |-> e, value |-> v[i]] \in Item
  BY <1>1, <1>2, ItemIs
<1>5. n \in Nat
  BY SerializerAssumption
<1> HIDE DEF t, v, e
<1>6. Items(item) \in Seq(Item) /\ Len(Items(item)) = n /\ Len(v) = n
  BY <1>2, <1>3, <1>4, <1>5
<1> QED
  BY <1>2, <1>3, <1>6 DEF t, v, e

-----------------------------------------------------------------------------
LEMMA Reads ==
  ASSUME NEW t \in Types, NEW items \in Seq(Item), NEW pos \in Nat
  PROVE  /\ Basic(t) => Read[t][items][pos] = ReadBasic(t, items, pos)
         /\ Type[t].k = "struct" => Read[t][items][pos] = ReadStruct(Parts(Read, t), items, pos)
         /\ Type[t].k = "vec" => Read[t][items][pos] = ReadVector(Read[Type[t].of[1]], items, pos)
<1>1. Read[t] = Reader(t, Parts(Read, t))
  BY ReadDef
<1>2. Type[t].k = "vec" => Parts(Read, t)[1] = Read[Type[t].of[1]]
  BY PartsAre, TypesAre
<1> DEFINE readers == Parts(Read, t)
<1> HIDE DEF readers
<1>3. Reader(t, readers)[items] =
        [p \in Nat |->
           CASE Basic(t)               -> ReadBasic(t, items, p)
             [] Type[t].k = "struct"   -> ReadStruct(readers, items, p)
             [] Type[t].k = "vec"      -> ReadVector(readers[1], items, p)]
  BY DEF Reader
<1>4. Reader(t, readers)[items][pos] =
        CASE Basic(t)               -> ReadBasic(t, items, pos)
          [] Type[t].k = "struct"   -> ReadStruct(readers, items, pos)
          [] Type[t].k = "vec"      -> ReadVector(readers[1], items, pos)
  BY <1>3
<1>5. Read[t][items][pos] = Reader(t, readers)[items][pos]
  BY <1>1 DEF readers
<1> QED
  BY <1>2, <1>4, <1>5, TypesAre DEF readers

(* Whatever stands at the position: reading either throws, or finds an     *)
(* item of the same kind, gives a value of the type it is asked for, and   *)
(* advances exactly if that type is basic.                                 *)
ReadsWell(t) ==
  \A items \in Seq(Item), pos \in Nat :
    LET r == Read[t][items][pos] IN
    \/ r = Thrown
    \/ /\ r = Taken(r.value, IF Basic(t) THEN pos + 1 ELSE pos)
       /\ r.value \in ValuesOf[t]
       /\ pos \in DOMAIN items
       /\ Type[items[pos].type].k = Type[t].k

LEMMA BasicReadsWell ==
  ASSUME NEW t \in Types, Basic(t)
  PROVE  ReadsWell(t)
<1> SUFFICES ASSUME NEW items \in Seq(Item), NEW pos \in Nat,
                    Read[t][items][pos] # Thrown
             PROVE  LET r == Read[t][items][pos] IN
                    /\ r = Taken(r.value, pos + 1)
                    /\ r.value \in ValuesOf[t]
                    /\ pos \in DOMAIN items
                    /\ Type[items[pos].type].k = Type[t].k
  BY DEF ReadsWell
<1>1. ArgType(items, pos) = Type[t].k /\ Read[t][items][pos] = Taken(items[pos].value, pos + 1)
  BY Reads DEF ReadBasic
<1>2. pos \in DOMAIN items /\ Type[items[pos].type].k = Type[t].k
  BY <1>1, SerializerAssumption DEF ArgType, Basic
<1>3. items[pos] \in Item
  BY <1>2
<1>4. items[pos].type \in Types /\ items[pos].value \in ValuesOf[items[pos].type]
  BY <1>3, ItemIs
<1>5. \A u \in Types : Basic(u) => ValuesOf[u] = BasicValues[Type[u].k]
  <2> TAKE u \in Types
  <2>1. ValuesOf[u] = ValuesFrom(u, Parts(ValuesOf, u))
    BY ValuesOfDef
  <2> QED
    BY <2>1, TypesAre DEF ValuesFrom
<1>6. items[pos].value \in ValuesOf[t]
  BY <1>2, <1>4, <1>5 DEF Basic
<1> QED
  BY <1>1, <1>2, <1>6 DEF Taken

Values == UNION {ValuesOf[t] : t \in Types}

LEMMA PartsLen ==
  ASSUME NEW F, NEW t \in Types
  PROVE  Len(Parts(F, t)) = Len(Type[t].of)
<1>1. DOMAIN Parts(F, t) = 1 .. Len(Type[t].of) /\ Len(Type[t].of) \in Nat
  BY OfIs DEF Parts
<1> DEFINE p == Parts(F, t)  n == Len(Type[t].of)
<1>2. p = [i \in 1 .. n |-> p[i]]
  BY <1>1 DEF Parts
<1> HIDE DEF p, n
<1>3. p \in Seq({p[i] : i \in 1 .. n})
  BY <1>1, <1>2 DEF p, n
<1>4. Len(p) = n
  BY <1>1, <1>3 DEF p, n
<1> QED
  BY <1>4 DEF p, n

(* What a list's reader has after n values.                                *)
Collecting(d, n) ==
  \/ d = Thrown
  \/ /\ d = Taken(d.value, d.pos)
     /\ d.pos \in 1 .. n + 1
     /\ d.value \in Seq(Values) /\ Len(d.value) = n

LEMMA StartCollects == Collecting(Taken(<<>>, 1), 0)
<1> DEFINE d == Taken(<<>>, 1)
<1>1. d.value = <<>> /\ d.pos = 1 /\ d = Taken(d.value, d.pos)
  BY DEF Taken
<1>2. <<>> \in Seq(Values) /\ Len(<<>>) = 0
  OBVIOUS
<1> HIDE DEF d
<1>3. Collecting(d, 0)
  BY <1>1, <1>2 DEF Collecting
<1> QED
  BY <1>3 DEF d

(* One more reader keeps to that, and appends a value of its type.         *)
LEMMA ThenReadCollects ==
  ASSUME NEW d, NEW n \in Nat, Collecting(d, n),
         NEW u \in Types, ReadsWell(u), NEW items \in Seq(Item),
         NEW e, e = ThenRead(d, Read[u], items)
  PROVE  /\ Collecting(e, n + 1)
         /\ e # Thrown => /\ d # Thrown
                          /\ e.value = Append(d.value, e.value[n + 1])
                          /\ e.value[n + 1] \in ValuesOf[u]
                          /\ \A i \in 1 .. n : e.value[i] = d.value[i]
<1> SUFFICES ASSUME e # Thrown
             PROVE  /\ Collecting(e, n + 1)
                    /\ d # Thrown
                    /\ e.value = Append(d.value, e.value[n + 1])
                    /\ e.value[n + 1] \in ValuesOf[u]
                    /\ \A i \in 1 .. n : e.value[i] = d.value[i]
  BY DEF Collecting
<1> DEFINE r == Read[u][items][d.pos]
<1>1. d.ok /\ r.ok /\ e = Taken(Append(d.value, r.value), r.pos)
  BY DEF ThenRead
<1>2. d # Thrown /\ d.pos \in Nat /\ d.pos \in 1 .. n + 1 /\ d.value \in Seq(Values) /\ Len(d.value) = n
  BY <1>1 DEF Collecting, Thrown
<1>3. /\ r = Taken(r.value, IF Basic(u) THEN d.pos + 1 ELSE d.pos)
      /\ r.value \in ValuesOf[u]
  BY <1>1, <1>2 DEF ReadsWell, Thrown
<1>4. r.pos \in 1 .. n + 2
  <2>1. r.pos = IF Basic(u) THEN d.pos + 1 ELSE d.pos
    BY <1>3 DEF Taken
  <2> QED
    BY <2>1, <1>2
<1>5. r.value \in Values
  BY <1>3 DEF Values
<1> HIDE DEF r
<1>6. e.value = Append(d.value, r.value) /\ e.pos = r.pos /\ e = Taken(e.value, e.pos)
  BY <1>1 DEF Taken
<1>7. e.value \in Seq(Values) /\ Len(e.value) = n + 1 /\ e.value[n + 1] = r.value
      /\ \A i \in 1 .. n : e.value[i] = d.value[i]
  BY <1>2, <1>5, <1>6
<1> QED
  BY <1>2, <1>3, <1>4, <1>6, <1>7 DEF Collecting

(* The members of a struct, one after another.                             *)
LEMMA StructReadsWell ==
  ASSUME NEW t \in Types, Type[t].k = "struct",
         \A i \in DOMAIN Type[t].of : ReadsWell(Type[t].of[i])
  PROVE  ReadsWell(t)
<1> SUFFICES ASSUME NEW items \in Seq(Item), NEW pos \in Nat,
                    Read[t][items][pos] # Thrown
             PROVE  LET r == Read[t][items][pos] IN
                    /\ r = Taken(r.value, pos)
                    /\ r.value \in ValuesOf[t]
                    /\ pos \in DOMAIN items
                    /\ Type[items[pos].type].k = Type[t].k
  BY TypesAre DEF ReadsWell
<1> DEFINE sub == Items(items[pos])  of == Type[t].of  readers == Parts(Read, t)
<1>1. /\ ArgType(items, pos) = "struct"
      /\ ReadAll(readers, sub).ok
      /\ Read[t][items][pos] = Taken(ReadAll(readers, sub).value, pos)
  BY Reads DEF ReadStruct
<1>2. pos \in DOMAIN items /\ Type[items[pos].type].k = "struct"
  BY <1>1 DEF ArgType
<1>3. items[pos] \in Item
  BY <1>2
<1>4. sub \in Seq(Item)
  BY <1>2, <1>3, StructItems
<1>5. Len(readers) = Len(of) /\ Len(of) \in Nat /\ DOMAIN of = 1 .. Len(of)
      /\ \A i \in 1 .. Len(of) : of[i] \in Types /\ readers[i] = Read[of[i]] /\ ReadsWell(of[i])
  <2>1. Len(readers) = Len(of) /\ Len(of) \in Nat /\ DOMAIN of = 1 .. Len(of)
    BY PartsLen, OfIs
  <2>2. \A i \in DOMAIN of : of[i] \in Types /\ readers[i] = Read[of[i]] /\ ReadsWell(of[i])
    BY PartsAre, TypesAre
  <2> QED
    BY <2>1, <2>2
<1> HIDE DEF sub, readers, of
<1>6. PICK done :
           /\ done[0] = Taken(<<>>, 1)
           /\ \A n \in 0 .. Len(readers) - 1 : done[n + 1] = ThenRead(done[n], readers[n + 1], sub)
           /\ ReadAll(readers, sub) = done[Len(readers)]
  BY <1>5, AllDone
<1> DEFINE Good(n) == /\ Collecting(done[n], n)
                      /\ done[n] # Thrown => \A i \in 1 .. n : done[n].value[i] \in ValuesOf[of[i]]
           S == {n \in 0 .. Len(of) : Good(n)}
<1>7. 0 \in S
  <2>1. Collecting(done[0], 0)
    BY <1>6, StartCollects
  <2>2. \A i \in 1 .. 0 : done[0].value[i] \in ValuesOf[of[i]]
    OBVIOUS
  <2> QED
    BY <1>5, <2>1, <2>2
<1>8. \A n \in 0 .. Len(of) - 1 : n \in S => n + 1 \in S
  <2> SUFFICES ASSUME NEW n \in 0 .. Len(of) - 1, Good(n) PROVE Good(n + 1)
    BY <1>5
  <2>1. n + 1 \in 1 .. Len(of) /\ n \in Nat
    BY <1>5
  <2>2. done[n + 1] = ThenRead(done[n], Read[of[n + 1]], sub)
    BY <2>1, <1>5, <1>6
  <2>3. /\ Collecting(done[n + 1], n + 1)
        /\ done[n + 1] # Thrown => /\ done[n] # Thrown
                                   /\ done[n + 1].value[n + 1] \in ValuesOf[of[n + 1]]
                                   /\ \A i \in 1 .. n : done[n + 1].value[i] = done[n].value[i]
    BY <2>1, <2>2, <1>4, <1>5, ThenReadCollects
  <2> QED
    BY <2>1, <2>3
<1>9. Good(Len(of))
  <2> HIDE DEF Good
  <2>1. Len(of) \in S
    BY <1>5, <1>7, <1>8, Steps
  <2> QED
    BY <2>1
<1> DEFINE value == done[Len(of)].value
<1>10. /\ value \in Seq(Values) /\ Len(value) = Len(of)
       /\ \A i \in 1 .. Len(of) : value[i] \in ValuesOf[of[i]]
  BY <1>1, <1>5, <1>6, <1>9 DEF Collecting, Thrown
<1> HIDE DEF value
<1>11. value \in ValuesOf[t]
  <2>1. value = [i \in DOMAIN of |-> value[i]]
    BY <1>5, <1>10
  <2> QED
    BY <2>1, <1>5, <1>10, StructValues DEF of
<1>12. Read[t][items][pos] = Taken(value, pos)
  BY <1>1, <1>5, <1>6 DEF value
<1> QED
  BY <1>2, <1>11, <1>12 DEF Taken

(* What a vector's loop has after n rounds.                                *)
Gathering(d, n, V) ==
  \/ d = Thrown
  \/ /\ d = Taken(d.value, d.pos)
     /\ d.pos \in Nat \ {0}
     /\ d.value \in Seq(V) /\ Len(d.value) <= n

LEMMA StartGathers == ASSUME NEW V PROVE Gathering(Taken(<<>>, 1), 0, V)
<1> DEFINE d == Taken(<<>>, 1)
<1>1. d.value = <<>> /\ d.pos = 1 /\ d = Taken(d.value, d.pos)
  BY DEF Taken
<1>2. <<>> \in Seq(V) /\ Len(<<>>) <= 0 /\ 1 \in Nat \ {0}
  OBVIOUS
<1> HIDE DEF d
<1>3. Gathering(d, 0, V)
  BY <1>1, <1>2 DEF Gathering
<1> QED
  BY <1>3 DEF d

(* One more round keeps to that.                                           *)
LEMMA ThenElementGathers ==
  ASSUME NEW d, NEW n \in Nat, NEW items \in Seq(Item), NEW u \in Types, ReadsWell(u),
         Gathering(d, n, ValuesOf[u]),
         NEW e, e = ThenElement(d, Read[u], items)
  PROVE  Gathering(e, n + 1, ValuesOf[u])
<1> DEFINE V == ValuesOf[u]
<1>0. CASE e = d
  <2> HIDE DEF V
  <2>1. Gathering(d, n, V)
    BY DEF V
  <2>2. Gathering(d, n + 1, V)
    BY <2>1 DEF Gathering
  <2> QED
    BY <1>0, <2>2 DEF V
<1>00. CASE e = Thrown
  BY <1>00 DEF Gathering
<1> SUFFICES ASSUME e # Thrown, e # d PROVE Gathering(e, n + 1, V)
  BY <1>0, <1>00
<1> DEFINE r == Read[u][items][d.pos]
<1>1. d.ok /\ r.ok /\ e = Taken(Append(d.value, r.value), r.pos + 1)
  BY DEF ThenElement
<1>2. d.pos \in Nat \ {0} /\ d.value \in Seq(V) /\ Len(d.value) <= n
  BY <1>1 DEF Gathering, Thrown
<1>3. /\ r = Taken(r.value, IF Basic(u) THEN d.pos + 1 ELSE d.pos)
      /\ r.value \in ValuesOf[u]
  BY <1>1, <1>2 DEF ReadsWell, Thrown
<1>4. r.pos \in Nat \ {0}
  <2>1. r.pos = IF Basic(u) THEN d.pos + 1 ELSE d.pos
    BY <1>3 DEF Taken
  <2> QED
    BY <2>1, <1>2
<1>5. r.value \in V
  BY <1>3
<1> HIDE DEF r, V
<1>6. e.value = Append(d.value, r.value) /\ e.pos = r.pos + 1 /\ e = Taken(e.value, e.pos)
  BY <1>1 DEF Taken
<1>7. e.value \in Seq(V) /\ Len(e.value) <= n + 1 /\ e.pos \in Nat \ {0}
  BY <1>2, <1>4, <1>5, <1>6
<1> QED
  BY <1>6, <1>7 DEF Gathering

LEMMA VectorReadsWell ==
  ASSUME NEW t \in Types, Type[t].k = "vec", ReadsWell(Type[t].of[1])
  PROVE  ReadsWell(t)
<1> SUFFICES ASSUME NEW items \in Seq(Item), NEW pos \in Nat,
                    Read[t][items][pos] # Thrown
             PROVE  LET r == Read[t][items][pos] IN
                    /\ r = Taken(r.value, pos)
                    /\ r.value \in ValuesOf[t]
                    /\ pos \in DOMAIN items
                    /\ Type[items[pos].type].k = Type[t].k
  BY TypesAre DEF ReadsWell
<1> DEFINE sub == Items(items[pos])  u == Type[t].of[1]
<1>1. /\ ArgType(items, pos) = "vec"
      /\ ReadElements(Read[u], sub).ok
      /\ Read[t][items][pos] = Taken(ReadElements(Read[u], sub).value, pos)
  BY Reads DEF ReadVector
<1>2. pos \in DOMAIN items /\ Type[items[pos].type].k = "vec"
  BY <1>1 DEF ArgType
<1>3. items[pos] \in Item
  BY <1>2
<1>4. sub \in Seq(Item) /\ Len(sub) \in 0 .. MaxLength /\ MaxLength \in Nat
      /\ Len(sub) \in Nat
  BY <1>2, <1>3, VectorItems, SerializerAssumption
<1>5. u \in Types /\ ReadsWell(u)
  BY TypesAre
<1> HIDE DEF sub, u
<1>6. PICK done :
           /\ done[0] = Taken(<<>>, 1)
           /\ \A n \in 0 .. Len(sub) - 1 : done[n + 1] = ThenElement(done[n], Read[u], sub)
           /\ ReadElements(Read[u], sub) = done[Len(sub)]
  BY <1>4, ElementsDone
<1> DEFINE Good(n) == Gathering(done[n], n, ValuesOf[u])
           S == {n \in 0 .. Len(sub) : Good(n)}
<1>7. 0 \in S
  BY <1>4, <1>6, StartGathers
<1>8. \A n \in 0 .. Len(sub) - 1 : n \in S => n + 1 \in S
  <2> SUFFICES ASSUME NEW n \in 0 .. Len(sub) - 1, Good(n) PROVE Good(n + 1)
    BY <1>4
  <2>1. n \in Nat /\ done[n + 1] = ThenElement(done[n], Read[u], sub)
    BY <1>6
  <2> QED
    BY <2>1, <1>4, <1>5, ThenElementGathers
<1>9. Good(Len(sub))
  <2> HIDE DEF Good
  <2>1. Len(sub) \in S
    BY <1>4, <1>7, <1>8, Steps
  <2> QED
    BY <2>1
<1> DEFINE value == done[Len(sub)].value
<1>10. value \in Seq(ValuesOf[u]) /\ Len(value) <= Len(sub)
  BY <1>1, <1>6, <1>9 DEF Gathering, Thrown
<1> HIDE DEF value
<1>11. value \in ValuesOf[t]
  <2>1. Len(value) \in 0 .. MaxLength /\ value \in [1 .. Len(value) -> ValuesOf[u]]
    BY <1>4, <1>10
  <2> QED
    BY <2>1, VectorValues DEF u
<1>12. Read[t][items][pos] = Taken(value, pos)
  BY <1>1, <1>6 DEF value
<1> QED
  BY <1>2, <1>11, <1>12 DEF Taken

(* By induction on types.                                                  *)
LEMMA AllReadWell == \A t \in Types : ReadsWell(t)
<1> DEFINE S == {t \in Types : ReadsWell(t)}
<1> HIDE DEF ReadsWell
<1>1. ASSUME NEW t \in Types, \A u \in 1 .. t - 1 : u \in S PROVE t \in S
  <2>1. \A i \in DOMAIN Type[t].of : ReadsWell(Type[t].of[i])
    BY <1>1, TypesAre
  <2> QED
    BY <2>1, BasicReadsWell, StructReadsWell, VectorReadsWell, TypesAre
<1>2. \A t \in Types : t \in S
  <2> HIDE DEF S
  <2> QED
    BY <1>1, TypeInduction
<1> QED
  BY <1>2

-----------------------------------------------------------------------------
(* Which values can be written.                                            *)
LEMMA WithinIs ==
  ASSUME NEW t \in Types
  PROVE  /\ t \in Within[t]
         /\ \A i \in DOMAIN Type[t].of : Within[Type[t].of[i]] \subseteq Within[t]
<1>1. Within[t] = WithinFrom(t, Parts(Within, t))
  BY WithinDef
<1>2. \A i \in DOMAIN Parts(Within, t) : Parts(Within, t)[i] \subseteq Within[t]
  BY <1>1 DEF WithinFrom
<1>3. t \in Within[t]
  BY <1>1 DEF WithinFrom
<1> QED
  BY <1>2, <1>3, PartsAre

LEMMA BasicWithin == ASSUME NEW t \in Types, Basic(t) PROVE Within[t] = {t}
<1>1. Within[t] = {t} \cup UNION {Parts(Within, t)[i] : i \in DOMAIN Parts(Within, t)}
  BY WithinDef DEF WithinFrom
<1>2. DOMAIN Parts(Within, t) = {}
  BY SerializerAssumption DEF Parts
<1> QED
  BY <1>1, <1>2

(* What is readable has readable parts and no vector within a vector.      *)
LEMMA ReadableIs ==
  ASSUME NEW t \in Types
  PROVE  /\ Basic(t) => Readable(t)
         /\ Readable(t) => /\ \A i \in DOMAIN Type[t].of : Readable(Type[t].of[i])
                           /\ ~NestsVectors(t)
                           /\ Type[t].k = "struct" => BasicButLast(Type[t].of)
                           /\ Type[t].k = "vec" => Type[Type[t].of[1]].k = "struct"
<1>1. Basic(t) => Readable(t)
  BY BasicWithin, TypesAre DEF Readable
<1>2. Readable(t) => \A i \in DOMAIN Type[t].of : Readable(Type[t].of[i])
  BY WithinIs DEF Readable
<1>3. Readable(t) => ~NestsVectors(t)
  BY DEF Readable, NestsVectors
<1>4. Readable(t) => /\ Type[t].k = "struct" => BasicButLast(Type[t].of)
                     /\ Type[t].k = "vec" => Type[Type[t].of[1]].k = "struct"
  BY WithinIs DEF Readable
<1> QED
  BY <1>1, <1>2, <1>3, <1>4

(* Without a vector in it, a type is described as it is written, ...       *)
LEMMA DescribedAsWritten == \A t \in Types : ~HasVector(t) => Written[t] = Collected[t]
<1> DEFINE S == {t \in Types : ~HasVector(t) => Written[t] = Collected[t]}
<1>1. ASSUME NEW t \in Types, \A u \in 1 .. t - 1 : u \in S PROVE t \in S
  <2> SUFFICES ASSUME ~HasVector(t) PROVE Written[t] = Collected[t]
    OBVIOUS
  <2>1. Type[t].k # "vec" /\ \A i \in DOMAIN Type[t].of : ~HasVector(Type[t].of[i])
    BY WithinIs DEF HasVector
  <2>2. \A i \in DOMAIN Type[t].of : Written[Type[t].of[i]] = Collected[Type[t].of[i]]
    BY <2>1, <1>1, TypesAre
  <2>3. Parts(Written, t) = Parts(Collected, t)
    BY <2>2 DEF Parts
  <2>4. Written[t] = WrittenFrom(t, Parts(Written, t)) /\ Collected[t] = CollectedFrom(t, Parts(Collected, t))
    BY WrittenDef, CollectedDef
  <2> QED
    BY <2>1, <2>3, <2>4 DEF WrittenFrom, CollectedFrom
<1>2. \A t \in Types : t \in S
  <2> HIDE DEF S
  <2> QED
    BY <1>1, TypeInduction
<1> QED
  BY <1>2

(* The strings in a value's parts are strings in the value.                *)
LEMMA BadTextIs ==
  ASSUME NEW t \in Types, NEW v \in ValuesOf[t], v \notin BadText[t]
  PROVE  /\ Basic(t) => CStr[v] \notin NotUtf8
         /\ ~Basic(t) => \A i \in DOMAIN v :
              v[i] \notin BadText[Type[t].of[IF Type[t].k = "vec" THEN 1 ELSE i]]
<1> DEFINE parts == Parts(BadText, t)
<1>1. BadText[t] = BadTextFrom(t, parts)
  BY BadTextDef
<1>2. ~Basic(t) => \A i \in DOMAIN v :
         parts[IF Type[t].k = "vec" THEN 1 ELSE i] = BadText[Type[t].of[IF Type[t].k = "vec" THEN 1 ELSE i]]
  <2>1. CASE Type[t].k = "struct"
    <3>1. v = [i \in DOMAIN Type[t].of |-> v[i]]
      BY <2>1, StructValues
    <3>2. DOMAIN v = DOMAIN Type[t].of
      BY <3>1
    <3> QED
      BY <2>1, <3>2, PartsAre
  <2>2. CASE Type[t].k = "vec"
    BY <2>2, PartsAre, TypesAre
  <2> QED
    BY <2>1, <2>2, TypesAre
<1> HIDE DEF parts
<1> QED
  BY <1>1, <1>2 DEF BadTextFrom

(* ... so libdbus lets every value through whose vectors hold no vectors   *)
(* and whose strings are UTF-8.                                            *)
LEMMA AllWritable == \A t \in Types : ~NestsVectors(t) => ValuesOf[t] \ BadText[t] \subseteq Writable[t]
<1> DEFINE S == {t \in Types : ~NestsVectors(t) => ValuesOf[t] \ BadText[t] \subseteq Writable[t]}
<1>1. ASSUME NEW t \in Types, \A u \in 1 .. t - 1 : u \in S PROVE t \in S
  <2> SUFFICES ASSUME ~NestsVectors(t), NEW v \in ValuesOf[t], v \notin BadText[t] PROVE v \in Writable[t]
    OBVIOUS
  <2>1. \A i \in DOMAIN Type[t].of : ~NestsVectors(Type[t].of[i])
    BY WithinIs DEF NestsVectors
  <2>2. \A i \in DOMAIN Type[t].of : ValuesOf[Type[t].of[i]] \ BadText[Type[t].of[i]] \subseteq Writable[Type[t].of[i]]
    BY <2>1, <1>1, TypesAre
  <2>3. Writable[t] = WritableFrom(t, Parts(Writable, t))
    BY WritableDef
  <2>4. CASE Basic(t)
    BY <2>3, <2>4, BadTextIs, TypesAre DEF WritableFrom
  <2>5. CASE Type[t].k = "struct"
    <3>1. v = [i \in DOMAIN Type[t].of |-> v[i]] /\ \A i \in DOMAIN Type[t].of : v[i] \in ValuesOf[Type[t].of[i]]
      BY <2>5, StructValues
    <3>2. \A i \in DOMAIN v : v[i] \in Parts(Writable, t)[i]
      <4>1. DOMAIN v = DOMAIN Type[t].of
        BY <3>1
      <4>2. \A i \in DOMAIN v : v[i] \notin BadText[Type[t].of[i]]
        BY <2>5, BadTextIs, TypesAre
      <4> QED
        BY <3>1, <4>1, <4>2, <2>2, PartsAre
    <3> QED
      BY <2>3, <2>5, <3>2, TypesAre DEF WritableFrom
  <2>6. CASE Type[t].k = "vec"
    <3>1. 1 \in DOMAIN Type[t].of /\ DOMAIN Type[t].of = {1} /\ Type[t].of[1] \in Types
      BY <2>6, TypesAre
    <3>2. \A i \in DOMAIN v : v[i] \in ValuesOf[Type[t].of[1]]
      BY <2>6, VectorValues
    <3>3. \A i \in DOMAIN v : v[i] \in Parts(Writable, t)[1]
      <4>1. \A i \in DOMAIN v : v[i] \notin BadText[Type[t].of[1]]
        BY <2>6, BadTextIs, TypesAre
      <4> QED
        BY <3>1, <3>2, <4>1, <2>2, PartsAre
    <3>4. ~HasVector(Type[t].of[1])
      BY <2>6, WithinIs DEF NestsVectors
    <3>5. Parts(Written, t) = Parts(Collected, t)
      BY <3>1, <3>4, DescribedAsWritten DEF Parts
    <3> QED
      BY <2>3, <2>6, <3>3, <3>5, TypesAre DEF WritableFrom
  <2> QED
    BY <2>4, <2>5, <2>6, TypesAre
<1>2. \A t \in Types : t \in S
  <2> HIDE DEF S
  <2> QED
    BY <1>1, TypeInduction
<1> QED
  BY <1>2

(* What is sent of a value is a value of the same type.                    *)
LEMMA AllSent == \A t \in Types : \A v \in ValuesOf[t] : Sent[t][v] \in ValuesOf[t]
<1> DEFINE Keeps(t) == \A v \in ValuesOf[t] : Sent[t][v] \in ValuesOf[t]
           S == {t \in Types : Keeps(t)}
<1>1. ASSUME NEW t \in Types, \A u \in 1 .. t - 1 : u \in S PROVE t \in S
  <2> SUFFICES ASSUME NEW v \in ValuesOf[t] PROVE Sent[t][v] \in ValuesOf[t]
    OBVIOUS
  <2>1. \A i \in DOMAIN Type[t].of : Keeps(Type[t].of[i])
    BY <1>1, TypesAre
  <2> DEFINE parts == Parts(Sent, t)  w == Sent[t][v]
  <2>2. w = IF Basic(t) THEN CStr[v]
            ELSE [i \in DOMAIN v |-> parts[IF Type[t].k = "vec" THEN 1 ELSE i][v[i]]]
    <3>1. Sent[t] = SentFrom(t, parts)
      BY SentDef
    <3> HIDE DEF parts
    <3> QED
      BY <3>1 DEF SentFrom
  <2>3. CASE Basic(t)
    <3>1. ValuesOf[t] = BasicValues[Type[t].k]
      <4>1. ValuesOf[t] = ValuesFrom(t, Parts(ValuesOf, t))
        BY ValuesOfDef
      <4> QED
        BY <4>1, <2>3, TypesAre DEF ValuesFrom
    <3> QED
      BY <2>2, <2>3, <3>1, SerializerAssumption DEF Basic
  <2>4. CASE Type[t].k = "struct"
    <3>1. v = [i \in DOMAIN Type[t].of |-> v[i]] /\ \A i \in DOMAIN Type[t].of : v[i] \in ValuesOf[Type[t].of[i]]
      BY <2>4, StructValues
    <3>2. DOMAIN v = DOMAIN Type[t].of
      BY <3>1
    <3> HIDE DEF parts, w
    <3>3. w = [i \in DOMAIN Type[t].of |-> parts[i][v[i]]]
      BY <2>2, <2>4, <3>2, TypesAre
    <3>4. \A i \in DOMAIN Type[t].of : parts[i][v[i]] \in ValuesOf[Type[t].of[i]]
      BY <2>1, <3>1, PartsAre DEF parts
    <3>5. w = [i \in DOMAIN Type[t].of |-> w[i]]
      BY <3>3
    <3>6. \A i \in DOMAIN Type[t].of : w[i] \in ValuesOf[Type[t].of[i]]
      BY <3>3, <3>4
    <3>7. w \in ValuesOf[t]
      BY <2>4, <3>5, <3>6, StructValues
    <3> QED
      BY <3>7 DEF w
  <2>5. CASE Type[t].k = "vec"
    <3> DEFINE u == Type[t].of[1]
    <3>1. 1 \in DOMAIN Type[t].of /\ u \in Types /\ ~Basic(t)
      BY <2>5, TypesAre
    <3>2. PICK n \in 0 .. MaxLength : v \in [1 .. n -> ValuesOf[u]]
      BY <2>5, VectorValues
    <3>3. parts[1] = Sent[u] /\ Keeps(u)
      BY <2>1, <3>1, PartsAre
    <3> HIDE DEF parts, w, u
    <3>4. w = [i \in 1 .. n |-> parts[1][v[i]]]
      BY <2>2, <2>5, <3>1, <3>2
    <3>5. w \in [1 .. n -> ValuesOf[u]]
      BY <3>2, <3>3, <3>4
    <3>6. w \in ValuesOf[t]
      BY <2>5, <3>5, VectorValues DEF u
    <3> QED
      BY <3>6 DEF w
  <2> QED
    BY <2>3, <2>4, <2>5, TypesAre
<1>2. \A t \in Types : t \in S
  <2> HIDE DEF S
  <2> QED
    BY <1>1, TypeInduction
<1> QED
  BY <1>2

-----------------------------------------------------------------------------
(* Reading an item as the type it was written as: what is not fragile is   *)
(* read unchanged if at all, and what is readable is read.                 *)
Faithful(t) ==
  \A items \in Seq(Item), pos \in Nat :
    pos \in DOMAIN items /\ items[pos].type = t =>
      LET r == Read[t][items][pos] IN
      /\ r # Thrown /\ items[pos].value \notin Fragile[t] => r.value = items[pos].value
      /\ Readable(t) => r # Thrown /\ r.value = items[pos].value

(* The items of a list, and where the iterator is after n of them.         *)
Holds(items, ts, vs) ==
  /\ items \in Seq(Item) /\ Len(items) = Len(ts)
  /\ \A i \in DOMAIN ts : items[i] = [type |-> ts[i], value |-> vs[i]]
At(ts, n) == IF n > 0 /\ ~Basic(ts[n]) THEN n ELSE n + 1

Arrived(d, n, ts, vs) ==
  /\ d = Taken(d.value, At(ts, n))
  /\ d.value \in Seq(Values) /\ Len(d.value) = n
  /\ \A i \in 1 .. n : d.value[i] = vs[i]

(* If all so far has arrived, the next does: if it is read at all, is not  *)
(* fragile and the list repeats nothing, or if the list is supported.      *)
LEMMA NextArrives ==
  ASSUME NEW ts \in Seq(Types), NEW vs, NEW items, Holds(items, ts, vs),
         NEW n \in 0 .. Len(ts) - 1, NEW d, Arrived(d, n, ts, vs),
         Faithful(ts[n + 1]),
         NEW e, e = ThenRead(d, Read[ts[n + 1]], items)
  PROVE  /\ e # Thrown /\ ~Repeats(ts) /\ vs[n + 1] \notin Fragile[ts[n + 1]]
              => Arrived(e, n + 1, ts, vs)
         /\ BasicButLast(ts) /\ Readable(ts[n + 1]) => e # Thrown /\ Arrived(e, n + 1, ts, vs)
<1> DEFINE u == ts[n + 1]  r == Read[u][items][d.pos]
<1>1. n \in Nat /\ n + 1 \in DOMAIN ts /\ u \in Types /\ DOMAIN ts = 1 .. Len(ts) /\ items \in Seq(Item)
      /\ DOMAIN items = DOMAIN ts /\ Len(ts) \in Nat
  BY DEF Holds
<1>2. d.ok /\ d.pos = At(ts, n) /\ d.value \in Seq(Values) /\ Len(d.value) = n
  BY DEF Arrived, Taken
<1>3. d.pos \in Nat /\ d.pos = IF n > 0 /\ ~Basic(ts[n]) THEN n ELSE n + 1
  BY <1>1, <1>2 DEF At
<1>4. \/ r = Thrown
      \/ /\ r = Taken(r.value, IF Basic(u) THEN d.pos + 1 ELSE d.pos)
         /\ r.value \in ValuesOf[u]
         /\ d.pos \in DOMAIN items
         /\ Type[items[d.pos].type].k = Type[u].k
  BY <1>1, <1>3, AllReadWell DEF ReadsWell
<1>5. e = IF r.ok THEN Taken(Append(d.value, r.value), r.pos) ELSE Thrown
  BY <1>2 DEF ThenRead
<1>6. r = Thrown => ~r.ok
  BY DEF Thrown
<1>7. r # Thrown => r.ok
  BY <1>4 DEF Taken
<1>8. ASSUME r # Thrown, n > 0 => Basic(ts[n]), r.value = vs[n + 1]
      PROVE  e # Thrown /\ Arrived(e, n + 1, ts, vs)
  <2>1. d.pos = n + 1
    BY <1>3, <1>8
  <2>2. r.pos = IF Basic(u) THEN n + 2 ELSE n + 1
    BY <1>4, <1>8, <1>1, <2>1 DEF Taken
  <2>3. r.pos = At(ts, n + 1)
    BY <2>2, <1>1 DEF At
  <2>4. r.value \in Values
    BY <1>4, <1>8, <1>1 DEF Values
  <2> HIDE DEF r
  <2>5. e = Taken(Append(d.value, r.value), r.pos)
    BY <1>5, <1>7, <1>8
  <2>6. e.value = Append(d.value, r.value) /\ e.ok /\ e = Taken(e.value, At(ts, n + 1))
    BY <2>3, <2>5 DEF Taken
  <2>7. e.value \in Seq(Values) /\ Len(e.value) = n + 1 /\ e.value[n + 1] = r.value
        /\ \A i \in 1 .. n : e.value[i] = d.value[i]
    BY <1>1, <1>2, <2>4, <2>6
  <2>8. \A i \in 1 .. n + 1 : e.value[i] = vs[i]
    BY <1>1, <1>8, <2>7 DEF Arrived
  <2> QED
    BY <2>6, <2>7, <2>8 DEF Arrived, Thrown
<1>9. ASSUME n > 0 => Basic(ts[n]), r # Thrown, vs[n + 1] \notin Fragile[u]
      PROVE  r.value = vs[n + 1]
  <2>1. d.pos = n + 1 /\ items[n + 1].type = u /\ items[n + 1].value = vs[n + 1]
    BY <1>1, <1>3, <1>9 DEF Holds
  <2> QED
    BY <2>1, <1>1, <1>9 DEF Faithful
<1>10. ASSUME n > 0 => Basic(ts[n]), Readable(u)
       PROVE  r # Thrown /\ r.value = vs[n + 1]
  <2>1. d.pos = n + 1 /\ items[n + 1].type = u /\ items[n + 1].value = vs[n + 1]
    BY <1>1, <1>3, <1>10 DEF Holds
  <2> QED
    BY <2>1, <1>1, <1>10 DEF Faithful
<1>11. ASSUME r # Thrown, n > 0, ~Basic(ts[n]) PROVE Repeats(ts)
  <2>1. d.pos = n /\ n \in DOMAIN ts /\ n < Len(ts)
    BY <1>1, <1>3, <1>11
  <2>2. items[n] = [type |-> ts[n], value |-> vs[n]]
    BY <2>1 DEF Holds
  <2>3. items[n].type = ts[n]
    BY <2>2
  <2> QED
    BY <2>1, <2>3, <1>1, <1>4, <1>11 DEF Repeats
<1>12. BasicButLast(ts) => (n > 0 => Basic(ts[n]))
  BY <1>1 DEF BasicButLast
<1>13. e # Thrown => r # Thrown
  BY <1>5, <1>6
<1> HIDE DEF r
<1> QED
  BY <1>8, <1>9, <1>10, <1>11, <1>12, <1>13

LEMMA NoneArrived == ASSUME NEW ts, NEW vs PROVE Arrived(Taken(<<>>, 1), 0, ts, vs)
<1> DEFINE d == Taken(<<>>, 1)
<1>1. d.value = <<>> /\ d = Taken(d.value, 1)
  BY DEF Taken
<1>2. <<>> \in Seq(Values) /\ Len(<<>>) = 0
  OBVIOUS
<1>3. At(ts, 0) = 1
  BY DEF At
<1> HIDE DEF d
<1>4. Arrived(d, 0, ts, vs)
  BY <1>1, <1>2, <1>3 DEF Arrived
<1> QED
  BY <1>4 DEF d

LEMMA BasicFaithful == ASSUME NEW t \in Types, Basic(t) PROVE Faithful(t)
<1> SUFFICES ASSUME NEW items \in Seq(Item), NEW pos \in Nat, pos \in DOMAIN items, items[pos].type = t
             PROVE  LET r == Read[t][items][pos] IN r # Thrown /\ r.value = items[pos].value
  BY DEF Faithful
<1>1. Read[t][items][pos] = Taken(items[pos].value, pos + 1)
  BY Reads DEF ReadBasic, ArgType
<1> QED
  BY <1>1 DEF Taken, Thrown

(* So do all members of a struct, ...                                      *)
LEMMA ListArrives ==
  ASSUME NEW ts \in Seq(Types), NEW vs, NEW items, Holds(items, ts, vs),
         NEW readers, Len(readers) = Len(ts),
         \A i \in DOMAIN ts : readers[i] = Read[ts[i]] /\ Faithful(ts[i]),
         NEW d, d = ReadAll(readers, items)
  PROVE  /\ d # Thrown /\ ~Repeats(ts) /\ (\A i \in DOMAIN ts : vs[i] \notin Fragile[ts[i]])
              => Arrived(d, Len(ts), ts, vs)
         /\ BasicButLast(ts) /\ (\A i \in DOMAIN ts : Readable(ts[i])) => Arrived(d, Len(ts), ts, vs)
<1> DEFINE Sound == ~Repeats(ts) /\ \A i \in DOMAIN ts : vs[i] \notin Fragile[ts[i]]
           Sure == BasicButLast(ts) /\ \A i \in DOMAIN ts : Readable(ts[i])
<1>1. Len(ts) \in Nat /\ DOMAIN ts = 1 .. Len(ts) /\ Len(readers) \in Nat
  OBVIOUS
<1>2. PICK done :
           /\ done[0] = Taken(<<>>, 1)
           /\ \A n \in 0 .. Len(readers) - 1 : done[n + 1] = ThenRead(done[n], readers[n + 1], items)
           /\ ReadAll(readers, items) = done[Len(readers)]
  BY <1>1, AllDone
<1> DEFINE Good(n) == /\ Sound => done[n] = Thrown \/ Arrived(done[n], n, ts, vs)
                      /\ Sure => Arrived(done[n], n, ts, vs)
           S == {n \in 0 .. Len(ts) : Good(n)}
<1>3. 0 \in S
  BY <1>1, <1>2, NoneArrived
<1>4. \A n \in 0 .. Len(ts) - 1 : n \in S => n + 1 \in S
  <2> SUFFICES ASSUME NEW n \in 0 .. Len(ts) - 1, Good(n) PROVE Good(n + 1)
    BY <1>1
  <2>1. n + 1 \in DOMAIN ts
    BY <1>1
  <2>2. done[n + 1] = ThenRead(done[n], Read[ts[n + 1]], items) /\ Faithful(ts[n + 1])
    BY <1>1, <1>2, <2>1
  <2>3. CASE done[n] = Thrown
    <3>1. done[n + 1] = Thrown
      BY <2>2, <2>3 DEF ThenRead, Thrown
    <3>2. ~Arrived(done[n], n, ts, vs)
      BY <2>3 DEF Arrived, Taken, Thrown
    <3> QED
      BY <3>1, <3>2
  <2>4. CASE Arrived(done[n], n, ts, vs)
    <3> HIDE DEF Sound, Sure
    <3>1. /\ done[n + 1] # Thrown /\ ~Repeats(ts) /\ vs[n + 1] \notin Fragile[ts[n + 1]]
              => Arrived(done[n + 1], n + 1, ts, vs)
          /\ BasicButLast(ts) /\ Readable(ts[n + 1]) => Arrived(done[n + 1], n + 1, ts, vs)
      BY <2>2, <2>4, NextArrives
    <3> QED
      BY <2>1, <3>1 DEF Sound, Sure
  <2> QED
    BY <2>3, <2>4
<1>5. Good(Len(ts))
  <2> HIDE DEF Good
  <2>1. Len(ts) \in S
    BY <1>1, <1>3, <1>4, Steps
  <2> QED
    BY <2>1
<1>6. Sure => done[Len(ts)] # Thrown
  BY <1>5 DEF Arrived, Taken, Thrown
<1> QED
  BY <1>2, <1>5, <1>6

(* ... and with them the struct.                                           *)
LEMMA StructFaithful ==
  ASSUME NEW t \in Types, Type[t].k = "struct",
         \A i \in DOMAIN Type[t].of : Faithful(Type[t].of[i])
  PROVE  Faithful(t)
<1> SUFFICES ASSUME NEW items \in Seq(Item), NEW pos \in Nat, pos \in DOMAIN items, items[pos].type = t
             PROVE  LET r == Read[t][items][pos] IN
                    /\ r # Thrown /\ items[pos].value \notin Fragile[t] => r.value = items[pos].value
                    /\ Readable(t) => r # Thrown /\ r.value = items[pos].value
  BY DEF Faithful
<1> DEFINE item == items[pos]  v == item.value  sub == Items(item)  of == Type[t].of
           readers == Parts(Read, t)  d == ReadAll(readers, sub)
<1>1. item \in Item
  OBVIOUS
<1>2. v \in ValuesOf[t]
  BY <1>1, ItemIs
<1>3. of \in Seq(Types) /\ Len(of) \in Nat /\ DOMAIN of = 1 .. Len(of) /\ Len(readers) = Len(of)
  BY OfIs, PartsLen
<1>4. v = [i \in DOMAIN of |-> v[i]]
  BY <1>2, StructValues
<1>5. Holds(sub, of, v)
  BY <1>1, StructItems DEF Holds
<1>6. \A i \in DOMAIN of : readers[i] = Read[of[i]] /\ Faithful(of[i])
  BY PartsAre
<1>7. Read[t][items][pos] = IF d.ok THEN Taken(d.value, pos) ELSE Thrown
  BY Reads DEF ReadStruct, ArgType
<1>8. v \notin Fragile[t] => ~Repeats(of) /\ \A i \in DOMAIN of : v[i] \notin Fragile[of[i]]
  <2>0. Fragile[t] = FragileFrom(t, Parts(Fragile, t))
    BY FragileDef
  <2> DEFINE parts == Parts(Fragile, t)
  <2> HIDE DEF parts
  <2>1. Fragile[t] = {w \in ValuesOf[t] : Repeats(of) \/ \E i \in DOMAIN w : w[i] \in parts[i]}
    BY <2>0, TypesAre DEF FragileFrom, parts
  <2>2. DOMAIN v = DOMAIN of
    BY <1>4
  <2> QED
    BY <1>2, <2>1, <2>2, PartsAre DEF parts
<1>9. Readable(t) => BasicButLast(of) /\ \A i \in DOMAIN of : Readable(of[i])
  BY ReadableIs
<1> HIDE DEF v, sub, of, readers, d
<1>10. /\ d # Thrown /\ ~Repeats(of) /\ (\A i \in DOMAIN of : v[i] \notin Fragile[of[i]])
              => Arrived(d, Len(of), of, v)
       /\ BasicButLast(of) /\ (\A i \in DOMAIN of : Readable(of[i])) => Arrived(d, Len(of), of, v)
  BY <1>3, <1>5, <1>6, ListArrives DEF d
<1>11. Arrived(d, Len(of), of, v) => d.ok /\ d.value = v
  <2> SUFFICES ASSUME Arrived(d, Len(of), of, v) PROVE d.ok /\ d.value = v
    OBVIOUS
  <2>1. d.ok /\ d.value \in Seq(Values) /\ Len(d.value) = Len(of) /\ \A i \in 1 .. Len(of) : d.value[i] = v[i]
    BY DEF Arrived, Taken
  <2>2. d.value = [i \in 1 .. Len(of) |-> d.value[i]]
    BY <2>1
  <2>3. [i \in 1 .. Len(of) |-> d.value[i]] = [i \in 1 .. Len(of) |-> v[i]]
    BY <2>1
  <2> QED
    BY <1>3, <1>4, <2>1, <2>2, <2>3
<1>12. Read[t][items][pos] # Thrown => d # Thrown
  BY <1>7 DEF Thrown
<1>13. d.ok => Read[t][items][pos] # Thrown /\ Read[t][items][pos].value = d.value
  BY <1>7 DEF Taken, Thrown
<1> QED
  BY <1>8, <1>9, <1>10, <1>11, <1>12, <1>13 DEF v

(* The loop over a vector, that of n elements has had the first n.         *)
Looped(d, n, u, v) ==
  /\ d = Taken(d.value, d.pos)
  /\ d.value \in Seq(Values) /\ Len(d.value) = n
  /\ \A i \in 1 .. n : d.value[i] = v[i]
  /\ n = 0 \/ ~Basic(u) => d.pos = n + 1

LEMMA NoneLooped == ASSUME NEW u, NEW v PROVE Looped(Taken(<<>>, 1), 0, u, v)
<1> DEFINE d == Taken(<<>>, 1)
<1>1. d.value = <<>> /\ d = Taken(d.value, d.pos) /\ d.pos = 1
  BY DEF Taken
<1>2. <<>> \in Seq(Values) /\ Len(<<>>) = 0
  OBVIOUS
<1> HIDE DEF d
<1>3. Looped(d, 0, u, v)
  BY <1>1, <1>2 DEF Looped
<1> QED
  BY <1>3 DEF d

(* Elements of a vector that are structs or vectors leave the iterator where *)
(* they are, and the loop advances it; a basic one is the last that is read *)
(* at its place.                                                           *)
LEMMA NextLooped ==
  ASSUME NEW u \in Types, Faithful(u), NEW v, NEW items \in Seq(Item),
         \A i \in 1 .. Len(items) : items[i] = [type |-> u, value |-> v[i]],
         NEW n \in 0 .. Len(items) - 1, n = 0 \/ ~Basic(u),
         NEW d, Looped(d, n, u, v),
         NEW e, e = ThenElement(d, Read[u], items)
  PROVE  /\ e # Thrown /\ v[n + 1] \notin Fragile[u] => Looped(e, n + 1, u, v)
         /\ Readable(u) => Looped(e, n + 1, u, v)
<1> DEFINE r == Read[u][items][n + 1]
<1>1. n \in Nat /\ n + 1 \in DOMAIN items /\ n + 1 \in Nat
  OBVIOUS
<1>2. d.ok /\ d.pos = n + 1 /\ d.value \in Seq(Values) /\ Len(d.value) = n
  BY DEF Looped, Taken
<1>3. items[n + 1].type = u /\ items[n + 1].value = v[n + 1]
  <2>1. items[n + 1] = [type |-> u, value |-> v[n + 1]]
    BY <1>1
  <2> QED
    BY <2>1
<1>4. ArgType(items, n + 1) # "invalid"
  BY <1>1, <1>3, TypesAre, SerializerAssumption DEF ArgType, Basic
<1>5. e = IF r.ok THEN Taken(Append(d.value, r.value), r.pos + 1) ELSE Thrown
  BY <1>2, <1>4 DEF ThenElement
<1>6. ASSUME r # Thrown, r.value = v[n + 1] PROVE Looped(e, n + 1, u, v)
  <2>1. r = Taken(r.value, IF Basic(u) THEN (n + 1) + 1 ELSE n + 1) /\ r.value \in ValuesOf[u]
    BY <1>1, <1>6, AllReadWell DEF ReadsWell
  <2>2. r.ok /\ r.pos = IF Basic(u) THEN (n + 1) + 1 ELSE n + 1
    BY <2>1 DEF Taken
  <2>3. r.value \in Values
    BY <2>1 DEF Values
  <2> HIDE DEF r
  <2>4. e = Taken(Append(d.value, r.value), r.pos + 1)
    BY <1>5, <2>2
  <2>5. e.value = Append(d.value, r.value) /\ e = Taken(e.value, e.pos) /\ e.pos = r.pos + 1
    BY <2>4 DEF Taken
  <2>6. e.value \in Seq(Values) /\ Len(e.value) = n + 1 /\ e.value[n + 1] = r.value
        /\ \A i \in 1 .. n : e.value[i] = d.value[i]
    BY <1>1, <1>2, <2>3, <2>5
  <2>7. \A i \in 1 .. n + 1 : e.value[i] = v[i]
    BY <1>1, <1>6, <2>6 DEF Looped
  <2>8. n + 1 = 0 \/ ~Basic(u) => e.pos = (n + 1) + 1
    BY <1>1, <2>2, <2>5
  <2> QED
    BY <2>5, <2>6, <2>7, <2>8 DEF Looped
<1>7. r # Thrown /\ v[n + 1] \notin Fragile[u] => r.value = v[n + 1]
  BY <1>1, <1>3 DEF Faithful
<1>8. Readable(u) => r # Thrown /\ r.value = v[n + 1]
  BY <1>1, <1>3 DEF Faithful
<1>9. e # Thrown => r # Thrown
  BY <1>5 DEF Thrown
<1> HIDE DEF r
<1> QED
  BY <1>6, <1>7, <1>8, <1>9

LEMMA VectorFaithful ==
  ASSUME NEW t \in Types, Type[t].k = "vec", Faithful(Type[t].of[1])
  PROVE  Faithful(t)
<1> SUFFICES ASSUME NEW items \in Seq(Item), NEW pos \in Nat, pos \in DOMAIN items, items[pos].type = t
             PROVE  LET r == Read[t][items][pos] IN
                    /\ r # Thrown /\ items[pos].value \notin Fragile[t] => r.value = items[pos].value
                    /\ Readable(t) => r # Thrown /\ r.value = items[pos].value
  BY DEF Faithful
<1> DEFINE item == items[pos]  v == item.value  sub == Items(item)  u == Type[t].of[1]
           d == ReadElements(Read[u], sub)
<1>1. item \in Item /\ u \in Types /\ 1 \in DOMAIN Type[t].of
  BY TypesAre
<1>2. v \in ValuesOf[t]
  BY <1>1, ItemIs
<1>3. PICK k \in 0 .. MaxLength : v \in [1 .. k -> ValuesOf[u]]
  BY <1>2, VectorValues
<1>4. sub \in Seq(Item) /\ DOMAIN v = 1 .. Len(sub) /\ Len(sub) \in Nat
      /\ \A i \in 1 .. Len(sub) : sub[i] = [type |-> u, value |-> v[i]]
  BY <1>1, VectorItems
<1>5. v = [i \in 1 .. Len(sub) |-> v[i]] /\ Len(v) = Len(sub)
  <2> HIDE DEF v, sub
  <2>1. v = [i \in 1 .. Len(sub) |-> v[i]] /\ v \in Seq(ValuesOf[u])
    BY <1>3, <1>4, SerializerAssumption
  <2> QED
    BY <1>4, <2>1
<1>6. Read[t][items][pos] = IF d.ok THEN Taken(d.value, pos) ELSE Thrown
  BY Reads DEF ReadVector, ArgType
<1>7. v \notin Fragile[t] => /\ Basic(u) => Len(sub) <= 1
                             /\ \A i \in 1 .. Len(sub) : v[i] \notin Fragile[u]
  <2>1. Fragile[t] = {w \in ValuesOf[t] : \/ Basic(u) /\ Len(w) > 1
                                          \/ \E i \in DOMAIN w : w[i] \in Parts(Fragile, t)[1]}
    BY FragileDef, TypesAre DEF FragileFrom
  <2>2. Parts(Fragile, t)[1] = Fragile[u]
    BY <1>1, PartsAre
  <2> HIDE DEF v, sub, u
  <2> QED
    BY <1>2, <1>4, <1>5, <2>1, <2>2
<1>8. Readable(t) => ~Basic(u) /\ Readable(u)
  BY <1>1, ReadableIs, TypesAre
<1> HIDE DEF item, v, sub, u, d
<1>9. PICK done :
           /\ done[0] = Taken(<<>>, 1)
           /\ \A n \in 0 .. Len(sub) - 1 : done[n + 1] = ThenElement(done[n], Read[u], sub)
           /\ ReadElements(Read[u], sub) = done[Len(sub)]
  BY <1>4, ElementsDone
<1> DEFINE Sound == (Basic(u) => Len(sub) <= 1) /\ \A i \in 1 .. Len(sub) : v[i] \notin Fragile[u]
           Sure == ~Basic(u) /\ Readable(u)
           Good(n) == /\ Sound => done[n] = Thrown \/ Looped(done[n], n, u, v)
                      /\ Sure => Looped(done[n], n, u, v)
           S == {n \in 0 .. Len(sub) : Good(n)}
<1>10. 0 \in S
  BY <1>4, <1>9, NoneLooped
<1>11. \A n \in 0 .. Len(sub) - 1 : n \in S => n + 1 \in S
  <2> SUFFICES ASSUME NEW n \in 0 .. Len(sub) - 1, Good(n), Sound \/ Sure PROVE Good(n + 1)
    BY <1>4
  <2>1. n \in Nat /\ n + 1 \in 1 .. Len(sub) /\ (n = 0 \/ ~Basic(u))
    BY <1>4
  <2>2. done[n + 1] = ThenElement(done[n], Read[u], sub)
    BY <1>9
  <2>3. CASE done[n] = Thrown
    <3>1. done[n + 1] = Thrown
      BY <2>2, <2>3 DEF ThenElement, Thrown
    <3>2. ~Looped(done[n], n, u, v)
      BY <2>3 DEF Looped, Taken, Thrown
    <3> QED
      BY <3>1, <3>2
  <2>4. CASE Looped(done[n], n, u, v)
    <3> HIDE DEF Sound, Sure
    <3>1. /\ done[n + 1] # Thrown /\ v[n + 1] \notin Fragile[u] => Looped(done[n + 1], n + 1, u, v)
          /\ Readable(u) => Looped(done[n + 1], n + 1, u, v)
      BY <1>1, <1>4, <2>1, <2>2, <2>4, NextLooped DEF u
    <3> QED
      BY <2>1, <3>1 DEF Sound, Sure
  <2> QED
    BY <2>3, <2>4
<1>12. Good(Len(sub))
  <2> HIDE DEF Good
  <2>1. Len(sub) \in S
    BY <1>4, <1>10, <1>11, Steps
  <2> QED
    BY <2>1
<1>13. Looped(d, Len(sub), u, v) => d.ok /\ d.value = v
  <2> SUFFICES ASSUME Looped(d, Len(sub), u, v) PROVE d.ok /\ d.value = v
    OBVIOUS
  <2>1. d.ok /\ d.value \in Seq(Values) /\ Len(d.value) = Len(sub) /\ \A i \in 1 .. Len(sub) : d.value[i] = v[i]
    BY DEF Looped, Taken
  <2>2. d.value = [i \in 1 .. Len(sub) |-> d.value[i]]
    BY <2>1
  <2>3. [i \in 1 .. Len(sub) |-> d.value[i]] = [i \in 1 .. Len(sub) |-> v[i]]
    BY <2>1
  <2> QED
    BY <1>5, <2>1, <2>2, <2>3
<1>14. d = done[Len(sub)]
  BY <1>9 DEF d
<1>15. Read[t][items][pos] # Thrown => d # Thrown
  BY <1>6 DEF Thrown
<1>16. d.ok => Read[t][items][pos] # Thrown /\ Read[t][items][pos].value = d.value
  BY <1>6 DEF Taken, Thrown
<1> QED
  BY <1>7, <1>8, <1>12, <1>13, <1>14, <1>15, <1>16 DEF v, item

(* By induction on types.                                                  *)
LEMMA AllFaithful == \A t \in Types : Faithful(t)
<1> DEFINE S == {t \in Types : Faithful(t)}
<1> HIDE DEF Faithful
<1>1. ASSUME NEW t \in Types, \A u \in 1 .. t - 1 : u \in S PROVE t \in S
  <2>1. \A i \in DOMAIN Type[t].of : Faithful(Type[t].of[i])
    BY <1>1, TypesAre
  <2> QED
    BY <2>1, BasicFaithful, StructFaithful, VectorFaithful, TypesAre
<1>2. \A t \in Types : t \in S
  <2> HIDE DEF S
  <2> QED
    BY <1>1, TypeInduction
<1> QED
  BY <1>2

-----------------------------------------------------------------------------
(* The invariant. The message holds what it has been given of arguments.   *)
Filled ==
  /\ Len(message) <= Len(types)
  /\ \A i \in DOMAIN message : message[i] = [type |-> types[i], value |-> passed[i]]

(* The phases follow from how much is written and read.                    *)
InOrder ==
  /\ phase = "write" => cursor = 1 /\ got = <<>> /\ Len(message) < Len(types)
  /\ phase \in {"read", "returned", "refused"} => Len(message) = Len(types)
  /\ phase = "read" => Len(got) < Len(types)
  /\ phase = "returned" => Len(got) = Len(types)

(* What is extracted is what was passed, and the iterator stands where the *)
(* next argument is, unless that is basic and follows one that is not.     *)
Sound ==
  /\ ~Repeats(types)
  /\ \A i \in DOMAIN types : passed[i] \notin Fragile[types[i]] /\ ~HasBool(types[i])
PrefixArrived == Sound \/ Supported(types) => Arrived(Taken(got, cursor), Len(got), types, passed)

SupportedSucceeds == Supported(types) => phase # "refused"

IInv ==
  /\ TypeOK
  /\ got \in Seq(Values)
  /\ Filled
  /\ InOrder
  /\ PrefixArrived
  /\ SupportedSucceeds
  /\ AbortHasCause

(* An operation has a list of types, and arguments of these types.         *)
LEMMA ListsAre ==
  ASSUME types \in MessageTypes
  PROVE  /\ types \in Seq(Types) /\ DOMAIN types = 1 .. Len(types) /\ Len(types) \in Nat \ {0}
         /\ ListsOf(types) = {v \in [DOMAIN types -> UNION {ValuesOf[types[i]] : i \in DOMAIN types}] :
                                \A i \in DOMAIN types : v[i] \in ValuesOf[types[i]]}
         /\ args \in ListsOf(types) => \A i \in DOMAIN types : passed[i] \in ValuesOf[types[i]]
<1>1. types \in Seq(Types) /\ types # <<>>
  BY SerializerAssumption
<1>2. DOMAIN types = 1 .. Len(types) /\ Len(types) \in Nat \ {0}
  BY <1>1
<1> DEFINE parts == [i \in DOMAIN types |-> ValuesOf[types[i]]]
<1>3. DOMAIN parts = DOMAIN types /\ \A i \in DOMAIN types : parts[i] = ValuesOf[types[i]]
  OBVIOUS
<1>4. ListsOf(types) = Product(parts)
  BY DEF ListsOf
<1> HIDE DEF parts
<1>5. Product(parts) = {v \in [DOMAIN types -> UNION {parts[i] : i \in DOMAIN types}] :
                         \A i \in DOMAIN types : v[i] \in parts[i]}
  BY <1>3 DEF Product
<1>6. UNION {parts[i] : i \in DOMAIN types} = UNION {ValuesOf[types[i]] : i \in DOMAIN types}
  BY <1>3
<1>7. args \in ListsOf(types) => \A i \in DOMAIN types : passed[i] \in ValuesOf[types[i]]
  <2> SUFFICES ASSUME args \in ListsOf(types), NEW i \in DOMAIN types PROVE passed[i] \in ValuesOf[types[i]]
    OBVIOUS
  <2>1. types[i] \in Types /\ args[i] \in ValuesOf[types[i]]
    BY <1>1, <1>3, <1>4, <1>5
  <2>2. passed[i] = Sent[types[i]][args[i]]
    BY DEF passed
  <2> QED
    BY <2>1, <2>2, AllSent
<1> QED
  BY <1>1, <1>2, <1>3, <1>4, <1>5, <1>6, <1>7

(* All types of a supported list are readable.                             *)
LEMMA SupportedIs ==
  ASSUME NEW ts \in Seq(Types), ts # <<>>, Supported(ts)
  PROVE  BasicButLast(ts) /\ \A i \in DOMAIN ts : Readable(ts[i]) /\ ~NestsVectors(ts[i])
<1>1. BasicButLast(ts) /\ Readable(ts[Len(ts)]) /\ DOMAIN ts = 1 .. Len(ts) /\ Len(ts) \in Nat
  BY DEF Supported
<1>2. \A i \in DOMAIN ts : ts[i] \in Types
  OBVIOUS
<1>3. \A i \in DOMAIN ts : Readable(ts[i])
  <2> TAKE i \in DOMAIN ts
  <2>1. CASE i < Len(ts)
    BY <2>1, <1>1, <1>2, ReadableIs DEF BasicButLast
  <2>2. CASE i = Len(ts)
    BY <2>2, <1>1
  <2> QED
    BY <2>1, <2>2, <1>1
<1> QED
  BY <1>1, <1>2, <1>3, ReadableIs

LEMMA Appended ==
  ASSUME NEW V, NEW s \in Seq(V), NEW x \in V
  PROVE  /\ Append(s, x) \in Seq(V) /\ Len(Append(s, x)) = Len(s) + 1
         /\ DOMAIN Append(s, x) = 1 .. Len(s) + 1
         /\ Append(s, x)[Len(s) + 1] = x
         /\ \A i \in 1 .. Len(s) : Append(s, x)[i] = s[i]
  OBVIOUS

(* One lemma per action: the invariant holds at first, and both keep it.   *)
LEMMA Starts == Init => IInv
<1> SUFFICES ASSUME Init PROVE IInv
  OBVIOUS
<1>1. types \in MessageTypes /\ args \in ListsOf(types) /\ phase = "write" /\ message = <<>>
      /\ cursor = 1 /\ got = <<>>
  BY DEF Init
<1>2. types \in Seq(Types) /\ Len(types) \in Nat \ {0}
  BY <1>1, ListsAre
<1>3. Len(message) = 0 /\ message \in Seq(Item) /\ Len(got) = 0 /\ got \in Seq(Values) /\ DOMAIN got = {}
      /\ DOMAIN message = {}
  BY <1>1
<1>4. TypeOK
  BY <1>1, <1>2, <1>3 DEF TypeOK
<1>5. Filled /\ InOrder
  BY <1>1, <1>2, <1>3 DEF Filled, InOrder
<1>6. PrefixArrived
  BY <1>1, <1>3, NoneArrived DEF PrefixArrived
<1>7. SupportedSucceeds /\ AbortHasCause
  BY <1>1 DEF SupportedSucceeds, AbortHasCause
<1> QED
  BY <1>3, <1>4, <1>5, <1>6, <1>7 DEF IInv

LEMMA Writes == IInv /\ WriteNext => IInv'
<1> SUFFICES ASSUME IInv, WriteNext PROVE IInv'
  OBVIOUS
<1> DEFINE n == Len(message) + 1  item == [type |-> types[n], value |-> passed[n]]
<1>1. /\ phase = "write" /\ cursor = 1 /\ got = <<>> /\ Len(message) < Len(types)
      /\ UNCHANGED <<types, args, cursor, got>>
      /\ types \in MessageTypes /\ args \in ListsOf(types) /\ message \in Seq(Item)
      /\ got \in Seq(Values)
  BY DEF IInv, TypeOK, InOrder, WriteNext
<1>2. types \in Seq(Types) /\ DOMAIN types = 1 .. Len(types) /\ Len(types) \in Nat \ {0}
      /\ \A i \in DOMAIN types : /\ types[i] \in Types /\ args[i] \in ValuesOf[types[i]]
                                 /\ passed[i] \in ValuesOf[types[i]]
  BY <1>1, ListsAre
<1>3. n \in DOMAIN types /\ n \in Nat /\ DOMAIN message = 1 .. n - 1
  BY <1>1, <1>2
<1>4. PrefixArrived' /\ UNCHANGED passed
  <2>1. UNCHANGED passed
    BY <1>1 DEF passed
  <2> QED
    BY <1>1, <2>1 DEF IInv, PrefixArrived, Sound
<1>5. CASE message' = Append(message, item) /\ phase' = IF n = Len(types) THEN "read" ELSE "write"
  <2>1. message' = Append(message, item) /\ phase' = IF n = Len(types) THEN "read" ELSE "write"
    BY <1>5
  <2>2. item \in Item
    BY <1>2, <1>3, ItemIs
  <2> HIDE DEF item
  <2>3. message' \in Seq(Item) /\ Len(message') = n /\ DOMAIN message' = 1 .. n
        /\ message'[n] = item /\ \A i \in 1 .. n - 1 : message'[i] = message[i]
    BY <1>1, <2>1, <2>2
  <2> HIDE DEF n
  <2>4. TypeOK'
    BY <1>1, <1>2, <1>3, <2>1, <2>3 DEF IInv, TypeOK
  <2>5. Filled'
    <3>1. \A i \in 1 .. n : message'[i] = [type |-> types[i], value |-> passed[i]]
      BY <1>3, <2>3 DEF IInv, Filled, item
    <3> QED
      BY <1>1, <1>2, <1>3, <1>4, <2>3, <3>1 DEF Filled
  <2>6. InOrder'
    BY <1>1, <1>2, <1>3, <2>1, <2>3 DEF InOrder
  <2>7. SupportedSucceeds' /\ AbortHasCause'
    BY <2>1 DEF SupportedSucceeds, AbortHasCause
  <2> QED
    BY <1>1, <1>4, <2>4, <2>5, <2>6, <2>7 DEF IInv
<1>6. CASE /\ args[n] \notin Writable[types[n]] \/ HasBool(types[n])
           /\ message' = message /\ phase' = "aborted"
  <2>1. message' = message /\ phase' = "aborted"
    BY <1>6
  <2>2. NestsVectors(types[n]) \/ Spoilt(types[n], args[n])
    BY <1>2, <1>3, <1>6, AllWritable DEF Spoilt
  <2>3. AbortHasCause'
    BY <1>1, <1>3, <2>2 DEF AbortHasCause
  <2>4. SupportedSucceeds'
    BY <2>1 DEF SupportedSucceeds
  <2>5. TypeOK' /\ Filled' /\ InOrder'
    BY <1>1, <1>4, <2>1 DEF IInv, TypeOK, Filled, InOrder
  <2> QED
    BY <1>1, <1>4, <2>3, <2>4, <2>5 DEF IInv
<1>7. \/ /\ message' = Append(message, item) /\ phase' = IF n = Len(types) THEN "read" ELSE "write"
      \/ /\ args[n] \notin Writable[types[n]] \/ HasBool(types[n])
         /\ message' = message /\ phase' = "aborted"
  <2>1. passed[n] = Sent[types[n]][args[n]]
    BY <1>3 DEF passed
  <2> QED
    BY <2>1 DEF WriteNext
<1> QED
  BY <1>5, <1>6, <1>7

LEMMA Extracts == IInv /\ ReadNext => IInv'
<1> SUFFICES ASSUME IInv, ReadNext PROVE IInv'
  OBVIOUS
<1> DEFINE n == Len(got)  u == types[n + 1]  r == Read[u][message][cursor]
           d == Taken(got, cursor)  e == ThenRead(d, Read[u], message)
<1>1. /\ phase = "read" /\ UNCHANGED <<types, args, message>>
      /\ Len(message) = Len(types) /\ Len(got) < Len(types)
      /\ types \in MessageTypes /\ message \in Seq(Item)
      /\ got \in Seq(Values) /\ cursor \in 1 .. Len(types) + 1
      /\ \A i \in DOMAIN got : got[i] \in ValuesOf[types[i]]
      /\ \A i \in DOMAIN message : message[i] = [type |-> types[i], value |-> passed[i]]
  BY DEF IInv, TypeOK, InOrder, Filled, ReadNext
<1>2. types \in Seq(Types) /\ DOMAIN types = 1 .. Len(types) /\ Len(types) \in Nat \ {0} /\ types # <<>>
  <2>1. types \in Seq(Types) /\ DOMAIN types = 1 .. Len(types) /\ Len(types) \in Nat \ {0}
    BY <1>1, ListsAre
  <2> QED
    BY <2>1
<1>3. n \in Nat /\ n \in 0 .. Len(types) - 1 /\ n + 1 \in DOMAIN types /\ u \in Types
      /\ DOMAIN got = 1 .. n /\ cursor \in Nat /\ DOMAIN message = DOMAIN types
  BY <1>1, <1>2
<1>0. UNCHANGED passed
  BY <1>1 DEF passed
<1>4. Holds(message, types, passed)
  BY <1>1, <1>3 DEF Holds
<1>5. Faithful(u)
  BY <1>3, AllFaithful
<1>6. d.ok /\ d.value = got /\ d.pos = cursor
  BY DEF Taken
<1>7. e = IF r.ok THEN Taken(Append(got, r.value), r.pos) ELSE Thrown
  BY <1>6 DEF ThenRead
<1>8. Sound \/ Supported(types) => Arrived(d, n, types, passed)
  BY DEF IInv, PrefixArrived
<1>9. Supported(types) => BasicButLast(types) /\ Readable(u)
  BY <1>2, <1>3, SupportedIs
<1>10. \/ r = Thrown
       \/ /\ r = Taken(r.value, IF Basic(u) THEN cursor + 1 ELSE cursor)
          /\ r.value \in ValuesOf[u]
          /\ cursor \in DOMAIN message
  BY <1>1, <1>3, AllReadWell DEF ReadsWell
<1>11. Arrived(d, n, types, passed) =>
         /\ e # Thrown /\ ~Repeats(types) /\ passed[n + 1] \notin Fragile[u] => Arrived(e, n + 1, types, passed)
         /\ BasicButLast(types) /\ Readable(u) => e # Thrown /\ Arrived(e, n + 1, types, passed)
  <2> HIDE DEF d, e, n
  <2> SUFFICES ASSUME Arrived(d, n, types, passed)
               PROVE  /\ e # Thrown /\ ~Repeats(types) /\ passed[n + 1] \notin Fragile[u] => Arrived(e, n + 1, types, passed)
                      /\ BasicButLast(types) /\ Readable(u) => e # Thrown /\ Arrived(e, n + 1, types, passed)
    OBVIOUS
  <2> QED
    BY <1>2, <1>3, <1>4, <1>5, NextArrives DEF e
<1>12. CASE r.ok
  <2>1. /\ got' = Append(got, r.value) /\ cursor' = r.pos
        /\ phase' = IF Len(got') = Len(types) THEN "returned" ELSE "read"
    BY <1>12 DEF ReadNext
  <2>2. r # Thrown
    BY <1>12 DEF Thrown
  <2>3. r.value \in ValuesOf[u] /\ cursor \in DOMAIN message /\ r.value \in Values
    BY <1>3, <1>10, <2>2 DEF Values
  <2>4. r.pos = IF Basic(u) THEN cursor + 1 ELSE cursor
    BY <1>10, <2>2 DEF Taken
  <2>5. e = Taken(got', cursor') /\ e # Thrown
    BY <1>7, <1>12, <2>1 DEF Taken, Thrown
  <2> HIDE DEF r
  <2>6. got' \in Seq(Values) /\ Len(got') = n + 1 /\ DOMAIN got' = 1 .. n + 1 /\ got'[n + 1] = r.value
        /\ \A i \in 1 .. n : got'[i] = got[i]
    <3>1. got' = Append(got, r.value) /\ got \in Seq(Values) /\ r.value \in Values
      BY <1>1, <2>1, <2>3
    <3> HIDE DEF n
    <3>2. /\ got' \in Seq(Values) /\ Len(got') = Len(got) + 1 /\ DOMAIN got' = 1 .. Len(got) + 1
          /\ got'[Len(got) + 1] = r.value /\ \A i \in 1 .. Len(got) : got'[i] = got[i]
      BY <3>1, Appended
    <3> QED
      BY <3>2 DEF n
  <2>7. cursor' \in 1 .. Len(types) + 1
    <3>1. cursor \in 1 .. Len(types) /\ Len(types) \in Nat
      BY <1>2, <1>3, <2>3
    <3>2. cursor' = cursor + 1 \/ cursor' = cursor
      BY <2>1, <2>4
    <3> QED
      BY <3>1, <3>2
  <2>8. \A i \in DOMAIN got' : got'[i] \in ValuesOf[types[i]]
    <3> TAKE i \in DOMAIN got'
    <3>1. CASE i = n + 1
      BY <3>1, <2>3, <2>6
    <3>2. CASE i \in 1 .. n
      BY <3>2, <1>1, <1>3, <2>6
    <3> QED
      BY <3>1, <3>2, <1>3, <2>6
  <2> HIDE DEF n, u, d, e
  <2>9. TypeOK'
    <3>1. Len(got') <= Len(types) /\ phase' \in {"read", "returned"}
      <4>1. Len(got') = n + 1 /\ n \in 0 .. Len(types) - 1 /\ Len(types) \in Nat
        BY <1>2, <1>3, <2>6
      <4>2. Len(got') <= Len(types)
        BY <4>1
      <4> QED
        BY <2>1, <4>2
    <3> QED
      BY <1>1, <2>7, <2>8, <3>1 DEF IInv, TypeOK
  <2>10. Filled'
    BY <1>0, <1>1 DEF IInv, Filled
  <2>11. InOrder'
    <3>1. Len(got') <= Len(types) /\ Len(got') \in Nat /\ Len(types) \in Nat
      BY <1>2, <1>3, <2>6
    <3>2. phase' = (IF Len(got') = Len(types) THEN "returned" ELSE "read") /\ Len(message') = Len(types')
          /\ types' = types
      BY <1>1, <2>1
    <3> QED
      BY <3>1, <3>2 DEF InOrder
  <2>12. PrefixArrived'
    <3>1. Sound => passed[n + 1] \notin Fragile[u] /\ ~Repeats(types)
      BY <1>3 DEF Sound, u
    <3>2. Sound \/ Supported(types) => Arrived(e, n + 1, types, passed)
      BY <1>8, <1>9, <1>11, <2>5, <3>1
    <3> QED
      BY <1>0, <1>1, <2>5, <2>6, <3>2 DEF PrefixArrived, Sound
  <2>13. SupportedSucceeds' /\ AbortHasCause'
    BY <2>1 DEF SupportedSucceeds, AbortHasCause
  <2> QED
    BY <2>6, <2>9, <2>10, <2>11, <2>12, <2>13 DEF IInv
<1>13. CASE ~r.ok
  <2>1. phase' = "refused" /\ got' = got /\ cursor' = cursor
    BY <1>13 DEF ReadNext
  <2>2. e = Thrown
    BY <1>7, <1>13
  <2> HIDE DEF n, u, d, e, r
  <2>3. ~Supported(types)
    BY <1>8, <1>9, <1>11, <2>2
  <2>4. SupportedSucceeds' /\ AbortHasCause'
    BY <1>1, <2>1, <2>3 DEF SupportedSucceeds, AbortHasCause
  <2>5. PrefixArrived'
    BY <1>0, <1>1, <2>1 DEF IInv, PrefixArrived, Sound
  <2>6. TypeOK' /\ Filled' /\ InOrder'
    BY <1>0, <1>1, <2>1 DEF IInv, TypeOK, Filled, InOrder
  <2> QED
    BY <1>1, <2>1, <2>4, <2>5, <2>6 DEF IInv
<1> QED
  BY <1>12, <1>13

(* Next to a bool, the values are of the right types at least.             *)
LEMMA ExtractsBool == IInv /\ ReadBool => IInv'
<1> SUFFICES ASSUME IInv, ReadBool PROVE IInv'
  OBVIOUS
<1> DEFINE n == Len(got) + 1  r == Read[types[n]][message][cursor]
<1>1. /\ phase = "read" /\ HasBool(types[n]) /\ UNCHANGED <<types, args, message>>
      /\ Len(message) = Len(types) /\ Len(got) < Len(types)
      /\ types \in MessageTypes /\ args \in ListsOf(types) /\ message \in Seq(Item)
      /\ got \in Seq(Values) /\ cursor \in 1 .. Len(types) + 1
      /\ \A i \in DOMAIN got : got[i] \in ValuesOf[types[i]]
  BY DEF IInv, TypeOK, InOrder, ReadBool
<1>2. types \in Seq(Types) /\ DOMAIN types = 1 .. Len(types) /\ Len(types) \in Nat \ {0}
  BY <1>1, ListsAre
<1>3. n \in DOMAIN types /\ types[n] \in Types /\ DOMAIN message = 1 .. Len(types) /\ n \in Nat
  BY <1>1, <1>2
<1>4. UNCHANGED passed
  BY <1>1 DEF passed
<1>5. ~Sound /\ ~Supported(types) /\ ~Sound' /\ ~Supported(types')
  BY <1>1, <1>3, <1>4 DEF Sound, Supported
<1>6. PrefixArrived' /\ SupportedSucceeds'
  BY <1>5 DEF PrefixArrived, SupportedSucceeds
<1>7. AbortHasCause'
  BY <1>1, <1>3 DEF AbortHasCause, Spoilt
<1>8. Filled'
  BY <1>1, <1>4 DEF IInv, Filled
<1>9. CASE /\ r.ok
           /\ got' \in ListsOf(SubSeq(types, 1, n))
           /\ cursor' = r.pos
           /\ phase' = IF n = Len(types) THEN "returned" ELSE "read"
  <2> DEFINE sub == SubSeq(types, 1, n)  parts == [i \in DOMAIN sub |-> ValuesOf[sub[i]]]
  <2>1. DOMAIN sub = 1 .. n /\ \A i \in 1 .. n : sub[i] = types[i] /\ types[i] \in Types
    BY <1>2, <1>3
  <2> HIDE DEF sub
  <2>2. DOMAIN parts = 1 .. n /\ \A i \in 1 .. n : parts[i] = ValuesOf[types[i]]
    BY <2>1
  <2>3. got' \in Product(parts)
    BY <1>9 DEF ListsOf, sub
  <2> HIDE DEF parts
  <2>4. got' = [i \in 1 .. n |-> got'[i]] /\ \A i \in 1 .. n : got'[i] \in ValuesOf[types[i]]
    BY <2>2, <2>3 DEF Product
  <2>5. \A i \in 1 .. n : got'[i] \in Values
    BY <2>1, <2>4 DEF Values
  <2> HIDE DEF n
  <2>6. got' \in Seq(Values) /\ Len(got') = n /\ DOMAIN got' = 1 .. n
    BY <1>3, <2>4, <2>5
  <2>7. cursor' \in 1 .. Len(types) + 1
    <3>1. cursor \in Nat
      BY <1>1, <1>2
    <3>2. r = Thrown \/ (/\ r = Taken(r.value, IF Basic(types[n]) THEN cursor + 1 ELSE cursor)
                         /\ cursor \in DOMAIN message)
      BY <1>1, <1>3, <3>1, AllReadWell DEF ReadsWell
    <3>3. r # Thrown
      BY <1>9 DEF Thrown
    <3>4. cursor' \in {cursor, cursor + 1} /\ cursor \in 1 .. Len(types)
      BY <1>3, <1>9, <3>2, <3>3 DEF Taken
    <3> QED
      BY <1>2, <3>4
  <2>8. n \in 1 .. Len(types) /\ phase' \in {"read", "returned"} /\ Len(types) \in Nat
    BY <1>2, <1>3, <1>9
  <2>9. TypeOK'
    BY <1>1, <2>4, <2>6, <2>7, <2>8 DEF IInv, TypeOK
  <2>10. InOrder'
    BY <1>1, <1>9, <2>6, <2>8 DEF InOrder
  <2> QED
    BY <1>6, <1>7, <1>8, <2>6, <2>9, <2>10 DEF IInv
<1>10. CASE phase' \in {"refused", "aborted"} /\ UNCHANGED <<got, cursor>>
  <2>1. TypeOK' /\ InOrder'
    BY <1>1, <1>10 DEF IInv, TypeOK, InOrder
  <2> QED
    BY <1>1, <1>6, <1>7, <1>8, <1>10, <2>1 DEF IInv
<1> QED
  BY <1>9, <1>10 DEF ReadBool

(* The invariant is inductive, and gives the properties.                   *)
THEOREM Inductive == Spec => []IInv
<1>1. IInv /\ [Next]_vars => IInv'
  <2> SUFFICES ASSUME IInv, UNCHANGED vars PROVE IInv'
    BY Writes, Extracts, ExtractsBool DEF Next
  <2> QED
    <3>1. UNCHANGED <<types, args, phase, message, cursor, got, passed>>
      BY DEF vars, passed
    <3> QED
      BY <3>1 DEF IInv, TypeOK, Filled, InOrder, PrefixArrived, Sound, SupportedSucceeds, AbortHasCause
<1> QED
  BY Starts, <1>1, PTL DEF Spec

(* Whatever is extracted is a value of the parameter's type, in number and *)
(* kind, and the iterator stays in the message - also when what arrives    *)
(* differs from what was passed.                                           *)
THEOREM TypeCorrect == Spec => []TypeOK
<1>1. IInv => TypeOK
  BY DEF IInv
<1> QED
  BY Inductive, <1>1, PTL

(* For all types and values: of the supported lists, what is extracted is  *)
(* what was passed, strings up to their first NUL; of other lists, what    *)
(* arrives without an exception is that too, unless a struct or vector     *)
(* follows another of its kind, a vector has several basic elements or     *)
(* there is a bool in the list.                                            *)
THEOREM Arrive == Spec => []ArgumentsArrive
<1>1. IInv => ArgumentsArrive
  <2> SUFFICES ASSUME IInv PROVE ArgumentsArrive
    OBVIOUS
  <2>1. TypeOK
    BY DEF IInv
  <2>2. types \in Seq(Types) /\ DOMAIN types = 1 .. Len(types)
        /\ ListsOf(types) = {v \in [DOMAIN types -> UNION {ValuesOf[types[i]] : i \in DOMAIN types}] :
                                \A i \in DOMAIN types : v[i] \in ValuesOf[types[i]]}
    BY <2>1, ListsAre DEF TypeOK
  <2>3. Len(got) \in Nat /\ DOMAIN got = 1 .. Len(got) /\ got = [i \in 1 .. Len(got) |-> got[i]]
    BY DEF IInv
  <2>4. Sound \/ Supported(types) => \A i \in DOMAIN got : got[i] = passed[i]
    <3> DEFINE d == Taken(got, cursor)
    <3>1. d.value = got
      BY DEF Taken
    <3> HIDE DEF d
    <3>2. Sound \/ Supported(types) => Arrived(d, Len(got), types, passed)
      BY DEF IInv, PrefixArrived, d
    <3> QED
      BY <3>1, <3>2, <2>3 DEF Arrived
  <2>5. SupportedArrive
    BY <2>4 DEF SupportedArrive, IInv, SupportedSucceeds
  <2>6. passed = [i \in 1 .. Len(types) |-> passed[i]]
    BY <2>2 DEF passed
  <2>7. phase = "returned" => Len(got) = Len(types)
    BY DEF IInv, InOrder
  <2>8. phase = "returned" /\ Sound => got = passed
    <3> SUFFICES ASSUME phase = "returned", Sound PROVE got = passed
      OBVIOUS
    <3>1. \A i \in 1 .. Len(types) : got[i] = passed[i]
      BY <2>3, <2>4, <2>7
    <3>2. [i \in 1 .. Len(types) |-> got[i]] = [i \in 1 .. Len(types) |-> passed[i]]
      BY <3>1
    <3> QED
      BY <2>3, <2>6, <2>7, <3>2
  <2>9. DifferenceHasCause
    BY <2>8 DEF DifferenceHasCause, Sound
  <2> QED
    BY <2>1, <2>5, <2>9 DEF ArgumentsArrive
<1> QED
  BY Inductive, <1>1, PTL

(* For all types and values: a call ends at a check of libdbus only for a  *)
(* vector within a vector, a string that is not UTF-8 or a bool.           *)
THEOREM Aborts == Spec => []AbortHasCause
<1>1. IInv => AbortHasCause
  BY DEF IInv
<1> QED
  BY Inductive, <1>1, PTL

=============================================================================
