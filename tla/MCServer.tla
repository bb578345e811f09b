------------------------------ MODULE MCServer ------------------------------
(* Two servers of one bus name, a third of another name without adaptors;  *)
(* two adaptors compete for one interface of s1, a third serves another    *)
(* interface, a fourth belongs to s2.                                      *)
EXTENDS Service

CONSTANTS s1, s2, s3, a1, a2, a3, a4, i1, i2, m1, m2, n1, n2, r1, r2

MCServerOf == [a \in {a1, a2, a3, a4} |-> IF a = a4 THEN s2 ELSE s1]
MCInterfaceName == [a \in {a1, a2, a3, a4} |-> IF a = a3 THEN i2 ELSE i1]
MCVtbl == [i \in {i1, i2} |-> IF i = i1 THEN {m1} ELSE {m1, m2}]
MCNameOf == [s \in {s1, s2, s3} |-> IF s = s3 THEN n2 ELSE n1]
MCRivals == {r1, r2}
RivalsAlike == Permutations(MCRivals)
=============================================================================
