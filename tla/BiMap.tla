------------------------------- MODULE BiMap -------------------------------
(***************************************************************************)
(* bi_map_t: two red-black trees, one per direction.  Each tree is a       *)
(* multimap (a second insertion of a key adds a second entry, RbTree), so  *)
(* a tree is the set of its <<key, value>> pairs; callers never insert the *)
(* same pair twice.  An extraction that the code's asserts reject has no   *)
(* result; when a key has several entries any of them may be the one the   *)
(* tree search meets first.                                                *)
(***************************************************************************)
EXTENDS Naturals, FiniteSets

bi_map_init == [left |-> {}, right |-> {}]

bi_map_insert(m, key1, key2) ==
    [left |-> m.left \cup {<<key1, key2>>}, right |-> m.right \cup {<<key2, key1>>}]

\* Mutant: the entry of the left tree stays.
MutExtractRight(m, key2) ==
    {[key1 |-> p[2], map |-> [m EXCEPT !.right = @ \ {p}]] : p \in {q \in m.right : q[1] = key2}}

\* The results of extracting key2: the left key and what is left of the map.
bi_map_extract_right(m, key2) ==
    {[key1 |-> p[2], map |-> [left |-> m.left \ {<<p[2], key2>>}, right |-> m.right \ {p}]] :
       p \in {q \in m.right : q[1] = key2 /\ <<q[2], key2>> \in m.left}}

\* bi_map_size, with its assert "Mismatch in the ds".
bi_map_size(m) == Cardinality(m.left)

\* The trees hold the same pairs, seen from either side, and a left key once.
Mirrored(m) ==
    /\ m.right = {<<p[2], p[1]>> : p \in m.left}
    /\ \A p, q \in m.left : p[1] = q[1] => p = q
=============================================================================
