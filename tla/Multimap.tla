----------------------------- MODULE Multimap ------------------------------
(***************************************************************************)
(* What the associative container promises its users: a multimap kept in   *)
(* key order.  An entry enters behind the entries whose key is not larger, *)
(* extracting a key takes out one entry with that key, whichever it is,    *)
(* and the order of all others stays as it was.                            *)
(***************************************************************************)
EXTENDS Integers, Sequences, SequencesExt

CONSTANT Entries   \* records with a field k, the key

VARIABLE entries   \* the entries in iteration order

Init == entries = <<>>

Insert(e) ==
    /\ e \notin Range(entries)
    /\ \E i \in 0 .. Len(entries) :
         /\ \A j \in 1 .. Len(entries) : j <= i <=> entries[j].k <= e.k
         /\ entries' = InsertAt(entries, i + 1, e)

Extract == \E i \in 1 .. Len(entries) : entries' = RemoveAt(entries, i)

Free == entries' = <<>>

Next == (\E e \in Entries : Insert(e)) \/ Extract \/ Free

Spec == Init /\ [][Next]_entries
=============================================================================
