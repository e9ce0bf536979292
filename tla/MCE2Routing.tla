---------------------------- MODULE MCE2Routing ----------------------------
(* Small instances of E2Routing for TLC. *)
EXTENDS E2Routing, TLC

\* xApps and nodes are interchangeable: sound for the invariants, not used
\* with liveness.
Symmetry == Permutations(XApps) \cup Permutations(Nodes)
=============================================================================
