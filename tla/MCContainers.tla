---------------------------- MODULE MCContainers ---------------------------
(***************************************************************************)
(* The containers of util/alg_ds for TLC, one at a time: each behaviour    *)
(* exercises the container chosen initially.                               *)
(***************************************************************************)
EXTENDS RbTree, SeqRing, SeqArr, AssocReg

VARIABLE ds   \* the container in use

vars == <<ds, rbVars, ringVars, arr, regVars>>

Init ==
    /\ ds \in {"rb_tree", "ring", "arr", "reg"}
    /\ RbInit /\ RingInit /\ ArrInit /\ RegInit

Next ==
    \/ ds = "rb_tree" /\ RbNext /\ UNCHANGED <<ds, ringVars, arr, regVars>>
    \/ ds = "ring" /\ RingNext /\ UNCHANGED <<ds, rbVars, arr, regVars>>
    \/ ds = "arr" /\ ArrNext /\ UNCHANGED <<ds, rbVars, ringVars, regVars>>
    \/ ds = "reg" /\ RegNext /\ UNCHANGED <<ds, rbVars, ringVars, arr>>

Spec == Init /\ [][Next]_vars
=============================================================================
