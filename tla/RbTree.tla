------------------------------ MODULE RbTree -------------------------------
(***************************************************************************)
(* The red-black tree behind every associative container of the project   *)
(* (assoc_rb_tree.c), equal keys included.  A node is named by the entry   *)
(* it holds, and Dummy is tree->dummy, the leaf and the parent of the      *)
(* root.  One iteration of insert_fixup and of delete_fixup is one step;   *)
(* their left and right branches are one definition with a side s.         *)
(***************************************************************************)
EXTENDS Integers, Sequences, FiniteSets, Functions

CONSTANTS RbKeys,   \* keys, compared as numbers
          RbVals    \* tells entries with equal keys apart

RbEntries == [k : RbKeys, v : RbVals]
Dummy == [k |-> -1, v |-> -1]
Ptr == RbEntries \cup {Dummy}
Sides == {"l", "r"}
Opp(s) == IF s = "l" THEN "r" ELSE "l"

ASSUME RbAssumption == RbKeys \subseteq Nat /\ RbVals \subseteq Nat

VARIABLES
    tree,     \* root, parents p, children ch, colors c
    rbSize,   \* tree->size
    rbAlloc,  \* nodes allocated and not freed
    rbPc,     \* "idle", or the loop being executed; "freed", "aborted"
    rbX,      \* z_node of insert_fixup, x_node of delete_fixup
    rbArg     \* the key of an extract that found nothing

rbVars == <<tree, rbSize, rbAlloc, rbPc, rbX, rbArg>>

NoNodes == [root |-> Dummy, p |-> [n \in Ptr |-> Dummy],
            ch |-> [s \in Sides |-> [n \in Ptr |-> Dummy]],
            c |-> [n \in Ptr |-> "black"]]

RbInit ==
    /\ tree = NoNodes /\ rbSize = 0 /\ rbAlloc = {}
    /\ rbPc = "idle" /\ rbX = Dummy /\ rbArg = -1

-----------------------------------------------------------------------------
(* Pointer surgery *)

\* n replaces o as the child of o's parent.
ReplaceChild(t, o, n) ==
    LET p == t.p[o] IN
      IF p = Dummy THEN [t EXCEPT !.root = n]
      ELSE IF o = t.ch["l"][p] THEN [t EXCEPT !.ch["l"][p] = n]
      ELSE [t EXCEPT !.ch["r"][p] = n]

\* left_rotate for s = "l", right_rotate for s = "r".
Rotate(t, x, s) ==
    LET y == t.ch[Opp(s)][x]
        b == t.ch[s][y] IN
      [ReplaceChild(t, x, y) EXCEPT
          !.ch[Opp(s)][x] = b,
          !.p[b] = IF b = Dummy THEN @ ELSE x,
          !.p[y] = t.p[x],
          !.ch[s][y] = x,
          !.p[x] = y]

Transplant(t, u, v) == [ReplaceChild(t, u, v) EXCEPT !.p[v] = t.p[u]]

\* minimum: the leftmost node below x.
Minimum(t, x) ==
    LET leftmost[n \in Ptr] == IF t.ch["l"][n] = Dummy THEN n ELSE leftmost[t.ch["l"][n]]
    IN  leftmost[x]

MutFindNode(t, k) ==
    LET find[n \in Ptr] ==
          IF n = Dummy \/ n.k = k THEN n
          ELSE find[t.ch[IF n.k < k THEN "l" ELSE "r"][n]]
    IN  find[t.root]

\* find_rb_tree: comp is 1 when its first key is the smaller one.
FindNode(t, k) ==
    LET find[n \in Ptr] ==
          IF n = Dummy \/ n.k = k THEN n
          ELSE find[t.ch[IF k < n.k THEN "l" ELSE "r"][n]]
    IN  find[t.root]

-----------------------------------------------------------------------------
(* Insertion *)

MutSideFor(k, n) == IF k <= n.k THEN "l" ELSE "r"
SideFor(k, n) == IF k < n.k THEN "l" ELSE "r"

\* The node below which a new key is linked, Dummy in an empty tree.
LeafFor(t, k) ==
    LET down[n \in Ptr] ==
          IF n = Dummy \/ t.ch[SideFor(k, n)][n] = Dummy THEN n
          ELSE down[t.ch[SideFor(k, n)][n]]
    IN  down[t.root]

Link(t, e) ==
    LET y == LeafFor(t, e.k)
        t1 == [t EXCEPT !.p[e] = y, !.c[e] = "red",
                        !.ch["l"][e] = Dummy, !.ch["r"][e] = Dummy] IN
      IF y = Dummy THEN [t1 EXCEPT !.root = e]
      ELSE [t1 EXCEPT !.ch[SideFor(e.k, y)][y] = e]

\* assoc_rb_tree_insert up to insert_fixup.
RbInsert(e) ==
    /\ rbPc = "idle" /\ e \notin rbAlloc
    /\ tree' = Link(tree, e)
    /\ rbAlloc' = rbAlloc \cup {e}
    /\ rbPc' = "insert_fixup" /\ rbX' = e
    /\ UNCHANGED <<rbSize, rbArg>>

MutInsertFixup(t, z) ==
    LET gp == t.p[t.p[z]] IN
      <<[t EXCEPT !.c[t.p[z]] = "black", !.c[gp] = "red"], gp>>

MutInsertFixupStays(t, z) ==
    LET gp == t.p[t.p[z]] IN
      <<[t EXCEPT !.c[t.ch["l"][gp]] = "black", !.c[gp] = "red"], z>>

\* One iteration of insert_fixup: the new tree and the new z_node.
InsertFixup(t, z) ==
    LET par == t.p[z]
        gp == t.p[par]
        s == IF par = t.ch["l"][gp] THEN "l" ELSE "r"
        uncle == t.ch[Opp(s)][gp]
        inner == z = t.ch[Opp(s)][par]
        z1 == IF inner THEN par ELSE z
        t1 == IF inner THEN Rotate(t, par, s) ELSE t IN
      IF t.c[uncle] = "red"
      THEN <<[t EXCEPT !.c[par] = "black", !.c[uncle] = "black", !.c[gp] = "red"], gp>>
      ELSE <<Rotate([t1 EXCEPT !.c[t1.p[z1]] = "black", !.c[gp] = "red"], gp, Opp(s)), z1>>

RbInsertFixup ==
    /\ rbPc = "insert_fixup" /\ tree.c[tree.p[rbX]] = "red"
    /\ tree' = InsertFixup(tree, rbX)[1]
    /\ rbX' = InsertFixup(tree, rbX)[2]
    /\ UNCHANGED <<rbSize, rbAlloc, rbPc, rbArg>>

RbInsertEnd ==
    /\ rbPc = "insert_fixup" /\ tree.c[tree.p[rbX]] = "black"
    /\ tree' = [tree EXCEPT !.c[tree.root] = "black"]
    /\ rbSize' = rbSize + 1
    /\ rbPc' = "idle" /\ rbX' = Dummy
    /\ UNCHANGED <<rbAlloc, rbArg>>

-----------------------------------------------------------------------------
(* Extraction *)

\* Takes z out: the new tree, the node x that moved up and the color lost.
Unlink(t, z) ==
    LET y == Minimum(t, t.ch["r"][z])
        x == t.ch["r"][y]
        t1 == IF t.p[y] = z THEN [t EXCEPT !.p[x] = y]
              ELSE [Transplant(t, y, x) EXCEPT !.ch["r"][y] = t.ch["r"][z],
                                               !.p[t.ch["r"][z]] = y] IN
      CASE t.ch["l"][z] = Dummy -> <<Transplant(t, z, t.ch["r"][z]), t.ch["r"][z], t.c[z]>>
        [] t.ch["l"][z] # Dummy /\ t.ch["r"][z] = Dummy ->
             <<Transplant(t, z, t.ch["l"][z]), t.ch["l"][z], t.c[z]>>
        [] OTHER -> <<[Transplant(t1, z, y) EXCEPT !.ch["l"][y] = t.ch["l"][z],
                                                   !.p[t.ch["l"][z]] = y,
                                                   !.c[y] = t.c[z]], x, t.c[y]>>

\* free_node_rb_tree: the fields of a freed node mean nothing any more.
Forget(t, z) == [t EXCEPT !.p[z] = Dummy, !.c[z] = "black",
                          !.ch["l"][z] = Dummy, !.ch["r"][z] = Dummy]

\* assoc_rb_tree_extract up to delete_fixup.
RbExtract(k) ==
    /\ rbPc = "idle"
    /\ LET z == FindNode(tree, k)
           u == Unlink(tree, z) IN
         IF z = Dummy
         THEN rbPc' = "aborted" /\ rbArg' = k /\ UNCHANGED <<tree, rbSize, rbAlloc, rbX>>
         ELSE /\ tree' = Forget(u[1], z)
              /\ rbAlloc' = rbAlloc \ {z}
              /\ IF u[3] = "black"
                 THEN rbPc' = "delete_fixup" /\ rbX' = u[2] /\ UNCHANGED rbSize
                 ELSE rbSize' = rbSize - 1 /\ UNCHANGED <<rbPc, rbX>>
              /\ UNCHANGED rbArg

\* One iteration of delete_fixup: the new tree, the new x_node, and whether
\* every assert on the way (and in the rotations) holds.
DeleteFixup(t, x) ==
    LET p == t.p[x]
        s == IF x = t.ch["l"][p] THEN "l" ELSE "r"
        o == Opp(s)
        w == t.ch[o][p]
        t1 == IF t.c[w] = "red"
              THEN Rotate([t EXCEPT !.c[w] = "black", !.c[p] = "red"], p, s) ELSE t
        w1 == t1.ch[o][p]
        bothBlack == t1.c[t1.ch["l"][w1]] = "black" /\ t1.c[t1.ch["r"][w1]] = "black"
        t2 == IF t1.c[t1.ch[o][w1]] = "black"
              THEN Rotate([t1 EXCEPT !.c[t1.ch[s][w1]] = "black", !.c[w1] = "red"], w1, o)
              ELSE t1
        w2 == t2.ch[o][p]
        t3 == [t2 EXCEPT !.c[w2] = t2.c[p], !.c[p] = "black", !.c[t2.ch[o][w2]] = "black"]
        t4 == Rotate(t3, p, s) IN
      IF bothBlack
      THEN <<[t1 EXCEPT !.c[w1] = "red"], p, w1 # Dummy /\ t1.c[w1] = "black">>
      ELSE <<t4, t4.root, /\ w1 # Dummy /\ t1.c[w1] = "black"
                          /\ t2.c[w2] = "black" /\ t2.c[t2.ch[o][w2]] = "red">>

RbDeleteFixup ==
    /\ rbPc = "delete_fixup" /\ rbX # tree.root /\ tree.c[rbX] = "black"
    /\ LET f == DeleteFixup(tree, rbX) IN
         IF f[3]
         THEN tree' = f[1] /\ rbX' = f[2] /\ UNCHANGED <<rbSize, rbAlloc, rbPc, rbArg>>
         ELSE rbPc' = "aborted" /\ UNCHANGED <<tree, rbSize, rbAlloc, rbX, rbArg>>

RbDeleteEnd ==
    /\ rbPc = "delete_fixup" /\ (rbX = tree.root \/ tree.c[rbX] = "red")
    /\ tree' = [tree EXCEPT !.c[rbX] = "black"]
    /\ rbSize' = rbSize - 1
    /\ rbPc' = "idle" /\ rbX' = Dummy
    /\ UNCHANGED <<rbAlloc, rbArg>>

\* depth_first_search_free visits the nodes below n.
Below(t, n) ==
    LET dfs[m \in Ptr] ==
          IF m = Dummy THEN {} ELSE dfs[t.ch["l"][m]] \cup dfs[t.ch["r"][m]] \cup {m}
    IN  dfs[n]

RbFree ==
    /\ rbPc = "idle"
    /\ rbAlloc' = rbAlloc \ Below(tree, tree.root)
    /\ tree' = NoNodes /\ rbPc' = "freed"
    /\ UNCHANGED <<rbSize, rbX, rbArg>>

RbNext ==
    \/ \E e \in RbEntries : RbInsert(e)
    \/ RbInsertFixup \/ RbInsertEnd
    \/ \E k \in RbKeys : RbExtract(k)
    \/ RbDeleteFixup \/ RbDeleteEnd
    \/ RbFree

-----------------------------------------------------------------------------
(* Iteration *)

RbFront == Minimum(tree, tree.root)

\* assoc_rb_tree_next
RbSucc(t, n) ==
    LET up[m \in Ptr] == LET p == t.p[m] IN
          IF p = Dummy \/ t.ch["l"][p] = m THEN p ELSE up[p]
    IN  IF t.ch["r"][n] # Dummy THEN Minimum(t, t.ch["r"][n]) ELSE up[n]

\* The nodes from front to end, at most as many as there are entries.
Iteration ==
    LET it[i \in 0 .. Cardinality(RbEntries)] ==
          IF i = 0 THEN RbFront
          ELSE LET n == it[i - 1] IN IF n = Dummy THEN Dummy ELSE RbSucc(tree, n)
    IN  it

-----------------------------------------------------------------------------
(* Properties *)

\* In-order walk over the children, without the parent pointers.
InOrder ==
    LET walk[n \in Ptr] ==
          IF n = Dummy THEN <<>>
          ELSE walk[tree.ch["l"][n]] \o <<n>> \o walk[tree.ch["r"][n]]
    IN  walk[tree.root]

\* Black nodes on the way from n down to a leaf, along every way.
BlackHeights(n) ==
    LET heights[m \in Ptr] ==
          IF m = Dummy THEN {0}
          ELSE {h + (IF tree.c[m] = "black" THEN 1 ELSE 0) :
                  h \in heights[tree.ch["l"][m]] \cup heights[tree.ch["r"][m]]}
    IN  heights[n]

Height ==
    LET h[n \in Ptr] ==
          IF n = Dummy THEN 0
          ELSE LET a == h[tree.ch["l"][n]]  b == h[tree.ch["r"][n]]
               IN  1 + (IF a > b THEN a ELSE b)
    IN  h[tree.root]

\* Red nodes have black children, except below `but`.
NoRedRed(but) ==
    \A n \in rbAlloc, s \in Sides :
        tree.c[n] = "red" /\ tree.ch[s][n] # but => tree.c[tree.ch[s][n]] = "black"

\* The five properties and Lemma 1 of the header of assoc_rb_tree.c hold
\* between any two operations: the root and the leaves are black, no red node
\* has a red child, all ways down have equally many black nodes, and with n
\* entries the height h is at most 2 lg(n + 1), that is 2^h <= (n + 1)^2.
Balanced ==
    rbPc = "idle" =>
      /\ tree.c[tree.root] = "black" /\ tree.c[Dummy] = "black"
      /\ NoRedRed(Dummy)
      /\ \A n \in rbAlloc : Cardinality(BlackHeights(n)) = 1
      /\ 2 ^ Height <= (rbSize + 1) * (rbSize + 1)

\* Inside the loops ("violating only property 4 of the red-black tree"): while
\* inserting only z_node may have a red parent; while deleting, counting
\* x_node as one black more restores equal heights, x_node hangs below its
\* parent even when it is the dummy, and no assert of the loop fails.
FixupInv ==
    /\ rbPc = "insert_fixup" =>
         /\ NoRedRed(rbX) /\ tree.c[rbX] = "red"
         /\ Cardinality(BlackHeights(tree.root)) = 1
    /\ rbPc = "delete_fixup" /\ rbX # tree.root =>
         \E s \in Sides :
           LET p == tree.p[rbX] IN
             /\ p \in rbAlloc /\ tree.ch[s][p] = rbX
             /\ BlackHeights(tree.ch[Opp(s)][p]) = {h + 1 : h \in BlackHeights(rbX)}
             /\ Cardinality(BlackHeights(rbX)) = 1
    /\ rbPc = "aborted" => rbArg # -1

\* A red-black tree between the operations, and almost one inside their loops.
RedBlack == Balanced /\ FixupInv

\* assoc_front, assoc_next and assoc_end enumerate every entry once, in key
\* order, although rotations and extractions moved the parent pointers; the
\* size is their number.
IterationComplete ==
    rbPc = "idle" =>
      LET it == Iteration  order == InOrder IN
        /\ rbSize = Cardinality(rbAlloc) /\ rbSize = Len(order)
        /\ \A i \in 1 .. rbSize : it[i - 1] = order[i]
        /\ it[rbSize] = Dummy
        /\ \A i \in 1 .. rbSize - 1 : order[i].k <= order[i + 1].k

\* An extract aborts ("Trying to extract a key not found in the tree") only
\* if no entry has the key: with equal keys on both sides none is missed.
ExtractFindsKey == rbPc = "aborted" => \A e \in rbAlloc : e.k # rbArg

\* assoc_free gives every node back.
NothingLeaks == rbPc = "freed" => rbAlloc = {}

\* No entry is missed by what users do with the tree: an iteration, an extraction
\* (assoc_extract) and the release (assoc_free).
NoEntryMissed == IterationComplete /\ ExtractFindsKey /\ NothingLeaks

Map == INSTANCE Multimap WITH Entries <- RbEntries, entries <- InOrder

\* The tree implements the multimap: an insert and an extract take effect
\* where the node is linked and unlinked, rebalancing changes no order.
ImplementsMultimap == Map!Spec

\* Steps from n up to the root.
Depth(n) ==
    LET d[m \in Ptr] == IF m = tree.root \/ tree.p[m] = Dummy THEN 0 ELSE 1 + d[tree.p[m]]
    IN  d[n]

\* Whether the loop being executed runs once more.
LoopGoesOn ==
    \/ rbPc = "insert_fixup" /\ tree.c[tree.p[rbX]] = "red"
    \/ rbPc = "delete_fixup" /\ rbX # tree.root /\ tree.c[rbX] = "black"

\* The loops end, after at most as many iterations as the tree is high: an
\* iteration is the last one or leaves its node nearer to the root.
FixupAscends == [][LoopGoesOn /\ LoopGoesOn' => Depth(rbX)' < Depth(rbX)]_rbVars

RbSpec == RbInit /\ [][RbNext]_rbVars
=============================================================================
