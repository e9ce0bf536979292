------------------------ MODULE SubscriptionService ------------------------
(***************************************************************************)
(* What the near-RT RIC promises xApps, without threads, renaming and      *)
(* messages: every request is served once, by one step at a node, and the  *)
(* xApp learns of it afterwards; a subscription lives at the node from     *)
(* that step until the step that serves its removal.                       *)
(*                                                                         *)
(* A request is "asked", "granted" when the node has served it, "active"   *)
(* when the xApp knows; "leaving" when the xApp asked to remove it,        *)
(* "released" when the node has, and "closed" when the xApp knows.         *)
(***************************************************************************)
EXTENDS Naturals, Sequences

CONSTANTS Clients,    \* who asks
          Providers,  \* who serves
          Requests    \* records with a kind and a node, the provider

VARIABLES asked,    \* the requests of a client, by handle
          phase,    \* their phase
          serving   \* <<client, handle>> of the subscriptions alive at a node,
                    \* of clients that have not ended

vars == <<asked, phase, serving>>

Init ==
    /\ asked = [x \in Clients |-> <<>>] /\ phase = [x \in Clients |-> <<>>]
    /\ serving = [n \in Providers |-> {}]

Ask(x, req) ==
    /\ asked' = [asked EXCEPT ![x] = Append(@, req)]
    /\ phase' = [phase EXCEPT ![x] = Append(@, "asked")]
    /\ UNCHANGED serving

Becomes(x, h, from, to) ==
    phase[x][h] = from /\ phase' = [phase EXCEPT ![x][h] = to] /\ UNCHANGED asked

Grant(x, h) ==
    /\ Becomes(x, h, "asked", "granted")
    /\ IF asked[x][h].kind = "SUB_REQ"
       THEN serving' = [serving EXCEPT ![asked[x][h].node] = @ \cup {<<x, h>>}]
       ELSE UNCHANGED serving

Confirm(x, h) ==
    /\ Becomes(x, h, "granted", IF asked[x][h].kind = "SUB_REQ" THEN "active" ELSE "closed")
    /\ UNCHANGED serving

Remove(x, h) == Becomes(x, h, "active", "leaving") /\ UNCHANGED serving

Release(x, h) ==
    /\ <<x, h>> \in serving[asked[x][h].node]
    /\ Becomes(x, h, "leaving", "released")
    /\ serving' = [serving EXCEPT ![asked[x][h].node] = @ \ {<<x, h>>}]

Close(x, h) == Becomes(x, h, "released", "closed") /\ UNCHANGED serving

\* A node ends, and the subscriptions it served with it.
Lose(n) == serving' = [serving EXCEPT ![n] = {}] /\ UNCHANGED <<asked, phase>>

\* A client ends.  Nobody tells the nodes: they may still grant what it asked
\* for, and go on serving it, but that is no longer service to anybody.
Quit(x) ==
    /\ phase' = [phase EXCEPT ![x] = [h \in DOMAIN @ |-> "closed"]]
    /\ serving' = [n \in Providers |-> {p \in serving[n] : p[1] # x}]
    /\ UNCHANGED asked

Next ==
    \/ \E n \in Providers : Lose(n)
    \/ \E x \in Clients :
         \/ Quit(x)
         \/ \E req \in Requests : Ask(x, req)
         \/ \E h \in DOMAIN phase[x] :
              Grant(x, h) \/ Confirm(x, h) \/ Remove(x, h) \/ Release(x, h) \/ Close(x, h)

Spec == Init /\ [][Next]_vars
=============================================================================
