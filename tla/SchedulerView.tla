----------------------------- MODULE SchedulerView -----------------------------
(***************************************************************************)
(* What the election of a global scheduler promises the nodes: a node that *)
(* follows a scheduler follows it until it is told that it has none, which *)
(* is when it ends its grants and services (NodeInfo), and only then may   *)
(* follow another; a gNB runs the scheduler application exactly while it   *)
(* follows itself.  Several nodes may change at once.                      *)
(***************************************************************************)
CONSTANTS Nodes, GnbNodes, NoAddr

VARIABLES
    view,      \* view[n]: the scheduler n follows, or NoAddr
    serving    \* the gNBs that act as a global scheduler

Serving(v) == {n \in GnbNodes : v[n] = n}

Init ==
    /\ view = [n \in Nodes |-> NoAddr]
    /\ serving = {}

Forgets(n) == view'[n] = NoAddr
Adopts(n)  == view[n] = NoAddr /\ view'[n] \in Nodes

Next ==
    /\ view' \in [Nodes -> Nodes \cup {NoAddr}]
    /\ \A n \in Nodes : view'[n] = view[n] \/ Forgets(n) \/ Adopts(n)
    /\ serving' = Serving(view')

Spec == Init /\ [][Next]_<<view, serving>>

=============================================================================
