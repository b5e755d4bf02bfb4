--------------------------- MODULE MecOspfHandlers ---------------------------
(***************************************************************************)
(* Link state routing and the choice of the global scheduler (class        *)
(* MecOspf, with the two fields of NodeInfo it sets).                      *)
(*                                                                         *)
(* A handler is an operator from the router r before the event to the      *)
(* router after it; out[m] has the LSAs the running handler sends to m.     *)
(* Nodes are their addresses.  The neighbours are the keys of neighbors_,  *)
(* and those of topology_[routerIdKey_], which every method changes with   *)
(* them; missed counts the hellos a neighbour left unanswered since        *)
(* lastSeen.  lsdb holds what lsaPacketCache_ and topology_ have of the     *)
(* other nodes, under the same keys.  schedulerAddr is NoAddr when         *)
(* globalSchedulerReady_ is false; isGlobalScheduler is NodeInfo's.        *)
(* Every link costs 1, and neighborRoutes_ has the keys of neighbors_.     *)
(***************************************************************************)
EXTENDS Integers, FiniteSets, Sequences

CONSTANTS
    Nodes,       \* the nodes of the backhaul, by their addresses
    GnbNodes,    \* those that are base stations; the others are routers
    NoAddr       \* Ipv4Address::UNSPECIFIED_ADDRESS

ASSUME MecOspfHandlersAssumption ==
    /\ Nodes \subseteq Nat /\ IsFiniteSet(Nodes)
    /\ GnbNodes \subseteq Nodes
    /\ NoAddr \in Nat \ Nodes

Lsa == [origin : Nodes, seq : Nat, nbrs : SUBSET Nodes]

NoRoutes == <<>>        \* an empty std::map of routes

NothingSent == [m \in Nodes |-> <<>>]

InitialRouter(n) ==
    [id |-> n, neighbors |-> {}, missed |-> [m \in Nodes |-> 0], newNeighbors |-> {},
     neighborChanged |-> FALSE, selfLsa |-> [origin |-> n, seq |-> 0, nbrs |-> {}],
     lsdb |-> NoRoutes, lsaTimer |-> FALSE, routeTimer |-> FALSE,
     schedulerAddr |-> NoAddr, isGlobalScheduler |-> FALSE,
     indirectRoutes |-> NoRoutes, out |-> NothingSent]

-----------------------------------------------------------------------------
(* The scheduler's address, here and in NodeInfo::setGlobalSchedulerAddr.  *)
ResetGlobalScheduler(r) ==
    IF r.schedulerAddr = NoAddr THEN r
    ELSE [r EXCEPT !.schedulerAddr = NoAddr, !.isGlobalScheduler = FALSE]

SetGlobalScheduler(r, addr) ==
    [r EXCEPT !.schedulerAddr = addr,
              !.isGlobalScheduler = @ \/ (addr = r.id /\ addr \in GnbNodes)]

ClearIndirectRoutes(r) == [r EXCEPT !.indirectRoutes = NoRoutes]

NeighborsChange(r) ==
    ClearIndirectRoutes(ResetGlobalScheduler([r EXCEPT !.neighborChanged = TRUE]))

-----------------------------------------------------------------------------
(* Hello.                                                                  *)

\* helloTimer_, and processHello for each node of heard that answers
Greet(r, heard) ==
    LET new == heard \ r.neighbors
        met == [r EXCEPT !.newNeighbors = new, !.lsaTimer = TRUE, !.neighbors = @ \cup new,
                         !.missed = [m \in Nodes |-> IF m \in r.neighbors \ heard
                                                     THEN @[m] + 1 ELSE 0]]
    IN  IF new = {} THEN met ELSE NeighborsChange(met)

\* neighborTimeout_ is two hellos
TimedOut(r) == {m \in r.neighbors : r.missed[m] >= 2}

\* mutant: the routes through the lost neighbours stay
CheckNeighborTimeoutsKeepsRoutes(r) ==
    LET gone == TimedOut(r)
    IN  IF gone = {} THEN r
        ELSE [ResetGlobalScheduler(r) EXCEPT
                !.neighborChanged = TRUE, !.neighbors = @ \ gone,
                !.missed = [m \in Nodes |-> IF m \in gone THEN 0 ELSE @[m]]]

CheckNeighborTimeouts(r) ==
    LET gone == TimedOut(r)
    IN  IF gone = {} THEN r
        ELSE NeighborsChange([r EXCEPT !.neighbors = @ \ gone,
                                       !.missed = [m \in Nodes |-> IF m \in gone THEN 0 ELSE @[m]]])

-----------------------------------------------------------------------------
(* LSAs.                                                                   *)
\* the keys of a std::map
Ascending(S) ==
    CHOOSE keys \in [1 .. Cardinality(S) -> S] :
        \A i, j \in 1 .. Cardinality(S) : i < j => keys[i] < keys[j]

CachedLsa(r, o) == [origin |-> o, seq |-> r.lsdb[o].seq, nbrs |-> r.lsdb[o].nbrs]

CachedLsas(r) ==
    LET keys == Ascending(DOMAIN r.lsdb) IN [i \in DOMAIN keys |-> CachedLsa(r, keys[i])]

\* mutant: new neighbours are told of this node only
UpdateLsaToNetworkOwn(r) ==
    [r EXCEPT !.out = [m \in Nodes |-> IF m \in r.neighbors THEN <<r.selfLsa>> ELSE <<>>]]

\* mutant: only the new neighbours are told, in the order of the keys
UpdateLsaToNetworkByKey(r) ==
    LET below == SelectSeq(CachedLsas(r), LAMBDA lsa : lsa.origin < r.id)
        above == SelectSeq(CachedLsas(r), LAMBDA lsa : lsa.origin > r.id)
    IN  [r EXCEPT !.out = [m \in Nodes |->
            IF m \in r.neighbors \cap r.newNeighbors
            THEN below \o <<r.selfLsa>> \o above ELSE <<>>]]

\* the new neighbours also get what the others told this node
UpdateLsaToNetwork(r) ==
    [r EXCEPT !.out = [m \in Nodes |->
        CASE m \in r.neighbors \cap r.newNeighbors -> <<r.selfLsa>> \o CachedLsas(r)
          [] m \in r.neighbors \ r.newNeighbors    -> <<r.selfLsa>>
          [] OTHER                                -> <<>>]]

HandleSelfLsaTimer(r) ==
    LET own  == [r EXCEPT !.selfLsa = [origin |-> r.id, seq |-> @.seq + 1, nbrs |-> r.neighbors]]
        sent == UpdateLsaToNetwork(own)
    IN  IF ~r.neighborChanged THEN r
        ELSE [sent EXCEPT !.neighborChanged = FALSE, !.newNeighbors = {}, !.routeTimer = TRUE]

LsaTimerFired(r) == HandleSelfLsaTimer(CheckNeighborTimeouts([r EXCEPT !.lsaTimer = FALSE]))

\* the LSA of a node not heard of, or a higher sequence number
IsUpdate(r, lsa) ==
    IF lsa.origin = r.id THEN lsa.seq > r.selfLsa.seq
    ELSE lsa.origin \in DOMAIN r.lsdb => lsa.seq > r.lsdb[lsa.origin].seq

Learn(r, lsa) ==
    [r EXCEPT !.lsdb = [o \in DOMAIN @ \cup {lsa.origin} |->
                           IF o = lsa.origin THEN [seq |-> lsa.seq, nbrs |-> lsa.nbrs] ELSE @[o]],
              !.routeTimer = TRUE]

\* mutant: the node follows its scheduler until the computation
HandleReceivedLsaNoReset(r, from, lsa) ==
    IF ~IsUpdate(r, lsa) THEN r
    ELSE [ClearIndirectRoutes(Learn(r, lsa)) EXCEPT
            !.out = [m \in Nodes |-> IF m \in r.neighbors \ {from} THEN <<lsa>> ELSE <<>>]]

\* mutant: an LSA is not passed on
HandleReceivedLsaKeeps(r, from, lsa) ==
    IF ~IsUpdate(r, lsa) THEN r
    ELSE ClearIndirectRoutes(Learn(ResetGlobalScheduler(r), lsa))

\* interfaces are point to point: an LSA goes to all neighbours but the sender
HandleReceivedLsa(r, from, lsa) ==
    IF ~IsUpdate(r, lsa) THEN r
    ELSE [ClearIndirectRoutes(Learn(ResetGlobalScheduler(r), lsa)) EXCEPT
            !.out = [m \in Nodes |-> IF m \in r.neighbors \ {from} THEN <<lsa>> ELSE <<>>]]

-----------------------------------------------------------------------------
(* Route computation.  topology_ has directed edges, to known nodes only.  *)
Known(r) == DOMAIN r.lsdb \cup {r.id}
Topology(r, o) == IF o = r.id THEN r.neighbors ELSE r.lsdb[o].nbrs

\* the nodes at most k hops away from o
Within(r, o, k) ==
    LET ring[i \in 0 .. k] ==
            IF i = 0 THEN {o}
            ELSE ring[i - 1] \cup UNION {Topology(r, p) \cap Known(r) : p \in ring[i - 1]}
    IN  ring[k]

Reachable(r) == Known(r) \cap Within(r, r.id, Cardinality(Nodes))

Distance(r, o, dest) ==
    CHOOSE k \in 0 .. Cardinality(Nodes) :
        /\ dest \in Within(r, o, k)
        /\ k > 0 => dest \notin Within(r, o, k - 1)

\* the neighbours on a shortest path: which of them depends on the priority queue
NextHops(r, dest) ==
    {h \in r.neighbors \cap Known(r) :
        dest \in Within(r, h, Distance(r, r.id, dest) - 1)}

\* mutant: a node prefers itself among equals
ElectedSelf(r) ==
    LET gnbs == Reachable(r) \cap GnbNodes
        deg(o) == Cardinality(Topology(r, o))
        most == {o \in gnbs : \A p \in gnbs : deg(p) <= deg(o)}
    IN  IF r.id \in most THEN r.id ELSE CHOOSE o \in most : \A p \in most : o <= p

\* most neighbours, then the lowest address; a node that finds no gNB with a
\* neighbour also considers itself
Elected(r) ==
    LET gnbs == Reachable(r) \cap GnbNodes
        deg(o) == Cardinality(Topology(r, o))
        most == {o \in gnbs : deg(o) > 0 /\ \A p \in gnbs : deg(p) <= deg(o)}
        cands == IF most # {} THEN most ELSE gnbs \cup {r.id}
    IN  CHOOSE o \in cands : \A p \in cands : o <= p

\* recomputeIndirectRouting; hop: the first hop Dijkstra chose for each destination
RecomputeIndirectRouting(r, hop) ==
    LET known == [r EXCEPT !.lsdb = [o \in (DOMAIN @) \cap Reachable(r) |-> @[o]]]
    IN  SetGlobalScheduler([known EXCEPT !.routeTimer = FALSE, !.indirectRoutes = hop],
                           Elected(r))

FarNodes(r) == Reachable(r) \ (r.neighbors \cup {r.id})

-----------------------------------------------------------------------------
\* mutant: the node forgets its sequence number with the rest
HandleNodeFailureNumber(r) ==
    [ClearIndirectRoutes(ResetGlobalScheduler(r)) EXCEPT
        !.lsaTimer = FALSE, !.routeTimer = FALSE, !.neighbors = {},
        !.missed = [m \in Nodes |-> 0], !.neighborChanged = TRUE, !.selfLsa.seq = 0]

\* NodeInfo::handleNodeDownTimer resets the scheduler, then the router
HandleNodeFailure(r) ==
    [ClearIndirectRoutes(ResetGlobalScheduler(r)) EXCEPT
        !.lsaTimer = FALSE, !.routeTimer = FALSE, !.neighbors = {},
        !.missed = [m \in Nodes |-> 0], !.neighborChanged = TRUE]

=============================================================================
