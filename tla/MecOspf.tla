-------------------------------- MODULE MecOspf --------------------------------
(***************************************************************************)
(* The backhaul: a MecOspf in every node, the links between them, and the  *)
(* failures NodeInfo injects.                                              *)
(*                                                                         *)
(* A link is two channels; rx[n] holds the neighbours whose channel to n   *)
(* is enabled.  A hello and its answers take microseconds and change       *)
(* nothing at the node that answers, so they are one step.  LSAs travel    *)
(* hop by hop, in order on each channel.  The intervals are relied on for  *)
(* this: the links are empty again before routeComputationDelay_ is over,  *)
(* lsaWaitInterval_ is over before the next hello, and timers of hellos    *)
(* fire, and nodes and links fail and recover, when no LSA is on a link.   *)
(***************************************************************************)
EXTENDS MecOspfHandlers

CONSTANTS
    Links,        \* the pairs {n, m} of nodes that a link connects
    Lockstep,     \* do all nodes start OSPF at the same time?
    LongFaults,   \* do failures last longer than neighborTimeout_?
    MaxFaults     \* bound on the failures, for model checking

ASSUME MecOspfAssumption ==
    /\ \A l \in Links : l \subseteq Nodes /\ Cardinality(l) = 2
    /\ Lockstep \in BOOLEAN /\ LongFaults \in BOOLEAN
    /\ MaxFaults \in Nat

VARIABLES
    router,     \* router[n]: the MecOspf of node n
    active,     \* the nodes that are up (nodeState_ of NodeInfo)
    rx,         \* rx[n]: the neighbours whose channel to n is enabled
    channel,    \* channel[n][m]: the LSAs on their way from n to m
    flood,      \* who generated an LSA since the channels were last empty
    faults      \* the failures so far

vars == <<router, active, rx, channel, flood, faults>>

Adjacent(n) == {m \in Nodes : {n, m} \in Links}

Init ==
    /\ router = [n \in Nodes |-> InitialRouter(n)]
    /\ active = Nodes
    /\ rx = [n \in Nodes |-> Adjacent(n)]
    /\ channel = [n \in Nodes |-> [m \in Nodes |-> <<>>]]
    /\ flood = {}
    /\ faults = 0

-----------------------------------------------------------------------------
Empty(c) == \A n, m \in Nodes : c[n][m] = <<>>
NoLsaTimer == \A n \in Nodes : ~router[n].lsaTimer
NoRouteTimer == \A n \in Nodes : ~router[n].routeTimer

\* what both directions of the link let through
Hears(n) == {m \in rx[n] : n \in rx[m]}

\* each n of after sends after[n].out[m] to each m, on the channels c;
\* a disabled channel loses it
Sends(c, after) ==
    [n \in Nodes |-> [m \in Nodes |->
        IF n \in DOMAIN after \cap rx[m] THEN c[n][m] \o after[n].out[m] ELSE c[n][m]]]

\* the nodes of DOMAIN handled get through their events
Perform(handled, c) ==
    \E after \in {handled} :
        /\ router' = [n \in Nodes |-> IF n \in DOMAIN after THEN [after[n] EXCEPT !.out = NothingSent]
                                     ELSE router[n]]
        /\ channel' = Sends(c, after)
        /\ flood' = IF Empty(channel') THEN {}
                    ELSE flood \cup {n \in DOMAIN after : after[n].selfLsa.seq > router[n].selfLsa.seq}

-----------------------------------------------------------------------------
\* the nodes that get to their timers together, of those that have the timer
Together(T) == IF Lockstep THEN {T} ELSE {{n} : n \in T}

\* the helloTimer_ of an inactive node has no effect
HelloTimer(S) ==
    /\ Empty(channel) /\ \A n \in S : ~router[n].lsaTimer
    /\ Lockstep => NoRouteTimer /\ NoLsaTimer
    /\ Perform([n \in S |-> Greet(router[n], Hears(n))], channel)
    /\ UNCHANGED <<active, rx, faults>>

Waiting == {n \in Nodes : router[n].lsaTimer}

LsaTimer(S) ==
    /\ S # {}
    /\ Perform([n \in S |-> LsaTimerFired(router[n])], channel)
    /\ UNCHANGED <<active, rx, faults>>

ReceiveLsa(n, from) ==
    /\ channel[from][n] # <<>>
    /\ Perform([x \in {n} |-> HandleReceivedLsa(router[n], from, Head(channel[from][n]))],
               [channel EXCEPT ![from][n] = Tail(@)])
    /\ UNCHANGED <<active, rx, faults>>

RouteComputationTimer(n) ==
    /\ router[n].routeTimer
    /\ Empty(channel)
    /\ Lockstep => NoLsaTimer
    /\ \E hop \in [FarNodes(router[n]) -> router[n].neighbors] :
          /\ \A d \in DOMAIN hop : hop[d] \in NextHops(router[n], d)
          /\ Perform([x \in {n} |-> RecomputeIndirectRouting(router[n], hop)], channel)
    /\ UNCHANGED <<active, rx, faults>>

-----------------------------------------------------------------------------
(* Failures: Database injects them, NodeInfo carries them out.             *)
NodeDown(n) ==
    /\ n \in active
    /\ faults < MaxFaults /\ Empty(channel)
    /\ faults' = faults + 1
    /\ active' = active \ {n}
    /\ rx' = [rx EXCEPT ![n] = {}]
    /\ router' = [router EXCEPT ![n] = HandleNodeFailure(@)]
    /\ UNCHANGED <<channel, flood>>

NodeUp(n) ==
    /\ n \notin active
    /\ Empty(channel)
    /\ LongFaults => \A m \in Nodes : n \notin router[m].neighbors
    /\ active' = active \cup {n}
    /\ rx' = [rx EXCEPT ![n] = Adjacent(n)]
    /\ UNCHANGED <<router, channel, flood, faults>>

IfDown(n, m) ==
    /\ n \in active /\ m \in rx[n]
    /\ faults < MaxFaults /\ Empty(channel)
    /\ faults' = faults + 1
    /\ rx' = [rx EXCEPT ![n] = @ \ {m}]
    /\ UNCHANGED <<router, active, channel, flood>>

IfUp(n, m) ==
    /\ n \in active /\ m \in Adjacent(n) \ rx[n]
    /\ Empty(channel)
    /\ LongFaults => n \notin router[m].neighbors /\ m \notin router[n].neighbors
    /\ rx' = [rx EXCEPT ![n] = @ \cup {m}]
    /\ UNCHANGED <<router, active, channel, flood, faults>>

-----------------------------------------------------------------------------
Next ==
    \/ \E S \in Together(active) : HelloTimer(S)
    \/ \E S \in Together(Waiting) : LsaTimer(S)
    \/ \E n, m \in Nodes : ReceiveLsa(n, m)
    \/ \E n \in Nodes : RouteComputationTimer(n)
    \/ \E n \in Nodes : NodeDown(n)
    \/ \E n \in Nodes : NodeUp(n)
    \/ \E n, m \in Nodes : IfDown(n, m)
    \/ \E n, m \in Nodes : IfUp(n, m)

Spec == Init /\ [][Next]_vars

(* The timers of the simulator fire and its channels deliver.  No failure  *)
(* and no recovery has to happen.                                          *)
Fairness ==
    /\ \A n \in Nodes : WF_vars(\E S \in Together(active) : n \in S /\ HelloTimer(S))
    /\ WF_vars(\E S \in Together(Waiting) : LsaTimer(S))
    /\ WF_vars(\E n \in Nodes : RouteComputationTimer(n))
    /\ WF_vars(\E n, m \in Nodes : ReceiveLsa(n, m))

FairSpec == Spec /\ Fairness

-----------------------------------------------------------------------------
TypeOK ==
    /\ \A n \in Nodes :
          LET r == router[n]
          IN  /\ r.id = n /\ r.neighbors \subseteq Adjacent(n)
              /\ r.missed \in [Nodes -> 0 .. 2]
              /\ r.newNeighbors \subseteq Nodes
              /\ r.neighborChanged \in BOOLEAN /\ r.lsaTimer \in BOOLEAN
              /\ r.routeTimer \in BOOLEAN /\ r.isGlobalScheduler \in BOOLEAN
              /\ r.selfLsa \in Lsa /\ r.selfLsa.origin = n
              /\ DOMAIN r.lsdb \subseteq Nodes \ {n}
              /\ r.schedulerAddr \in Nodes \cup {NoAddr}
              /\ r.out = NothingSent
              /\ \A m \in Nodes : \A i \in DOMAIN channel[n][m] : channel[n][m][i] \in Lsa
    /\ active \subseteq Nodes /\ flood \subseteq Nodes
    /\ \A n \in Nodes : rx[n] \subseteq Adjacent(n)
    /\ faults \in 0 .. MaxFaults

\* the nodes n leads to over links that work and both ends know
Area(n) ==
    LET mutual(S) == {m \in Nodes : \E o \in S : /\ m \in Hears(o) \cap router[o].neighbors
                                                 /\ o \in router[m].neighbors}
        ring[i \in 0 .. Cardinality(Nodes)] ==
            IF i = 0 THEN {n} ELSE ring[i - 1] \cup mutual(ring[i - 1])
    IN  ring[Cardinality(Nodes)]

(* Nodes elect on their own timers, from what each was told.  Once an LSA   *)
(* has reached everyone, no two nodes of an area have different schedulers, *)
(* also while a failure is being noticed and while some have not elected.   *)
OneSchedulerPerArea ==
    Empty(channel) /\ NoLsaTimer =>
        \A n \in active : \A m \in Area(n) :
            NoAddr \in {router[n].schedulerAddr, router[m].schedulerAddr}
            \/ router[n].schedulerAddr = router[m].schedulerAddr

\* every change has been noticed, told to all, and computed with
Settled ==
    /\ Empty(channel) /\ NoLsaTimer /\ NoRouteTimer
    /\ \A n \in active : router[n].neighbors = Hears(n) /\ ~router[n].neighborChanged

Degree(n) == Cardinality(Hears(n))

(* A settled area follows its best connected gNB, the one with the lowest   *)
(* address among equals, and that node alone serves as its scheduler: no    *)
(* LSA of before a failure misleads a node that was down or cut off.        *)
SettledOnTheBest ==
    Settled =>
        \A n \in active : Area(n) # {n} /\ Area(n) \cap GnbNodes # {} =>
            LET gnbs == Area(n) \cap GnbNodes
                best == {o \in gnbs : \A p \in gnbs :
                            \/ Degree(p) < Degree(o)
                            \/ Degree(p) = Degree(o) /\ o <= p}
            IN  /\ {router[n].schedulerAddr} = best
                /\ router[n].isGlobalScheduler <=> n \in best

\* the distance of m over the links that work
Hops(n, m) ==
    LET ring[i \in 0 .. Cardinality(Nodes)] ==
            IF i = 0 THEN {n} ELSE ring[i - 1] \cup UNION {Hears(o) : o \in ring[i - 1]}
    IN  CHOOSE k \in 0 .. Cardinality(Nodes) :
            m \in ring[k] /\ (k > 0 => m \notin ring[k - 1])

(* No route goes through a node that is no neighbour any more, at any time; *)
(* and the routes of a settled area lead from each of its nodes to each     *)
(* other, every hop one closer, so none of them loops.                      *)
RoutesLeadThere ==
    /\ \A n \in Nodes : \A d \in DOMAIN router[n].indirectRoutes :
          router[n].indirectRoutes[d] \in router[n].neighbors
    /\ Settled =>
          \A n \in active : \A d \in Area(n) \ (router[n].neighbors \cup {n}) :
              /\ d \in DOMAIN router[n].indirectRoutes
              /\ Hops(router[n].indirectRoutes[d], d) = Hops(n, d) - 1

\* lsa is no newer than what o itself has, and as new only if it says the same
Agrees(o, lsa) ==
    /\ lsa.seq <= router[o].selfLsa.seq
    /\ lsa.seq = router[o].selfLsa.seq => lsa.nbrs = router[o].selfLsa.nbrs

(* seqNum_ outlives a failure while the LSAs of others forget it: nobody    *)
(* knows a higher number than the node itself, and the same number is the   *)
(* same list of neighbours, so the newer LSA always wins.                   *)
NumbersAreCurrent ==
    \A n, m \in Nodes :
        /\ m \in DOMAIN router[n].lsdb => Agrees(m, router[n].lsdb[m])
        /\ \A i \in DOMAIN channel[n][m] :
              Agrees(channel[n][m][i].origin, channel[n][m][i])

(* handleReceivedLsa schedules the computation routeComputationDelay_ after *)
(* the LSA was generated.  An LSA out of a neighbour's cache is older than  *)
(* that, and scheduling in the past stops the simulation: it is saved by    *)
(* the fresh LSA sent just before it.                                       *)
NeverSchedulesInThePast ==
    \A n, m \in Nodes :
        channel[m][n] # <<>> /\ ~router[n].routeTimer =>
            LET lsa == Head(channel[m][n])
            IN  IsUpdate(router[n], lsa) =>
                   lsa.origin \in flood /\ lsa.seq = router[lsa.origin].selfLsa.seq

View ==
    INSTANCE SchedulerView WITH
        view    <- [n \in Nodes |-> router[n].schedulerAddr],
        serving <- {n \in Nodes : router[n].isGlobalScheduler}

(* A node changes its scheduler only through the reset in which NodeInfo    *)
(* ends its grants and services, although hellos, LSAs, computations and    *)
(* failures fall in any order; its scheduler application runs exactly while *)
(* it is elected.                                                           *)
ChangesThroughReset == View!Spec

(* However the failures fall, the nodes end up settled on one scheduler:    *)
(* no loss leaves two parts of an area with different views for ever.       *)
Converges ==
    <>[](\A n \in active :
            LET area == Area(n)
            IN  area # {n} /\ area \cap GnbNodes # {} =>
                   /\ router[n].schedulerAddr # NoAddr
                   /\ \A m \in area : router[m].schedulerAddr = router[n].schedulerAddr)

=============================================================================
