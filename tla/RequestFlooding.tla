---------------------------- MODULE RequestFlooding ----------------------------
(***************************************************************************)
(* How service requests spread over the backhaul (NodePacketController).   *)
(*                                                                         *)
(* A vehicle sends its request once, to base stations near it, and any     *)
(* node may become the global scheduler later: so every NPC buffers the    *)
(* request, gives it to the local Scheduler, and sends it to each of its   *)
(* neighbours once, to new ones when the route computation of MecOspf has  *)
(* told NodeInfo of them.                                                  *)
(*                                                                         *)
(* Of MecOspf the module has neighbors_: whom hellos found, until they     *)
(* time out.  The route to a neighbour comes and goes with it, while       *)
(* NodeInfo keeps the addresses of the last route computation.  Links join *)
(* base stations; a router has no NPC.  A packet is lost without a route   *)
(* or on a disabled channel, which nobody notices.  A channel holds a set: *)
(* a second copy of a request on one link changes nothing that the first   *)
(* has not changed.                                                        *)
(***************************************************************************)
EXTENDS MecTypes

CONSTANTS
    Links,        \* the pairs {n, m} of base stations that a link connects
    MaxFaults     \* bound on the failures, for model checking

ASSUME RequestFloodingAssumption ==
    /\ Links \subseteq SUBSET Gnbs
    /\ MaxFaults \in Nat

VARIABLES
    srvReqsBuffer,      \* srvReqsBuffer[n]: the applications whose request n keeps
    broadcastedSrvReqs, \* broadcastedSrvReqs[n][a]: the neighbours that need not be told
    neighborAddrs,      \* neighborAddrs[n]: the neighbours NodeInfo of n knows
    recorded,           \* recorded[n]: the requests given to the Scheduler of n
    neighbors,          \* neighbors[n]: neighbors_ of the MecOspf of n
    active,             \* the base stations that are up
    rx,                 \* rx[n]: the neighbours whose channel to n is enabled
    channel,            \* channel[n][m]: the requests on their way from n to m
    lost,               \* lost[n][m]: the requests of which a packet from n to m was lost
    stopped,            \* the applications whose stopTime is over
    faults              \* the failures so far

npc == <<srvReqsBuffer, broadcastedSrvReqs, recorded>>
links == <<active, rx, faults>>
vars == <<npc, neighborAddrs, neighbors, links, channel, lost, stopped>>

Adjacent(n) == {m \in Gnbs \ {n} : {n, m} \in Links}
Hears(n) == {m \in rx[n] : n \in rx[m]}

Init ==
    /\ srvReqsBuffer = [n \in Gnbs |-> {}]
    /\ broadcastedSrvReqs = [n \in Gnbs |-> [a \in Apps |-> {}]]
    /\ neighborAddrs = [n \in Gnbs |-> {}]
    /\ recorded = [n \in Gnbs |-> {}]
    /\ neighbors = [n \in Gnbs |-> {}]
    /\ active = Gnbs
    /\ rx = [n \in Gnbs |-> Adjacent(n)]
    /\ channel = [n \in Gnbs |-> [m \in Gnbs |-> {}]]
    /\ lost = [n \in Gnbs |-> [m \in Gnbs |-> {}]]
    /\ stopped = {}
    /\ faults = 0

-----------------------------------------------------------------------------
\* IPv4 of n has a route to the address of m, and the channel is enabled
Reaches(n, m) == m \in neighbors[n] /\ n \in rx[m]

\* n sends the requests sent[m] to the address of each node m, over the channels c
Send(n, sent, c) ==
    /\ channel' = [c EXCEPT ![n] = [m \in Gnbs |-> IF Reaches(n, m) THEN @[m] \cup sent[m] ELSE @[m]]]
    /\ lost' = [lost EXCEPT ![n] = [m \in Gnbs |-> IF Reaches(n, m) THEN @[m] ELSE @[m] \cup sent[m]]]

\* known: the nodes that have the request, the one that sent it among them
HandleServiceRequest(n, a, known, c) ==
    IF a \in srvReqsBuffer[n]
    THEN channel' = c /\ UNCHANGED <<npc, lost>>
    ELSE /\ srvReqsBuffer' = [srvReqsBuffer EXCEPT ![n] = @ \cup {a}]
         /\ recorded' = [recorded EXCEPT ![n] = @ \cup {a}]
         /\ broadcastedSrvReqs' = [broadcastedSrvReqs EXCEPT ![n][a] = @ \cup neighborAddrs[n]]
         /\ Send(n, [m \in Gnbs |-> IF m \in neighborAddrs[n] \ known THEN {a} ELSE {}], c)

\* the vehicle's request reaches n; the NIC of a node that is down drops it
VehicleRequest(n, a) ==
    /\ n \in active /\ a \notin stopped
    /\ HandleServiceRequest(n, a, {}, channel)
    /\ UNCHANGED <<neighborAddrs, neighbors, links, stopped>>

ReceiveRequest(n, m, a) ==
    /\ a \in channel[m][n]
    /\ HandleServiceRequest(n, a, broadcastedSrvReqs[n][a] \cup {m},
                            [channel EXCEPT ![m][n] = @ \ {a}])
    /\ UNCHANGED <<neighborAddrs, neighbors, links, stopped>>

\* mutant: one broadcast of a request is enough, whoever the neighbours are by then
RecoverUnsent(n, addrs) ==
    LET kept == srvReqsBuffer[n] \ stopped
    IN  /\ srvReqsBuffer' = [srvReqsBuffer EXCEPT ![n] = kept]
        /\ broadcastedSrvReqs' = [broadcastedSrvReqs EXCEPT ![n] =
               [a \in Apps |-> IF a \in kept THEN IF @[a] = {} THEN addrs ELSE @[a] ELSE {}]]
        /\ Send(n, [m \in Gnbs |-> IF m \in addrs THEN {a \in kept : broadcastedSrvReqs[n][a] = {}}
                                    ELSE {}],
                channel)
        /\ UNCHANGED recorded

\* recoverServiceRequests, with the neighbours addrs; requests that are over
\* are forgotten while it goes through the first of them
RecoverServiceRequests(n, addrs) ==
    LET kept == IF addrs = {} THEN srvReqsBuffer[n] ELSE srvReqsBuffer[n] \ stopped
    IN  /\ srvReqsBuffer' = [srvReqsBuffer EXCEPT ![n] = kept]
        /\ broadcastedSrvReqs' = [broadcastedSrvReqs EXCEPT ![n] =
               [a \in Apps |-> IF a \in kept THEN @[a] \cup addrs ELSE {}]]
        /\ Send(n, [m \in Gnbs |-> IF m \in addrs THEN {a \in kept : m \notin broadcastedSrvReqs[n][a]}
                                    ELSE {}],
                channel)
        /\ UNCHANGED recorded

\* recomputeIndirectRouting ends with the addresses and the scheduler for NodeInfo
RouteComputation(n) ==
    /\ n \in active
    /\ neighborAddrs' = [neighborAddrs EXCEPT ![n] = neighbors[n]]
    /\ RecoverServiceRequests(n, neighbors[n])
    /\ UNCHANGED <<neighbors, links, stopped>>

-----------------------------------------------------------------------------
(* The environment: MecOspf, the failures of NodeInfo, and time.           *)
Greet(n) ==
    /\ n \in active
    /\ neighbors' = [neighbors EXCEPT ![n] = @ \cup Hears(n)]
    /\ UNCHANGED <<npc, neighborAddrs, links, channel, lost, stopped>>

NeighborTimeout(n) ==
    /\ neighbors' = [neighbors EXCEPT ![n] = @ \cap Hears(n)]
    /\ UNCHANGED <<npc, neighborAddrs, links, channel, lost, stopped>>

NodeDown(n) ==
    /\ n \in active /\ faults < MaxFaults
    /\ active' = active \ {n}
    /\ rx' = [rx EXCEPT ![n] = {}]
    /\ neighbors' = [neighbors EXCEPT ![n] = {}]
    /\ faults' = faults + 1
    /\ UNCHANGED <<npc, neighborAddrs, channel, lost, stopped>>

NodeUp(n) ==
    /\ n \notin active
    /\ active' = active \cup {n}
    /\ rx' = [rx EXCEPT ![n] = Adjacent(n)]
    /\ UNCHANGED <<npc, neighborAddrs, neighbors, channel, lost, stopped, faults>>

IfDown(n, m) ==
    /\ n \in active /\ m \in rx[n] /\ faults < MaxFaults
    /\ rx' = [rx EXCEPT ![n] = @ \ {m}]
    /\ faults' = faults + 1
    /\ UNCHANGED <<npc, neighborAddrs, neighbors, active, channel, lost, stopped>>

IfUp(n, m) ==
    /\ n \in active /\ m \in Adjacent(n) \ rx[n]
    /\ rx' = [rx EXCEPT ![n] = @ \cup {m}]
    /\ UNCHANGED <<npc, neighborAddrs, neighbors, active, channel, lost, stopped, faults>>

RequestEnds(a) ==
    /\ a \notin stopped
    /\ stopped' = stopped \cup {a}
    /\ UNCHANGED <<npc, neighborAddrs, neighbors, links, channel, lost>>

-----------------------------------------------------------------------------
Next ==
    \/ \E n \in Gnbs, a \in Apps : VehicleRequest(n, a)
    \/ \E n, m \in Gnbs, a \in Apps : ReceiveRequest(n, m, a)
    \/ \E n \in Gnbs : RouteComputation(n)
    \/ \E n \in Gnbs : Greet(n)
    \/ \E n \in Gnbs : NeighborTimeout(n)
    \/ \E n \in Gnbs : NodeDown(n)
    \/ \E n \in Gnbs : NodeUp(n)
    \/ \E n, m \in Gnbs : IfDown(n, m)
    \/ \E n, m \in Gnbs : IfUp(n, m)
    \/ \E a \in Apps : RequestEnds(a)

Spec == Init /\ [][Next]_vars

-----------------------------------------------------------------------------
(* Whoever of a node and its neighbours is elected can schedule what any   *)
(* of them was asked: each request a node has told its scheduler of, its   *)
(* neighbours' schedulers have been told of, or it is on its way, unless   *)
(* it is over or a packet of it was lost, on a disabled channel or for     *)
(* want of a route while NodeInfo still had the address.  Three sets       *)
(* decide who is told, and neighbours come and go while requests flood.    *)
NeighborsAreTold ==
    \A n, m \in Gnbs : m \in neighborAddrs[n] =>
        recorded[n] \subseteq recorded[m] \cup channel[n][m] \cup lost[n][m] \cup stopped

=============================================================================
