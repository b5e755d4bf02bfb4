------------------------- MODULE RequestFloodingProofs -------------------------
(***************************************************************************)
(* Proofs about module RequestFlooding: what is known of each pair of      *)
(* nodes follows from where a mark, a packet and a buffered request can    *)
(* come from, one handler at a time.                                       *)
(***************************************************************************)
EXTENDS RequestFlooding, TLAPS

Types ==
    /\ srvReqsBuffer \in [Gnbs -> SUBSET Apps]
    /\ broadcastedSrvReqs \in [Gnbs -> [Apps -> SUBSET Gnbs]]
    /\ recorded \in [Gnbs -> SUBSET Apps]
    /\ neighborAddrs \in [Gnbs -> SUBSET Gnbs]
    /\ neighbors \in [Gnbs -> SUBSET Gnbs]
    /\ rx \in [Gnbs -> SUBSET Gnbs]
    /\ channel \in [Gnbs -> [Gnbs -> SUBSET Apps]]
    /\ lost \in [Gnbs -> [Gnbs -> SUBSET Apps]]
    /\ stopped \subseteq Apps

\* the scheduler is told of what is buffered, and of nothing else
BufferedIsRecorded ==
    \A n \in Gnbs : /\ srvReqsBuffer[n] \subseteq recorded[n]
                    /\ recorded[n] \subseteq srvReqsBuffer[n] \cup stopped

\* nobody is marked for a request that is not buffered
MarksAreOfBuffered ==
    \A n \in Gnbs, a \in Apps : a \notin srvReqsBuffer[n] => broadcastedSrvReqs[n][a] = {}

\* a packet comes from a node that has the request
SendersHaveIt ==
    \A n, m \in Gnbs : channel[n][m] \subseteq srvReqsBuffer[n] \cup stopped

\* every neighbour is marked for every buffered request
NeighborsAreMarked ==
    \A n, m \in Gnbs, a \in Apps :
        a \in srvReqsBuffer[n] \ stopped /\ m \in neighborAddrs[n] => m \in broadcastedSrvReqs[n][a]

\* a marked node has the request, or it is on the way, or it was lost
MarkedAreTold ==
    \A n, m \in Gnbs, a \in Apps :
        m \in broadcastedSrvReqs[n][a] => a \in srvReqsBuffer[m] \cup channel[n][m] \cup lost[n][m] \cup stopped

IInv == /\ Types /\ BufferedIsRecorded /\ MarksAreOfBuffered /\ SendersHaveIt
        /\ NeighborsAreMarked /\ MarkedAreTold

-----------------------------------------------------------------------------
LEMMA InitIInv == Init => IInv
BY DEF Init, IInv, Types, BufferedIsRecorded, MarksAreOfBuffered, SendersHaveIt, NeighborsAreMarked,
       MarkedAreTold, Adjacent

\* what a node sends is on the way or lost
LEMMA SendFacts ==
    ASSUME Types, NEW n \in Gnbs, NEW sent \in [Gnbs -> SUBSET Apps],
           NEW c \in [Gnbs -> [Gnbs -> SUBSET Apps]], Send(n, sent, c)
    PROVE  /\ channel' \in [Gnbs -> [Gnbs -> SUBSET Apps]]
           /\ lost' \in [Gnbs -> [Gnbs -> SUBSET Apps]]
           /\ \A x, y \in Gnbs : /\ c[x][y] \subseteq channel'[x][y]
                                 /\ lost[x][y] \subseteq lost'[x][y]
                                 /\ x # n => channel'[x][y] = c[x][y]
           /\ \A y \in Gnbs : /\ sent[y] \subseteq channel'[n][y] \cup lost'[n][y]
                              /\ channel'[n][y] \subseteq c[n][y] \cup sent[y]
BY DEF Types, Send

\* a request arrives at n, out of the channel of sender, who has it, or from its vehicle
LEMMA HandleServiceRequestStep ==
    ASSUME IInv, NEW n \in Gnbs, NEW a \in Apps, NEW known \in SUBSET Gnbs,
           NEW c \in [Gnbs -> [Gnbs -> SUBSET Apps]],
           HandleServiceRequest(n, a, known, c),
           \A x, y \in Gnbs : /\ c[x][y] \subseteq channel[x][y]
                              /\ channel[x][y] \subseteq c[x][y] \cup (IF y = n THEN {a} ELSE {}),
           \A m \in known : a \in srvReqsBuffer[m] \cup stopped,
           UNCHANGED <<neighborAddrs, neighbors, links, stopped>>
    PROVE  IInv'
PROOF
<1> DEFINE sent == [m \in Gnbs |-> IF m \in neighborAddrs[n] \ known THEN {a} ELSE {}]
<1>1. CASE a \in srvReqsBuffer[n]
  <2>1. channel' = c /\ UNCHANGED <<srvReqsBuffer, broadcastedSrvReqs, recorded, lost>>
    BY <1>1 DEF HandleServiceRequest, npc
  <2> QED
    BY <1>1, <2>1 DEF IInv, Types, BufferedIsRecorded, MarksAreOfBuffered, SendersHaveIt,
                      NeighborsAreMarked, MarkedAreTold, links
<1>2. CASE a \notin srvReqsBuffer[n]
  <2>1. /\ srvReqsBuffer' = [srvReqsBuffer EXCEPT ![n] = @ \cup {a}]
        /\ recorded' = [recorded EXCEPT ![n] = @ \cup {a}]
        /\ broadcastedSrvReqs' = [broadcastedSrvReqs EXCEPT ![n][a] = @ \cup neighborAddrs[n]]
        /\ Send(n, sent, c)
    BY <1>2 DEF HandleServiceRequest
  <2>2. sent \in [Gnbs -> SUBSET Apps]
    OBVIOUS
  <2>3. /\ channel' \in [Gnbs -> [Gnbs -> SUBSET Apps]]
        /\ lost' \in [Gnbs -> [Gnbs -> SUBSET Apps]]
        /\ \A x, y \in Gnbs : /\ c[x][y] \subseteq channel'[x][y]
                              /\ lost[x][y] \subseteq lost'[x][y]
                              /\ x # n => channel'[x][y] = c[x][y]
        /\ \A y \in Gnbs : /\ sent[y] \subseteq channel'[n][y] \cup lost'[n][y]
                           /\ channel'[n][y] \subseteq c[n][y] \cup sent[y]
    BY <2>1, <2>2, SendFacts DEF IInv
  <2> HIDE DEF sent
  <2>4. Types'
    <3>1. srvReqsBuffer' \in [Gnbs -> SUBSET Apps] /\ recorded' \in [Gnbs -> SUBSET Apps]
      BY <2>1 DEF IInv, Types
    <3>2. broadcastedSrvReqs' \in [Gnbs -> [Apps -> SUBSET Gnbs]]
      BY <2>1 DEF IInv, Types
    <3>3. UNCHANGED <<neighborAddrs, neighbors, rx, stopped>>
      BY DEF links
    <3> QED
      BY <2>3, <3>1, <3>2, <3>3 DEF IInv, Types
  <2>5. BufferedIsRecorded' /\ MarksAreOfBuffered' /\ NeighborsAreMarked'
    BY <2>1 DEF IInv, Types, BufferedIsRecorded, MarksAreOfBuffered, NeighborsAreMarked
  <2>6. SendersHaveIt'
    <3> SUFFICES ASSUME NEW x \in Gnbs, NEW y \in Gnbs, NEW b \in Apps, b \in channel'[x][y]
                 PROVE  b \in srvReqsBuffer'[x] \cup stopped'
      BY <2>4 DEF SendersHaveIt, Types
    <3>1. b \in channel[x][y] \/ (x = n /\ b = a)
      BY <2>3 DEF sent
    <3> QED
      BY <2>1, <3>1 DEF IInv, Types, SendersHaveIt
  <2>7. MarkedAreTold'
    <3> SUFFICES ASSUME NEW x \in Gnbs, NEW y \in Gnbs, NEW b \in Apps, y \in broadcastedSrvReqs'[x][b]
                 PROVE  b \in srvReqsBuffer'[y] \cup channel'[x][y] \cup lost'[x][y] \cup stopped'
      BY DEF MarkedAreTold
    <3>1. CASE y \in broadcastedSrvReqs[x][b]
      <4>1. b \in srvReqsBuffer[y] \cup channel[x][y] \cup lost[x][y] \cup stopped
        BY <3>1 DEF IInv, MarkedAreTold
      <4> QED
        BY <4>1, <2>1, <2>3 DEF IInv, Types
    <3>2. CASE y \notin broadcastedSrvReqs[x][b]
      <4>1. x = n /\ b = a /\ y \in neighborAddrs[n]
        BY <3>2, <2>1 DEF IInv, Types
      <4>2. CASE y \in known
        BY <4>1, <4>2, <2>1 DEF IInv, Types
      <4>3. CASE y \notin known
        BY <4>1, <4>3, <2>3 DEF sent
      <4> QED
        BY <4>2, <4>3
    <3> QED
      BY <3>1, <3>2
  <2> QED
    BY <2>4, <2>5, <2>6, <2>7 DEF IInv
<1> QED
  BY <1>1, <1>2

LEMMA VehicleRequestStep ==
    ASSUME IInv, NEW n \in Gnbs, NEW a \in Apps, VehicleRequest(n, a)
    PROVE  IInv'
PROOF
<1>1. HandleServiceRequest(n, a, {}, channel) /\ UNCHANGED <<neighborAddrs, neighbors, links, stopped>>
  BY DEF VehicleRequest
<1>2. channel \in [Gnbs -> [Gnbs -> SUBSET Apps]]
  BY DEF IInv, Types
<1> QED
  BY <1>1, <1>2, HandleServiceRequestStep

LEMMA ReceiveRequestStep ==
    ASSUME IInv, NEW n \in Gnbs, NEW m \in Gnbs, NEW a \in Apps, ReceiveRequest(n, m, a)
    PROVE  IInv'
PROOF
<1> DEFINE c == [channel EXCEPT ![m][n] = @ \ {a}]
           known == broadcastedSrvReqs[n][a] \cup {m}
<1>1. CASE a \in srvReqsBuffer[n]
  <2>1. /\ HandleServiceRequest(n, a, {}, c)
        /\ UNCHANGED <<neighborAddrs, neighbors, links, stopped>>
    BY <1>1 DEF ReceiveRequest, HandleServiceRequest
  <2>2. c \in [Gnbs -> [Gnbs -> SUBSET Apps]]
    BY DEF IInv, Types
  <2>3. \A x, y \in Gnbs : /\ c[x][y] \subseteq channel[x][y]
                           /\ channel[x][y] \subseteq c[x][y] \cup (IF y = n THEN {a} ELSE {})
    BY DEF IInv, Types
  <2> HIDE DEF c
  <2> QED
    BY <2>1, <2>2, <2>3, HandleServiceRequestStep
<1>2. CASE a \notin srvReqsBuffer[n]
  <2>1. /\ HandleServiceRequest(n, a, known, c)
        /\ UNCHANGED <<neighborAddrs, neighbors, links, stopped>>
    BY DEF ReceiveRequest
  <2>2. c \in [Gnbs -> [Gnbs -> SUBSET Apps]]
    BY DEF IInv, Types
  <2>3. \A x, y \in Gnbs : /\ c[x][y] \subseteq channel[x][y]
                           /\ channel[x][y] \subseteq c[x][y] \cup (IF y = n THEN {a} ELSE {})
    BY DEF IInv, Types
  <2>4. known = {m}
    BY <1>2 DEF IInv, MarksAreOfBuffered
  <2>5. a \in srvReqsBuffer[m] \cup stopped
    BY DEF IInv, SendersHaveIt, ReceiveRequest
  <2>6. known \in SUBSET Gnbs /\ \A x \in known : a \in srvReqsBuffer[x] \cup stopped
    BY <2>4, <2>5
  <2> HIDE DEF c, known
  <2> QED
    BY <2>1, <2>2, <2>3, <2>6, HandleServiceRequestStep
<1> QED
  BY <1>1, <1>2

LEMMA RouteComputationStep ==
    ASSUME IInv, NEW n \in Gnbs, RouteComputation(n)
    PROVE  IInv'
PROOF
<1> DEFINE addrs == neighbors[n]
           kept  == IF addrs = {} THEN srvReqsBuffer[n] ELSE srvReqsBuffer[n] \ stopped
           sent  == [m \in Gnbs |-> IF m \in addrs THEN {a \in kept : m \notin broadcastedSrvReqs[n][a]}
                                    ELSE {}]
<1>1. /\ srvReqsBuffer' = [srvReqsBuffer EXCEPT ![n] = kept]
      /\ broadcastedSrvReqs' = [broadcastedSrvReqs EXCEPT ![n] =
             [a \in Apps |-> IF a \in kept THEN @[a] \cup addrs ELSE {}]]
      /\ neighborAddrs' = [neighborAddrs EXCEPT ![n] = addrs]
      /\ Send(n, sent, channel)
      /\ UNCHANGED <<recorded, neighbors, links, stopped>>
  BY DEF RouteComputation, RecoverServiceRequests
<1>2. /\ addrs \subseteq Gnbs /\ kept \subseteq srvReqsBuffer[n] /\ srvReqsBuffer[n] \subseteq kept \cup stopped
      /\ kept \subseteq Apps
  BY DEF IInv, Types
<1>3. sent \in [Gnbs -> SUBSET Apps]
  BY <1>2
<1>4. /\ channel' \in [Gnbs -> [Gnbs -> SUBSET Apps]]
      /\ lost' \in [Gnbs -> [Gnbs -> SUBSET Apps]]
      /\ \A x, y \in Gnbs : /\ channel[x][y] \subseteq channel'[x][y]
                            /\ lost[x][y] \subseteq lost'[x][y]
                            /\ x # n => channel'[x][y] = channel[x][y]
      /\ \A y \in Gnbs : /\ sent[y] \subseteq channel'[n][y] \cup lost'[n][y]
                         /\ channel'[n][y] \subseteq channel[n][y] \cup sent[y]
  BY <1>1, <1>3, SendFacts, ZenonT(60) DEF IInv, Types
<1>5. \A y \in Gnbs : sent[y] \subseteq kept
  OBVIOUS
<1>6. \A y \in addrs, b \in kept : y \notin broadcastedSrvReqs[n][b] => b \in sent[y]
  BY <1>2
<1> HIDE DEF addrs, kept, sent
<1>7. Types'
  <2>1. srvReqsBuffer' \in [Gnbs -> SUBSET Apps] /\ neighborAddrs' \in [Gnbs -> SUBSET Gnbs]
    BY <1>1, <1>2 DEF IInv, Types
  <2>2. broadcastedSrvReqs' \in [Gnbs -> [Apps -> SUBSET Gnbs]]
    BY <1>1, <1>2 DEF IInv, Types
  <2>3. UNCHANGED <<recorded, neighbors, rx, stopped>>
    BY <1>1 DEF links
  <2> QED
    BY <1>4, <2>1, <2>2, <2>3 DEF IInv, Types
<1>8. \A x, y \in Gnbs, b \in Apps :
        y \in broadcastedSrvReqs'[x][b] => \/ y \in broadcastedSrvReqs[x][b]
                                           \/ x = n /\ b \in kept /\ y \in addrs
  BY <1>1 DEF IInv, Types
<1>9. \A x \in Gnbs : srvReqsBuffer[x] \subseteq srvReqsBuffer'[x] \cup stopped
  BY <1>1, <1>2 DEF IInv, Types
<1>10. BufferedIsRecorded'
  BY <1>1, <1>2 DEF IInv, Types, BufferedIsRecorded
<1>11. MarksAreOfBuffered' /\ NeighborsAreMarked'
  BY <1>1, <1>2 DEF IInv, Types, MarksAreOfBuffered, NeighborsAreMarked
<1>12. SendersHaveIt'
  <2> SUFFICES ASSUME NEW x \in Gnbs, NEW y \in Gnbs, NEW b \in Apps, b \in channel'[x][y]
               PROVE  b \in srvReqsBuffer'[x] \cup stopped'
    BY <1>7 DEF SendersHaveIt, Types
  <2>1. b \in channel[x][y] \/ (x = n /\ b \in kept)
    BY <1>4, <1>5
  <2> QED
    BY <1>1, <1>9, <2>1 DEF IInv, Types, SendersHaveIt
<1>13. MarkedAreTold'
  <2> SUFFICES ASSUME NEW x \in Gnbs, NEW y \in Gnbs, NEW b \in Apps, y \in broadcastedSrvReqs'[x][b]
               PROVE  b \in srvReqsBuffer'[y] \cup channel'[x][y] \cup lost'[x][y] \cup stopped'
    BY DEF MarkedAreTold
  <2>1. CASE y \in broadcastedSrvReqs[x][b]
    <3>1. b \in srvReqsBuffer[y] \cup channel[x][y] \cup lost[x][y] \cup stopped
      BY <2>1 DEF IInv, MarkedAreTold
    <3> QED
      BY <3>1, <1>1, <1>4, <1>9
  <2>2. CASE y \notin broadcastedSrvReqs[x][b]
    <3>1. x = n /\ b \in sent[y]
      BY <2>2, <1>6, <1>8
    <3> QED
      BY <3>1, <1>4
  <2> QED
    BY <2>1, <2>2
<1> QED
  BY <1>7, <1>10, <1>11, <1>12, <1>13 DEF IInv

LEMMA NextIInv == IInv /\ [Next]_vars => IInv'
PROOF
<1> SUFFICES ASSUME IInv, [Next]_vars PROVE IInv'
  OBVIOUS
<1> USE DEF npc, links
<1> DEFINE Kept == UNCHANGED <<npc, neighborAddrs, channel, lost>> /\ stopped \subseteq stopped'
                   /\ stopped' \subseteq Apps /\ neighbors' \in [Gnbs -> SUBSET Gnbs] /\ rx' \in [Gnbs -> SUBSET Gnbs]
<1>0. Kept => IInv'
  BY DEF IInv, Types, BufferedIsRecorded, MarksAreOfBuffered, SendersHaveIt, NeighborsAreMarked, MarkedAreTold
<1>1. ASSUME NEW n \in Gnbs, NEW a \in Apps, VehicleRequest(n, a) PROVE IInv'
  BY <1>1, VehicleRequestStep
<1>2. ASSUME NEW n \in Gnbs, NEW m \in Gnbs, NEW a \in Apps, ReceiveRequest(n, m, a) PROVE IInv'
  BY <1>2, ReceiveRequestStep
<1>3. ASSUME NEW n \in Gnbs, RouteComputation(n) PROVE IInv'
  BY <1>3, RouteComputationStep
<1>4. ASSUME NEW n \in Gnbs, Greet(n) \/ NeighborTimeout(n) PROVE Kept
  <2>1. UNCHANGED <<npc, neighborAddrs, channel, lost, stopped, rx>>
    BY <1>4 DEF Greet, NeighborTimeout
  <2>2. neighbors' \in [Gnbs -> SUBSET Gnbs]
    BY <1>4 DEF Greet, NeighborTimeout, Hears, IInv, Types
  <2> QED
    BY <2>1, <2>2 DEF IInv, Types
<1>5. ASSUME NEW n \in Gnbs, NodeDown(n) \/ NodeUp(n) PROVE Kept
  <2>1. UNCHANGED <<npc, neighborAddrs, channel, lost, stopped>>
    BY <1>5 DEF NodeDown, NodeUp
  <2>2. /\ neighbors' = [neighbors EXCEPT ![n] = {}] \/ UNCHANGED neighbors
        /\ rx' = [rx EXCEPT ![n] = {}] \/ rx' = [rx EXCEPT ![n] = Adjacent(n)]
    BY <1>5 DEF NodeDown, NodeUp
  <2>3. neighbors' \in [Gnbs -> SUBSET Gnbs]
    BY <2>2 DEF IInv, Types
  <2>4. rx' \in [Gnbs -> SUBSET Gnbs]
    <3>1. rx \in [Gnbs -> SUBSET Gnbs] /\ Adjacent(n) \in SUBSET Gnbs
      BY DEF Adjacent, IInv, Types
    <3> QED
      BY <2>2, <3>1
  <2> QED
    BY <2>1, <2>3, <2>4 DEF IInv, Types
<1>6. ASSUME NEW n \in Gnbs, NEW m \in Gnbs, IfDown(n, m) \/ IfUp(n, m) PROVE Kept
  <2>1. UNCHANGED <<npc, neighborAddrs, neighbors, channel, lost, stopped>>
    BY <1>6 DEF IfDown, IfUp
  <2>2. rx' = [rx EXCEPT ![n] = @ \ {m}] \/ rx' = [rx EXCEPT ![n] = @ \cup {m}]
    BY <1>6 DEF IfDown, IfUp
  <2>3. rx' \in [Gnbs -> SUBSET Gnbs]
    <3>1. rx \in [Gnbs -> SUBSET Gnbs]
      BY DEF IInv, Types
    <3>2. rx[n] \ {m} \in SUBSET Gnbs /\ rx[n] \cup {m} \in SUBSET Gnbs
      BY <3>1
    <3> QED
      BY <2>2, <3>1, <3>2
  <2> QED
    BY <2>1, <2>3 DEF IInv, Types
<1>7. ASSUME NEW a \in Apps, RequestEnds(a) PROVE Kept
  BY <1>7 DEF RequestEnds, IInv, Types
<1>8. CASE UNCHANGED vars
  BY <1>8 DEF vars, IInv, Types, BufferedIsRecorded, MarksAreOfBuffered, SendersHaveIt, NeighborsAreMarked, MarkedAreTold
<1> HIDE DEF Kept
<1> QED
  BY <1>0, <1>1, <1>2, <1>3, <1>4, <1>5, <1>6, <1>7, <1>8 DEF Next

-----------------------------------------------------------------------------
(* Where the marks, the packets and the buffered requests of the           *)
(* NodePacketControllers come from, for any backhaul.                      *)
THEOREM InductiveInvariant == Spec => []IInv
BY InitIInv, NextIInv, PTL DEF Spec

(* A request a node knows of is lost to the neighbour that may be elected  *)
(* only with a packet of it: no order of requests, route computations,     *)
(* failures and ends of requests lets the NodePacketControllers forget a   *)
(* neighbour.                                                              *)
THEOREM NeighborsStayTold == Spec => []NeighborsAreTold
PROOF
<1>1. IInv => NeighborsAreTold
  BY DEF IInv, Types, BufferedIsRecorded, NeighborsAreMarked, MarkedAreTold, NeighborsAreTold
<1> QED
  BY <1>1, InductiveInvariant, PTL

=============================================================================
