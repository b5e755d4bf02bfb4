------------------------------- MODULE Vehicle -------------------------------
(***************************************************************************)
(* Vehicles and the base stations that carry their applications: the MACs  *)
(* of module GnbMac, whose grants travel to the vehicles of UeHandlers and *)
(* whose feedback comes from them.                                         *)
(*                                                                         *)
(* A control frame takes one TTI and is never lost; frames of one gNB stay *)
(* in order, and it acts on the air at most once per TTI.  A server starts *)
(* an application that no gNB carries (module ServiceLifecycle, OneServer) *)
(* and whose last frame has arrived: the stop of its last grant was sent   *)
(* with the report that made it pending, appStopInterval_ (20 ms) before.  *)
(***************************************************************************)
EXTENDS GnbMacHandlers, UeHandlers

CONSTANTS
    Rates,       \* bytes one band carries per TTI, as the AMC estimates them
    Asks,        \* numbers of bands a scheduler grants
    Loads,       \* bytes per TTI the grants have to carry
    ServersOf    \* ServersOf[g]: the gNBs whose servers offload through gNB g

ASSUME VehicleAssumption ==
    /\ Rates \subseteq Nat
    /\ Asks \subseteq Nat
    /\ Loads \subseteq Nat \ {0}
    /\ ServersOf \in [Gnbs -> SUBSET Gnbs]

VARIABLES
    mac,            \* mac[g] is the MAC of gNB g, between two events
    hasScheduler,   \* hasScheduler[g]: nodeInfo_ of g knows a global scheduler
    air,            \* air[g]: the VehGrants on their way from gNB g
    ue              \* ue[u] is vehicle u, between two events

vars == <<mac, hasScheduler, air, ue>>

Init ==
    /\ mac = [g \in Gnbs |-> InitialMac(g)]
    /\ hasScheduler = [g \in Gnbs |-> FALSE]
    /\ air = [g \in Gnbs |-> <<>>]
    /\ ue = [u \in Ues |-> InitialUe]

-----------------------------------------------------------------------------
(* The base stations.                                                      *)

\* handler h has run at g: what it sends to vehicles leaves
Perform(g, h) ==
    LET IsVehGrant(msg) == msg.type = "VehGrant"
    IN  /\ mac' = [mac EXCEPT ![g] = [h EXCEPT !.out = <<>>]]
        /\ air' = [air EXCEPT ![g] = @ \o SelectSeq(h.out, IsVehGrant)]
        /\ UNCHANGED ue

InTheAir(a) == \E g \in Gnbs : \E i \in DOMAIN air[g] : air[g][i].app = a

\* a ttiTick_ that finds one grant in grantList_
HandleGrant(g, grant) ==
    /\ air[g] = <<>>
    /\ Perform(g, MecHandleGrantFromRsu(mac[g], grant, hasScheduler[g]))
    /\ UNCHANGED hasScheduler

StartService(g, grant) ==
    /\ \A o \in Gnbs : grant.app \notin mac[o].known
    /\ ~InTheAir(grant.app)
    /\ ~ue[UeOf[grant.app]].left
    /\ hasScheduler[g]
    /\ HandleGrant(g, grant)

StopService(g, a) ==
    /\ a \in mac[g].known
    /\ HandleGrant(g, [app |-> a, stop |-> TRUE, bands |-> 0, load |-> 0,
                       processGnb |-> mac[g].appGrantInfos[a].processGnb, offloadGnb |-> g])

\* NodeInfo::setGlobalSchedulerAddr, for a change of the topology or a failure
LoseScheduler(g) ==
    /\ hasScheduler[g]
    /\ Perform(g, MecTerminateAllGrant(mac[g]))
    /\ hasScheduler' = [hasScheduler EXCEPT ![g] = FALSE]

FindScheduler(g) ==
    /\ ~hasScheduler[g]
    /\ Perform(g, MecRecoverRsuStatus(mac[g]))
    /\ hasScheduler' = [hasScheduler EXCEPT ![g] = TRUE]

-----------------------------------------------------------------------------
(* The vehicles.                                                           *)

GrantArrives(g) ==
    /\ air[g] # <<>>
    /\ LET msg == Head(air[g])
       IN  ue' = [ue EXCEPT ![UeOf[msg.app]] = VecHandleVehicularGrant(@, msg)]
    /\ air' = [air EXCEPT ![g] = Tail(@)]
    /\ UNCHANGED <<mac, hasScheduler>>

\* channelFeedbackTimer_; the rate is what the gNB makes of the channel
Feedback(u, g, rate, isBroadcast) ==
    /\ ~ue[u].left
    /\ g \in FeedbackReceivers(ue[u], Gnbs, isBroadcast)
    /\ air[g] = <<>>
    /\ Perform(g, MecFeedbackRsuStatus(mac[g], u, rate, isBroadcast, hasScheduler[g]))
    /\ UNCHANGED hasScheduler

ChangeUe(u, v) ==
    /\ ue' = [ue EXCEPT ![u] = v]
    /\ UNCHANGED <<mac, hasScheduler, air>>

\* selfSender_
JobIsReleased(a) ==
    /\ ~ue[UeOf[a]].left
    /\ ChangeUe(UeOf[a], SendJobPacket(ue[UeOf[a]], a))

UeTtiTick(u) ==
    /\ ue[u].ttiTick
    /\ ChangeUe(u, VecHandleSelfMessage(ue[u]))

\* the vehicle reaches the end of its trace
Leave(u) ==
    /\ ~ue[u].left
    /\ ChangeUe(u, [ue[u] EXCEPT !.left = TRUE])

ServerStarts(g) == [app : Apps, stop : {FALSE}, bands : Asks, load : Loads,
                    processGnb : ServersOf[g], offloadGnb : {g}]

Next ==
    \/ \E g \in Gnbs :
          \/ \E grant \in ServerStarts(g) : StartService(g, grant)
          \/ \E a \in Apps : StopService(g, a)
          \/ LoseScheduler(g)
          \/ FindScheduler(g)
          \/ GrantArrives(g)
    \/ \E u \in Ues, g \in Gnbs, rate \in Rates, b \in BOOLEAN :
          Feedback(u, g, rate, b)
    \/ \E a \in Apps : JobIsReleased(a)
    \/ \E u \in Ues : UeTtiTick(u) \/ Leave(u)

Spec == Init /\ [][Next]_vars

(* Frames arrive and timers fire.  Before every period, every 10 s, a      *)
(* vehicle broadcasts to every base station within srsDistance_ (to all,   *)
(* by default: srsDistanceCheck); a frame in the air takes 1 ms.  So       *)
(* broadcasts are strongly fair to a base station that has an application  *)
(* to end or to resume (SF with ENABLED spelled out, for TLC).             *)
CanEndAPause(u, g) ==
    /\ ~ue[u].left /\ g \in FeedbackReceivers(ue[u], Gnbs, TRUE)
    /\ air[g] = <<>>
    /\ mac[g].pausedApp \cup mac[g].appToBeInitialized # {}

BroadcastsReach(u, g) ==
    \/ <>[]~CanEndAPause(u, g)
    \/ []<><<\E rate \in Rates : Feedback(u, g, rate, TRUE)>>_vars

Fairness ==
    /\ \A g \in Gnbs : WF_vars(GrantArrives(g))
    /\ \A u \in Ues : WF_vars(UeTtiTick(u))
    /\ \A a \in Apps : WF_vars(JobIsReleased(a))
    /\ \A u \in Ues, g \in Gnbs : BroadcastsReach(u, g)

FairSpec == Spec /\ Fairness

-----------------------------------------------------------------------------
Grant == [offloadGnb : Gnbs \cup {NoGnb}, processGnb : Gnbs \cup {NoGnb},
          bytePerTti : Nat, blocks : SUBSET Bands]

Ue == [left : BOOLEAN, grantedApp : SUBSET Apps, vecGrant : [Apps -> Grant],
       grantedRsus : SUBSET Gnbs, macBuffers : SUBSET Apps, ttiTick : BOOLEAN,
       serviceGranted : [Apps -> BOOLEAN], processGnbAddr : [Apps -> Gnbs \cup {NoGnb}]]

VehGrant(g) == [type : {"VehGrant"}, app : Apps, kind : {"new", "update", "pause", "stop"},
                offloadGnb : {g}, processGnb : Gnbs, bytePerTti : Nat, blocks : SUBSET Bands]

(* The vehicles and the frames; the MACs have their type in module GnbMac. *)
TypeOK ==
    /\ ue \in [Ues -> Ue]
    /\ \A g \in Gnbs : air[g] \in Seq(VehGrant(g))

\* no frame of a is on its way, and its vehicle still takes them
Quiet(a) == ~InTheAir(a) /\ ~ue[UeOf[a]].left

(* UeApp, grantedApp_ and vecGrant_ are three records of one grant in two  *)
(* modules; a first grant that is paused enters the latter two only, an    *)
(* update enters vecGrant_ without a look at grantedApp_.  Still a UeApp   *)
(* that offloads always has a grant its MAC sends with, to the server of   *)
(* that grant, and nothing is left of a grant that was stopped.            *)
AppFollowsMac ==
    \A a \in Apps :
        LET v == ue[UeOf[a]]
        IN  /\ v.serviceGranted[a] => /\ a \in v.grantedApp
                                      /\ v.vecGrant[a].bytePerTti > 0
                                      /\ v.processGnbAddr[a] = v.vecGrant[a].processGnb
            /\ a \notin v.grantedApp => /\ v.vecGrant[a] = NoGrant
                                        /\ v.processGnbAddr[a] = NoGnb

(* Once the frames have arrived, a vehicle and the base stations agree: it *)
(* has a grant for what one of them carries and no other, it sends exactly *)
(* when RbManagerUl has it scheduled, on the bands it holds there and at   *)
(* their rate.  The vehicle is told by four kinds of message from ten      *)
(* places of GnbMac, and no kind is acknowledged.                          *)
TablesAgree ==
    \A a \in Apps : Quiet(a) =>
        LET v == ue[UeOf[a]]
        IN  /\ a \in v.grantedApp <=> \E g \in Gnbs : a \in mac[g].known
            /\ \A g \in Gnbs : a \in mac[g].known =>
                  /\ v.vecGrant[a].offloadGnb = g
                  /\ v.serviceGranted[a] <=> a \in mac[g].scheduledApp
                  /\ a \in mac[g].scheduledApp =>
                        /\ v.vecGrant[a].blocks = ReadAppRbOccupation(mac[g], a)
                        /\ v.vecGrant[a].bytePerTti =
                              GetVehDataRate(mac[g], a) * GetAppAllocatedBands(mac[g], a)

(* "ensure the PHY stack will keep sending feedback to the RSU"            *)
(* (UeMac.cc, at addGrantedRsu): the base station that carries an          *)
(* application hears every feedback of its vehicle.                        *)
FeedbackReachesCarrier ==
    \A g \in Gnbs, a \in Apps :
        Quiet(a) /\ a \in mac[g].known => g \in ue[UeOf[a]].grantedRsus

(* An application that was granted and paused, or granted paused, does not *)
(* wait for ever: it is resumed, or it ends and its scheduler may place it *)
(* elsewhere, although the base station that carries it may be missing     *)
(* from grantedRsus_.                                                      *)
PauseEnds ==
    \A a \in Apps :
        LET v == ue[UeOf[a]]
        IN  a \in v.grantedApp /\ ~v.serviceGranted[a]
               ~> v.serviceGranted[a] \/ a \notin v.grantedApp \/ v.left

(* A job that met the end or a pause of its grant stays in the RLC and     *)
(* macBuffers_, which nothing clears, and no later grant starts ttiTick_;  *)
(* yet it does not wait for ever, nor hold up those after it, once the     *)
(* application is granted for good.                                        *)
WaitingJobsLeave ==
    \A a \in Apps :
        LET v == ue[UeOf[a]]
        IN  <>[](v.serviceGranted[a] /\ ~v.left) => []<>(a \notin v.macBuffers)

=============================================================================
