------------------------------- MODULE GnbMac -------------------------------
(***************************************************************************)
(* The MACs of the base stations as a state machine, in an environment     *)
(* that sends them any grant a server can send and any feedback a vehicle  *)
(* can send, at any time.  The scheduler may grant an application again    *)
(* while its grant is alive, so with DoubleGrants a start may find a grant *)
(* in force; without, servers start what the gNB does not carry.           *)
(***************************************************************************)
EXTENDS GnbMacHandlers

CONSTANTS
    Rates,       \* bytes one band carries per TTI, as the AMC estimates them
    Asks,        \* numbers of bands a scheduler grants
    Loads,       \* bytes per TTI the grants have to carry
    MaxPending,  \* bound on grantList_, for model checking
    DoubleGrants \* may a server grant an application whose grant is in force?

ASSUME GnbMacAssumption ==
    /\ Rates \subseteq Nat
    /\ Asks \subseteq Nat
    /\ Loads \subseteq Nat \ {0}
    /\ MaxPending \in Nat
    /\ DoubleGrants \in BOOLEAN

VARIABLES
    mac,            \* mac[g] is the MAC of gNB g, between two events
    hasScheduler,   \* hasScheduler[g]: nodeInfo_ of g knows a global scheduler
    out             \* the messages the last handler sent, in order

vars == <<mac, hasScheduler, out>>

Init ==
    /\ mac = [g \in Gnbs |-> InitialMac(g)]
    /\ hasScheduler = [g \in Gnbs |-> FALSE]
    /\ out = <<>>

-----------------------------------------------------------------------------
\* handler h has run at g; m.out is empty between events
Perform(g, h) ==
    /\ mac' = [mac EXCEPT ![g] = [h EXCEPT !.out = <<>>]]
    /\ out' = h.out

Running(g) == ~mac[g].failed

\* a grant for a is in force, or waits to be
IsGranted(m, a) ==
    \/ a \in m.known
    \/ \E i \in DOMAIN m.grantList : m.grantList[i].app = a /\ ~m.grantList[i].stop

(* handleUpperMessage: the grant waits for the next ttiTick_.               *)
ReceiveNicGrant(g, grant) ==
    /\ Running(g)
    /\ ~mac[g].disableNic
    /\ Len(mac[g].grantList) < MaxPending
    /\ grant.stop \/ DoubleGrants \/ ~IsGranted(mac[g], grant.app)
    /\ Perform(g, [mac[g] EXCEPT !.grantList = Append(@, grant)])
    /\ UNCHANGED hasScheduler

\* ttiTick_ is scheduled from the first grant that waits on
TtiTick(g) ==
    /\ Running(g)
    /\ mac[g].grantList # <<>>
    /\ Perform(g, HandleTtiTick(mac[g], hasScheduler[g]))
    /\ UNCHANGED hasScheduler

ReceiveFeedback(g, u, rate, isBroadcast) ==
    /\ Running(g)
    /\ ~mac[g].disableNic
    /\ Perform(g, MecFeedbackRsuStatus(mac[g], u, rate, isBroadcast, hasScheduler[g]))
    /\ UNCHANGED hasScheduler

\* NodeInfo::setGlobalSchedulerAddr, unspecified and specified
LoseScheduler(g) ==
    /\ Running(g)
    /\ Perform(g, MecTerminateAllGrant(mac[g]))
    /\ hasScheduler' = [hasScheduler EXCEPT ![g] = FALSE]

FindScheduler(g) ==
    /\ Running(g)
    /\ ~mac[g].disableNic
    /\ Perform(g, MecRecoverRsuStatus(mac[g]))
    /\ hasScheduler' = [hasScheduler EXCEPT ![g] = TRUE]

\* the MAC's part of NodeInfo::handleNodeDownTimer and handleNodeUpTimer
NodeDown(g) ==
    /\ Running(g)
    /\ ~mac[g].disableNic
    /\ Perform(g, [MecTerminateAllGrant(mac[g]) EXCEPT !.disableNic = TRUE])
    /\ hasScheduler' = [hasScheduler EXCEPT ![g] = FALSE]

NodeUp(g) ==
    /\ Running(g)
    /\ mac[g].disableNic
    /\ Perform(g, [mac[g] EXCEPT !.disableNic = FALSE])
    /\ UNCHANGED hasScheduler

\* a stop carries the numbers of the grant it ends; the MAC does not read them
ServerGrants(g) ==
    [app : Apps, stop : {FALSE}, bands : Asks, load : Loads,
     processGnb : Gnbs, offloadGnb : {g}]
    \cup [app : Apps, stop : {TRUE}, bands : {0}, load : {0},
          processGnb : Gnbs, offloadGnb : {g}]

Next ==
    \E g \in Gnbs :
        \/ \E grant \in ServerGrants(g) : ReceiveNicGrant(g, grant)
        \/ TtiTick(g)
        \/ \E u \in Ues, rate \in Rates, b \in BOOLEAN : ReceiveFeedback(g, u, rate, b)
        \/ LoseScheduler(g)
        \/ FindScheduler(g)
        \/ NodeDown(g)
        \/ NodeUp(g)

Spec == Init /\ [][Next]_vars

-----------------------------------------------------------------------------
(* The state of a MAC between two events.                                   *)
MacState(g) ==
    [nodeId : {g}, disableNic : BOOLEAN, grantList : Seq(NicGrant),
     scheduledApp : SUBSET Apps, pausedApp : SUBSET Apps,
     appToBeInitialized : SUBSET Apps, vehDataRate : [Ues -> Nat],
     appGrantedRb : [Apps -> SUBSET Bands], appTempRb : [Apps -> SUBSET Bands],
     flexibleBands : SUBSET Bands, appGrantInfos : [Apps -> AppGrantInfo],
     known : SUBSET Apps, out : {<<>>}, failed : BOOLEAN]

TypeOK ==
    /\ hasScheduler \in [Gnbs -> BOOLEAN]
    /\ \A g \in Gnbs : mac[g] \in MacState(g)

(* Every band is free or held by one application, never both and never     *)
(* twice, whatever grants, feedback, terminations and resets did to it:    *)
(* RbManagerUl keeps the same fact in flexibleBands_, two maps and two     *)
(* sets per grant, and five methods move bands between them.               *)
Held(m, a) == ReadAppRbOccupation(m, a)

BandsPartitioned(m) ==
    /\ \A a \in Apps : /\ Held(m, a) \cap m.flexibleBands = {}
                        /\ m.appGrantedRb[a] \cap m.appTempRb[a] = {}
    /\ \A a, b \in Apps : a # b => Held(m, a) \cap Held(m, b) = {}
    /\ \A x \in Bands : x \in m.flexibleBands \/ \E a \in Apps : x \in Held(m, a)

BandPartition == \A g \in Gnbs : BandsPartitioned(mac[g])

(* Bands do not leak: an application that holds bands is scheduled or      *)
(* paused, so that some later feedback or stop gives them back.            *)
NoLeakedBand ==
    \A g \in Gnbs, a \in Apps :
        Held(mac[g], a) # {} => a \in mac[g].scheduledApp \cup mac[g].pausedApp

(* getAppGrantInfo and the other uses of appGrantInfos_[appId] create an   *)
(* entry where there is none: an application in one of the three lists     *)
(* always has the grant a server sent, so no report goes to a default      *)
(* address, and a stop (guarded by hasAppGrantInfo) reaches all of them.   *)
ListedAppsHaveGrants ==
    \A g \in Gnbs :
        LET m == mac[g]
        IN  /\ m.scheduledApp \cup m.pausedApp \cup m.appToBeInitialized \subseteq m.known
            /\ \A a \in m.known : m.appGrantInfos[a].processGnb \in Gnbs

(* The loops of mecFeedbackRsuStatus walk copies of the lists while they   *)
(* change them: scheduleActiveApp and schedulePausedApp never meet an      *)
(* application that has left its list and throw.                           *)
NoRuntimeError == \A g \in Gnbs : ~mac[g].failed

(* A scheduled application holds enough bands for its load at the rate     *)
(* its vehicle last reported; the rate changes under its feet at every     *)
(* feedback.  (An application granted again and not schedulable stays in   *)
(* scheduledApp_ and enters appToBeInitialized_: it has been told to       *)
(* pause.)                                                                 *)
ScheduledIsServed ==
    \A g \in Gnbs : \A a \in mac[g].scheduledApp \ mac[g].appToBeInitialized :
        LET m == mac[g]
        IN  /\ GetVehDataRate(m, a) > 0
            /\ m.appGrantInfos[a].load <= GetVehDataRate(m, a) * Cardinality(Held(m, a))

-----------------------------------------------------------------------------
VehGrantsTo(a) == {i \in DOMAIN out' : out'[i].type = "VehGrant" /\ out'[i].app = a}
Last(S) == CHOOSE i \in S : \A j \in S : j <= i

Allowance(m, a) ==
    IF a \in m.scheduledApp \ m.appToBeInitialized
    THEN <<Held(m, a), GetVehDataRate(m, a) * GetAppAllocatedBands(m, a)>>
    ELSE <<{}, 0>>

(* A handler that changes what an application may send (its blocks, its    *)
(* bytes per TTI, or whether it may send at all) tells the vehicle, and    *)
(* the last grant it sends is the truth.                                   *)
VehicleIsTold ==
    [][\A g \in Gnbs, a \in Apps :
          Allowance(mac[g], a) # Allowance(mac'[g], a) =>
              /\ VehGrantsTo(a) # {}
              /\ LET told == out'[Last(VehGrantsTo(a))]
                 IN  <<told.blocks, told.bytePerTti>> = Allowance(mac'[g], a)]_vars

(* At a gNB that knows a scheduler, a feedback that changes the rate of a  *)
(* vehicle takes no band from, and gives no band to, a scheduled           *)
(* application of another vehicle: it may only end or resume those of      *)
(* others that are paused or not initialized.  (Losing the scheduler ends  *)
(* every application and resets every rate: hasScheduler' is false then.)  *)
OthersKeepTheirBands ==
    [][\A g \in Gnbs, u \in Ues :
          (hasScheduler'[g] /\ mac'[g].vehDataRate[u] # mac[g].vehDataRate[u]) =>
              \A a \in mac[g].scheduledApp \ (mac[g].pausedApp \cup mac[g].appToBeInitialized) :
                  UeOf[a] # u => /\ a \in mac'[g].scheduledApp
                                 /\ Held(mac'[g], a) = Held(mac[g], a)]_vars

(* A handler terminates, releases and reports one application after the    *)
(* other: the number of free bands in the last report it sends is the      *)
(* number free when it ends, which the scheduler will plan with.           *)
ReportsFreeBands ==
    [][\A g \in Gnbs :
          LET reports == {i \in DOMAIN out' : out'[i].type \in {"SrvFD", "RsuFD"}}
          IN  (mac'[g] # mac[g] /\ reports # {}) =>
                  out'[Last(reports)].availBand = GetAvailableBands(mac'[g])]_vars

=============================================================================
