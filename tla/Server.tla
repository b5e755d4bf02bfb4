-------------------------------- MODULE Server --------------------------------
(***************************************************************************)
(* One edge server as a state machine, with the two parties it works       *)
(* between: a scheduler that sends it any command at any time, and the     *)
(* MACs of the offloading gNBs, of which it sees whether they carry a      *)
(* service.  A MAC keeps the grants that arrive within one TTI in          *)
(* grantList_ and takes the last one first, so the grants in flight to a   *)
(* MAC need not be handled in the order they were sent.                    *)
(*                                                                         *)
(* The nodes of an area reset when they hear that its topology changed,    *)
(* each at its own moment, and elect a scheduler routeComputationDelay_    *)
(* (5 ms) after the last such news, a time in which every message of the   *)
(* area arrives and every MAC drains its grantList_: a server finds a      *)
(* scheduler again when what the last one started is gone (Drained).       *)
(***************************************************************************)
EXTENDS ServerHandlers

CONSTANTS
    Self,          \* the gNB of this server
    Demands,       \* numbers of computing units a scheduler grants
    InitTimes,     \* initialization times of services
    UsedBands,     \* numbers of bands the RbManagerUl may allocate to one
    MaxInFlight    \* bound on each channel, for model checking

ASSUME ServerAssumption ==
    /\ Self \in Gnbs
    /\ Demands \subseteq Nat
    /\ InitTimes \subseteq Nat \ {0}
    /\ UsedBands \subseteq Nat
    /\ MaxInFlight \in Nat

VARIABLES
    server,         \* the server, between two events
    hasScheduler,   \* nodeInfo_ knows a global scheduler
    toMac,          \* toMac[o]: the NicGrants on their way to, or waiting in, gNB o
    carrier,        \* carrier[o]: does gNB o accept grants, and which does it carry
    toServer,       \* toServer[o]: the SrvFDs on their way from gNB o
    out             \* the messages the last handler of the server sent

vars == <<server, hasScheduler, toMac, carrier, toServer, out>>
environment == <<toMac, carrier, toServer>>

Init ==
    /\ server = InitialServer(Self)
    /\ hasScheduler = FALSE
    /\ toMac = [o \in Gnbs |-> <<>>]
    /\ carrier = [o \in Gnbs |-> [on |-> FALSE, apps |-> {}]]
    /\ toServer = [o \in Gnbs |-> <<>>]
    /\ out = <<>>

-----------------------------------------------------------------------------
(* The server.                                                             *)

\* handler h has run, which sends at most one message; a NicGrant leaves for its gNB
Perform(h) ==
    /\ server' = [h EXCEPT !.out = <<>>]
    /\ out' = h.out
    /\ toMac' = [o \in Gnbs |->
                    IF \E i \in DOMAIN h.out : h.out[i].type = "NicGrant" /\ h.out[i].offloadGnb = o
                    THEN Append(toMac[o], Head(h.out)) ELSE toMac[o]]

Room(o) == Len(toMac[o]) < MaxInFlight

ReceiveSrvGrant(grant) ==
    /\ Room(grant.offloadGnb)
    /\ grant.app \in server.granted => Room(server.service[grant.app].offloadGnb)
    /\ Perform(HandleSrvGrant(server, grant, hasScheduler))
    /\ UNCHANGED <<hasScheduler, carrier, toServer>>

Tick ==
    /\ server.timer > 0
    /\ LET waiting == ToSet(server.srvInInitVector)
       IN  server' = [server EXCEPT !.timer = @ - 1,
                         !.timeLeft = [a \in Apps |-> IF a \in waiting THEN @[a] - 1 ELSE @[a]]]
    /\ out' = <<>>
    /\ UNCHANGED <<hasScheduler, environment>>

ServiceInitComplete ==
    /\ server.timer = 0
    /\ Perform(HandleServiceInitComplete(server))
    /\ UNCHANGED <<hasScheduler, carrier, toServer>>

ReceiveSrvFD(o) ==
    /\ toServer[o] # <<>>
    /\ toServer' = [toServer EXCEPT ![o] = Tail(@)]
    /\ Perform(IF hasScheduler THEN HandleServiceFeedback(server, Head(toServer[o])) ELSE server)
    /\ UNCHANGED <<hasScheduler, carrier>>

\* a RsuFD of the local MAC, ignored without a scheduler
ReceiveRsuFD ==
    /\ hasScheduler
    /\ Perform(HandleRsuFeedback(server, [gnb |-> Self, veh |-> NoUe, bytePerBand |-> 0,
                                          availBand |-> 0]))
    /\ UNCHANGED <<hasScheduler, carrier, toServer>>

\* NodeInfo::setGlobalSchedulerAddr resets the MAC and the server of its node
LoseScheduler ==
    /\ Perform(ReleaseServerResources(server))
    /\ hasScheduler' = FALSE
    /\ carrier' = [carrier EXCEPT ![Self] = [on |-> FALSE, apps |-> {}]]
    /\ UNCHANGED toServer

Drained == \A o \in Gnbs : carrier[o].apps = {} /\ toMac[o] = <<>> /\ toServer[o] = <<>>

FindScheduler ==
    /\ ~hasScheduler
    /\ Drained
    /\ hasScheduler' = TRUE
    /\ carrier' = [carrier EXCEPT ![Self].on = TRUE]
    /\ out' = <<>>
    /\ UNCHANGED <<server, toMac, toServer>>

-----------------------------------------------------------------------------
(* The MACs, as far as this server sees them.                              *)
SrvFD(o, a, success, used) ==
    [app |-> a, success |-> success, processGnb |-> Self, offloadGnb |-> o, usedBand |-> used]

Report(o, apps, fd) ==
    /\ carrier' = [carrier EXCEPT ![o].apps = apps]
    /\ toServer' = [toServer EXCEPT ![o] = Append(@, fd)]

\* the gNB takes up a grant; used is what the RbManagerUl allocates
TakeGrant(o, i, used) ==
    LET grant == toMac[o][i]
        a     == grant.app
    IN  /\ i \in DOMAIN toMac[o]
        /\ toMac' = [toMac EXCEPT ![o] = RemoveAt(@, i)]
        /\ \/ /\ ~grant.stop /\ carrier[o].on
              /\ Report(o, carrier[o].apps \cup {a}, SrvFD(o, a, TRUE, used))
           \/ /\ grant.stop /\ a \in carrier[o].apps
              /\ Report(o, carrier[o].apps \ {a}, SrvFD(o, a, FALSE, 0))
           \/ /\ IF grant.stop THEN a \notin carrier[o].apps ELSE ~carrier[o].on
              /\ UNCHANGED <<carrier, toServer>>
        /\ out' = <<>>
        /\ UNCHANGED <<server, hasScheduler>>

\* feedback of a vehicle makes the gNB adjust or terminate a service
Adjust(o, a, used) ==
    /\ a \in carrier[o].apps /\ Len(toServer[o]) < MaxInFlight
    /\ Report(o, carrier[o].apps, SrvFD(o, a, TRUE, used))
    /\ out' = <<>>
    /\ UNCHANGED <<server, hasScheduler, toMac>>

Terminate(o, a) ==
    /\ a \in carrier[o].apps /\ Len(toServer[o]) < MaxInFlight
    /\ Report(o, carrier[o].apps \ {a}, SrvFD(o, a, FALSE, 0))
    /\ out' = <<>>
    /\ UNCHANGED <<server, hasScheduler, toMac>>

\* the gNB of another node loses its scheduler, and finds one
CarrierLoses(o) ==
    /\ o # Self /\ carrier[o].on
    /\ carrier' = [carrier EXCEPT ![o] = [on |-> FALSE, apps |-> {}]]
    /\ \E kept \in {toMac[o], <<>>} : toMac' = [toMac EXCEPT ![o] = kept]
    /\ out' = <<>>
    /\ UNCHANGED <<server, hasScheduler, toServer>>

CarrierFinds(o) ==
    /\ o # Self /\ ~carrier[o].on
    /\ carrier' = [carrier EXCEPT ![o].on = TRUE]
    /\ out' = <<>>
    /\ UNCHANGED <<server, hasScheduler, toMac, toServer>>

-----------------------------------------------------------------------------
\* a stop carries the numbers of the service it ends; the server does not read them
SchedulerCommands ==
    [app : Apps, start : {TRUE}, processGnb : Gnbs, offloadGnb : Gnbs,
     cmpUnits : Demands, bands : {1}, load : {1}, initTime : InitTimes]
    \cup [app : Apps, start : {FALSE}, processGnb : {Self}, offloadGnb : {Self},
          cmpUnits : {0}, bands : {0}, load : {0}, initTime : {0}]

Next ==
    \/ \E grant \in SchedulerCommands : ReceiveSrvGrant(grant)
    \/ Tick
    \/ ServiceInitComplete
    \/ \E o \in Gnbs : ReceiveSrvFD(o)
    \/ ReceiveRsuFD
    \/ LoseScheduler
    \/ FindScheduler
    \/ \E o \in Gnbs : \E i \in DOMAIN toMac[o], used \in UsedBands : TakeGrant(o, i, used)
    \/ \E o \in Gnbs, a \in Apps :
         Terminate(o, a) \/ \E used \in UsedBands : Adjust(o, a, used)
    \/ \E o \in Gnbs : CarrierLoses(o) \/ CarrierFinds(o)

Spec == Init /\ [][Next]_vars

(* The simulator delivers every message and runs every timer; a MAC drains  *)
(* grantList_ in the TTI after, so the oldest grant is not passed over for   *)
(* ever.                                                                     *)
Fairness ==
    /\ WF_vars(Tick)
    /\ WF_vars(ServiceInitComplete)
    /\ \A o \in Gnbs : /\ WF_vars(ReceiveSrvFD(o))
                       /\ WF_vars(\E used \in UsedBands : TakeGrant(o, 1, used))

FairSpec == Spec /\ Fairness

-----------------------------------------------------------------------------
TypeOK ==
    /\ server \in [gnbId : {Self}, cmpUnitFree : Int, granted : SUBSET Apps,
                   service : [Apps -> Service], appsWaitStop : SUBSET Apps,
                   appsWaitMacInitFb : SUBSET Apps, srvInInitVector : Seq(Apps),
                   timeLeft : [Apps -> Nat], timer : Nat \cup {NoTimer}, out : {<<>>}]
    /\ hasScheduler \in BOOLEAN
    /\ carrier \in [Gnbs -> [on : BOOLEAN, apps : SUBSET Apps]]

Initializing == {a \in server.granted : ~server.service[a].initComplete}
Waiting == server.appsWaitMacInitFb
Charged == (server.granted \ Initializing) \ Waiting

\* the sum of n[a] over the applications
Total(n) ==
    LET upTo[a \in 0 .. NumApps] == IF a = 0 THEN 0 ELSE upTo[a - 1] + n[a]
    IN  upTo[NumApps]

(* The free computing units are what the accepted services leave of the     *)
(* total, through starts, failures, stops during initialization, stops that *)
(* cross a termination, adjustments and resets: they are taken at the MAC's *)
(* acceptance and given back at its failure report, in two branches that    *)
(* appsWaitMacInitFb_ tells apart.                                          *)
UnitsAccounted ==
    server.cmpUnitFree
        + Total([a \in Apps |-> IF a \in Charged THEN server.service[a].cmpUnits ELSE 0])
        = CmpUnitTotal

(* srvInInitVector_ holds exactly the services that are initializing, once  *)
(* each, in the order of their completion, and srvInitComplete_ is set for  *)
(* the first: vector, map, timer and grantedService_ are updated apart.     *)
QueueMatchesServices ==
    LET q == server.srvInInitVector
    IN  /\ ToSet(q) = Initializing
        /\ IsInjective(q)
        /\ \A i, j \in DOMAIN q : i < j => server.timeLeft[q[i]] <= server.timeLeft[q[j]]
        /\ server.timer = IF q = <<>> THEN NoTimer ELSE server.timeLeft[q[1]]

(* The waiting sets have no stale member: a stop is remembered only while   *)
(* the service initializes, an acceptance awaited only after.               *)
WaitsAreCurrent ==
    /\ server.appsWaitStop \subseteq Initializing
    /\ Waiting \subseteq server.granted \ Initializing

(* A gNB that carries a service carries it for a server that runs it, or    *)
(* the end of it is on its way to one of them.                              *)
CarriedIsServed ==
    \A o \in Gnbs : \A a \in carrier[o].apps :
        hasScheduler => /\ a \in server.granted \ Initializing
                        /\ server.service[a].offloadGnb = o

-----------------------------------------------------------------------------
ReportsEnd(a) ==
    \E i \in DOMAIN out' : out'[i].type = "SrvFD" /\ out'[i].app = a /\ ~out'[i].success

(* The scheduler never keeps in allocatedApps_ what no server runs: a       *)
(* service that ends is reported to it in that step, or was when its stop   *)
(* came during the initialization; unless the scheduler itself is lost.     *)
EndsAreReported ==
    [][\A a \in Apps :
          \/ a \in server.granted \ server'.granted /\ a \notin server.appsWaitStop
          \/ a \in server'.appsWaitStop \ server.appsWaitStop
          => ReportsEnd(a) \/ ~hasScheduler']_vars

(* Every dated report carries the number of units free when its handler     *)
(* ends, after the report's own service has been charged or freed.          *)
ReportsFreeUnits ==
    [][\A i \in DOMAIN out' :
          out'[i].type = "SrvFD" /\ out'[i].dated => out'[i].availCmpUnit = server'.cmpUnitFree]_vars

(* The NicGrant for a that waits at its offloading gNB.                     *)
Sent(a, isStop) ==
    \E i \in DOMAIN toMac[server.service[a].offloadGnb] :
        LET msg == toMac[server.service[a].offloadGnb][i]
        IN  msg.app = a /\ msg.stop = isStop

Accepts(a) == carrier[server.service[a].offloadGnb].on

(* A stop sent for a service that runs ends it, as doc/messages/            *)
(* Grant2Server.md says of the stop command.                                *)
StopEndsService ==
    \A a \in Apps :
        (a \in server.granted \ Initializing /\ Sent(a, TRUE) /\ Accepts(a))
            ~> (a \notin server.granted \ Initializing \/ ~Accepts(a))

=============================================================================
