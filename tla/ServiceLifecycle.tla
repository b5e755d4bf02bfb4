--------------------------- MODULE ServiceLifecycle ---------------------------
(***************************************************************************)
(* The life of a service across the area of one global scheduler: the      *)
(* scheduler at node Host, the servers, and the MACs of the gNBs, over the *)
(* messages between them.                                                  *)
(*                                                                         *)
(*    scheduler --SrvGrant--> server --NicGrant--> MAC                      *)
(*    scheduler <--SrvFD, RsuFD-- server <--SrvFD-- MAC                     *)
(*                                                                         *)
(* Messages between two nodes keep their order.  A MAC is what the servers *)
(* see of module GnbMac: the applications it carries, each for the server  *)
(* that asked for it last.                                                 *)
(*                                                                         *)
(* Prompt: what the intervals are chosen for.  A schedule is computed      *)
(* every 10 s and services are stopped 20 ms before, so when a timer of    *)
(* the scheduler fires, what it commanded before has been answered, and no *)
(* change of the topology is being flooded.  The nodes of an area lose the *)
(* scheduler one by one and elect one when what the last one started is    *)
(* gone, as in module Server; they find it within milliseconds, and the    *)
(* first schedule comes appStopInterval_ + appFeedbackInterval_ later.     *)
(***************************************************************************)
EXTENDS SchedulerHandlers, ServerHandlers, FiniteSetsExt, SequencesExt

CONSTANTS
    Host,          \* the node of the global scheduler
    Demands,       \* computing units an application may be granted
    Prompt,        \* do the intervals cover the exchanges they are for?
    Losses,        \* may the area lose its scheduler?
    MaxInFlight    \* bound on each channel, for model checking

ASSUME ServiceLifecycleAssumption ==
    /\ Host \in Gnbs
    /\ Demands \subseteq Nat \ {0}
    /\ Prompt \in BOOLEAN
    /\ Losses \in BOOLEAN
    /\ MaxInFlight \in Nat

VARIABLES
    sched,          \* the scheduler of Host
    hasScheduler,   \* hasScheduler[n]: NodeInfo of n knows the global scheduler
    server,         \* server[n]: the server of node n
    carried,        \* carried[n][a]: the server gNB n carries a for, or NoGnb
    commands,       \* commands[n]: the SrvGrants on their way to server n
    toMac,          \* toMac[n]: the NicGrants on their way to, or waiting in, gNB n
    fromMac,        \* fromMac[n][p]: the SrvFDs from gNB n to server p
    reports         \* reports[n]: the messages of server n on their way to Host

vars == <<sched, hasScheduler, server, carried, commands, toMac, fromMac, reports>>

Init ==
    /\ sched = InitialScheduler
    /\ hasScheduler = [n \in Gnbs |-> FALSE]
    /\ server = [n \in Gnbs |-> InitialServer(n)]
    /\ carried = [n \in Gnbs |-> [a \in Apps |-> NoGnb]]
    /\ commands = [n \in Gnbs |-> <<>>]
    /\ toMac = [n \in Gnbs |-> <<>>]
    /\ fromMac = [n \in Gnbs |-> [p \in Gnbs |-> <<>>]]
    /\ reports = [n \in Gnbs |-> <<>>]

-----------------------------------------------------------------------------
CarriedBy(n) == {a \in Apps : carried[n][a] # NoGnb}

\* nothing is on its way but status reports
Quiet ==
    \A n \in Gnbs :
        /\ commands[n] = <<>> /\ toMac[n] = <<>>
        /\ server[n].srvInInitVector = <<>>
        /\ \A p \in Gnbs : fromMac[n][p] = <<>>
        /\ \A i \in DOMAIN reports[n] : reports[n][i].type = "RsuFD"

AllFound == \A n \in Gnbs : hasScheduler[n]
TimersMayFire == Prompt => Quiet /\ AllFound

-----------------------------------------------------------------------------
(* The scheduler.                                                          *)
PerformScheduler(h) ==
    /\ sched' = [h EXCEPT !.out = NothingSent]
    /\ commands' = [n \in Gnbs |-> commands[n] \o h.out[n]]

ReceiveRequest(a) ==
    /\ PerformScheduler(RecordVehRequest(sched, a))
    /\ UNCHANGED <<hasScheduler, server, carried, toMac, fromMac, reports>>

ReceiveReport(n) ==
    /\ reports[n] # <<>>
    /\ reports' = [reports EXCEPT ![n] = Tail(@)]
    /\ LET msg == Head(reports[n])
       IN  PerformScheduler(IF msg.type = "RsuFD" THEN RecordRsuStatus(sched, msg)
                            ELSE UpdateRsuSrvStatusFeedback(sched, msg))
    /\ UNCHANGED <<hasScheduler, server, carried, toMac, fromMac>>

PreScheduleCheck(expired) ==
    /\ sched.preSchedCheck /\ ~sched.schedComplete
    /\ TimersMayFire
    /\ PerformScheduler(HandlePreSchedulingCheck(sched, expired))
    /\ UNCHANGED <<hasScheduler, server, carried, toMac, fromMac, reports>>

\* the schedules of some of the pending applications, in ascending order
Schedules(s) ==
    UNION {
        {[i \in 1 .. Cardinality(A) |->
             LET a == SetToSortSeq(A, <)[i]
             IN  [app |-> a, processGnb |-> where[a][1], offloadGnb |-> where[a][2],
                  cmpUnits |-> where[a][3], bands |-> 1]] :
         where \in [A -> Gnbs \X Gnbs \X Demands]} :
        A \in SUBSET DeterminePendingScheduleApps(s)}

ScheduleStart(gone, links, stale, inTime) ==
    /\ sched.schedStarter /\ ~sched.preSchedCheck /\ ~sched.schedComplete
    /\ TimersMayFire
    /\ LET begun == BeginScheduling(sched, gone, links, stale)
       IN  \E schedule \in Schedules(begun) :
              /\ IsSchedule(begun, schedule)
              /\ PerformScheduler(FinishScheduling(begun, schedule, inTime))
    /\ UNCHANGED <<hasScheduler, server, carried, toMac, fromMac, reports>>

ScheduleComplete ==
    /\ sched.schedComplete
    /\ PerformScheduler(SendGrant(sched))
    /\ UNCHANGED <<hasScheduler, server, carried, toMac, fromMac, reports>>

-----------------------------------------------------------------------------
(* The servers.                                                            *)
\* handler h has run at server n, which sends at most one message: a NicGrant
\* to its gNB, any other to the scheduler, if the node knows one
PerformServer(n, h) ==
    /\ server' = [server EXCEPT ![n] = [h EXCEPT !.out = <<>>]]
    /\ toMac' = [o \in Gnbs |->
                    IF \E i \in DOMAIN h.out : h.out[i].type = "NicGrant" /\ h.out[i].offloadGnb = o
                    THEN Append(toMac[o], Head(h.out)) ELSE toMac[o]]
    /\ reports' = [reports EXCEPT ![n] =
                      IF hasScheduler[n] /\ \E i \in DOMAIN h.out : h.out[i].type # "NicGrant"
                      THEN Append(@, Head(h.out)) ELSE @]

ReceiveSrvGrant(n) ==
    /\ commands[n] # <<>>
    /\ commands' = [commands EXCEPT ![n] = Tail(@)]
    /\ PerformServer(n, HandleSrvGrant(server[n], Head(commands[n]), hasScheduler[n]))
    /\ UNCHANGED <<sched, hasScheduler, carried, fromMac>>

ServiceInitComplete(n) ==
    /\ server[n].timer = 0
    /\ PerformServer(n, HandleServiceInitComplete(server[n]))
    /\ UNCHANGED <<sched, hasScheduler, carried, commands, fromMac>>

ReceiveSrvFD(n, o) ==
    /\ fromMac[o][n] # <<>>
    /\ fromMac' = [fromMac EXCEPT ![o][n] = Tail(@)]
    /\ PerformServer(n, IF hasScheduler[n]
                        THEN HandleServiceFeedback(server[n], Head(fromMac[o][n]))
                        ELSE server[n])
    /\ UNCHANGED <<sched, hasScheduler, carried, commands>>

\* a RsuFD of the local MAC about a vehicle, or about none
ReportStatus(n, u) ==
    /\ hasScheduler[n]
    /\ Len(reports[n]) < MaxInFlight
    /\ PerformServer(n, HandleRsuFeedback(server[n], [gnb |-> n, veh |-> u,
                                                      bytePerBand |-> 1, availBand |-> 1]))
    /\ UNCHANGED <<sched, hasScheduler, carried, commands, fromMac>>

-----------------------------------------------------------------------------
(* The MACs.                                                               *)
Report(o, a, success, p) ==
    fromMac' = [fromMac EXCEPT ![o][p] =
                   Append(@, [app |-> a, success |-> success, processGnb |-> p,
                              offloadGnb |-> o, usedBand |-> IF success THEN 1 ELSE 0])]

TakeGrant(o, i) ==
    LET grant == toMac[o][i]
        a     == grant.app
    IN  /\ i \in DOMAIN toMac[o]
        /\ toMac' = [toMac EXCEPT ![o] = RemoveAt(@, i)]
        /\ \/ /\ ~grant.stop /\ hasScheduler[o]
              /\ carried' = [carried EXCEPT ![o][a] = grant.processGnb]
              /\ Report(o, a, TRUE, grant.processGnb)
           \/ /\ grant.stop /\ a \in CarriedBy(o)
              /\ carried' = [carried EXCEPT ![o][a] = NoGnb]
              /\ Report(o, a, FALSE, carried[o][a])
           \/ /\ IF grant.stop THEN a \notin CarriedBy(o) ELSE ~hasScheduler[o]
              /\ UNCHANGED <<carried, fromMac>>
        /\ UNCHANGED <<sched, hasScheduler, server, commands, reports>>

\* feedback of the vehicle of a makes the gNB end the service, or adjust it
Terminate(o, a) ==
    /\ a \in CarriedBy(o)
    /\ Report(o, a, FALSE, carried[o][a])
    /\ carried' = [carried EXCEPT ![o][a] = NoGnb]
    /\ UNCHANGED <<sched, hasScheduler, server, commands, toMac, reports>>

Adjust(o, a) ==
    /\ a \in CarriedBy(o)
    /\ LET p == carried[o][a]
       IN  Len(fromMac[o][p]) + Len(reports[p]) < MaxInFlight
    /\ Report(o, a, TRUE, carried[o][a])
    /\ UNCHANGED <<sched, hasScheduler, server, carried, commands, toMac, reports>>

-----------------------------------------------------------------------------
(* NodeInfo::setGlobalSchedulerAddr, unspecified and specified.             *)
LoseScheduler(n) ==
    /\ Losses
    /\ hasScheduler[n]
    /\ hasScheduler' = [hasScheduler EXCEPT ![n] = FALSE]
    /\ server' = [server EXCEPT ![n] = ReleaseServerResources(@)]
    /\ carried' = [carried EXCEPT ![n] = [a \in Apps |-> NoGnb]]
    /\ sched' = IF n = Host THEN GlobalSchedulerReset(sched) ELSE sched
    /\ \E kept \in {toMac[n], <<>>} : toMac' = [toMac EXCEPT ![n] = kept]
    /\ UNCHANGED <<commands, fromMac, reports>>

\* the news of a loss reaches the other nodes
HearOfLoss(n) == (\E o \in Gnbs : ~hasScheduler[o]) /\ LoseScheduler(n)

Elect ==
    /\ \A n \in Gnbs : ~hasScheduler[n] /\ CarriedBy(n) = {} /\ reports[n] = <<>>
    /\ Quiet
    /\ hasScheduler' = [n \in Gnbs |-> TRUE]
    /\ sched' = GlobalSchedulerInit(sched)
    /\ reports' = [n \in Gnbs |-> <<[type |-> "RsuFD", gnb |-> n, veh |-> NoUe,
                                     bytePerBand |-> 0, availBand |-> 1,
                                     freeCmpUnits |-> server[n].cmpUnitFree]>>]
    /\ UNCHANGED <<server, carried, commands, toMac, fromMac>>

-----------------------------------------------------------------------------
Next ==
    \/ \E a \in Apps : ReceiveRequest(a)
    \/ \E n \in Gnbs : ReceiveReport(n)
    \/ \E expired \in SUBSET Apps : PreScheduleCheck(expired)
    \/ \E gone \in SUBSET Apps, links \in SUBSET (Ues \X Gnbs), stale \in SUBSET Gnbs,
          inTime \in BOOLEAN : ScheduleStart(gone, links, stale, inTime)
    \/ ScheduleComplete
    \/ \E n \in Gnbs : ReceiveSrvGrant(n)
    \/ \E n \in Gnbs : ServiceInitComplete(n)
    \/ \E n, o \in Gnbs : ReceiveSrvFD(n, o)
    \/ \E n \in Gnbs, u \in Ues \cup {NoUe} : ReportStatus(n, u)
    \/ \E o \in Gnbs : \E i \in DOMAIN toMac[o] : TakeGrant(o, i)
    \/ \E o \in Gnbs, a \in Apps : Terminate(o, a)
    \/ \E o \in Gnbs, a \in Apps : Adjust(o, a)
    \/ \E n \in Gnbs : LoseScheduler(n)
    \/ Elect

Spec == Init /\ [][Next]_vars

(* The simulator delivers every message and fires every timer, a MAC       *)
(* drains grantList_ in its next TTI; the news of a loss reaches every     *)
(* node, and an area that is quiet elects.  Nothing is assumed of vehicles. *)
Fairness ==
    /\ WF_vars(ScheduleComplete)
    /\ WF_vars(PreScheduleCheck({}))
    /\ WF_vars(\E inTime \in BOOLEAN : ScheduleStart({}, {}, {}, inTime))
    /\ WF_vars(Elect)
    /\ \A n \in Gnbs : /\ WF_vars(ReceiveReport(n)) /\ WF_vars(ReceiveSrvGrant(n))
                       /\ WF_vars(ServiceInitComplete(n)) /\ WF_vars(TakeGrant(n, 1))
                       /\ WF_vars(HearOfLoss(n))
                       /\ \A o \in Gnbs : WF_vars(ReceiveSrvFD(n, o))

FairSpec == Spec /\ Fairness

-----------------------------------------------------------------------------
TypeOK ==
    /\ sched \in [appInfo : SUBSET Apps, blank : SUBSET Apps, vehApps : SUBSET Apps,
                  unscheduledApps : SUBSET Apps, appsWaitInitFb : SUBSET Apps,
                  appsWaitStopFb : SUBSET Apps, allocatedApps : SUBSET Apps,
                  srvInInitiating : [Apps -> ServiceInstance \cup {NoInstance}],
                  runningService : [Apps -> ServiceInstance \cup {NoInstance}],
                  rsuStatus : SUBSET Gnbs, cmpUnits : [Gnbs -> Nat],
                  rsuOnholdRbs : [Gnbs -> Nat], rsuOnholdCus : [Gnbs -> Nat],
                  vehAccessRsu : [Ues -> SUBSET Gnbs], vecSchedule : Seq(ServiceInstance),
                  schedStarter : BOOLEAN, preSchedCheck : BOOLEAN, schedComplete : BOOLEAN,
                  out : {NothingSent}]
    /\ hasScheduler \in [Gnbs -> BOOLEAN]
    /\ carried \in [Gnbs -> [Apps -> Gnbs \cup {NoGnb}]]

(* Every request is in exactly one of unscheduledApps_, appsWaitInitFb_ and *)
(* allocatedApps_, and none of them names an application without a request: *)
(* seven methods move applications between the sets, each on its own        *)
(* condition, and a default request would block the vehicle's next one.     *)
RequestHasOnePlace ==
    LET U == sched.unscheduledApps
        W == sched.appsWaitInitFb
        A == sched.allocatedApps
    IN  /\ U \cap W = {} /\ U \cap A = {} /\ W \cap A = {}
        /\ U \cup W \cup A = sched.appInfo
        /\ sched.vehApps = sched.appInfo /\ sched.blank = {}

(* No two servers run an application and no two gNBs carry it, although     *)
(* every period moves services, gNBs end them on their own and nodes reset  *)
(* at different moments.                                                    *)
OneServer ==
    \A a \in Apps, n, o \in Gnbs :
        n # o => /\ ~(a \in server[n].granted /\ a \in server[o].granted)
                 /\ ~(a \in CarriedBy(n) /\ a \in CarriedBy(o))

(* A server takes units when a gNB accepts a service, without looking at    *)
(* what is left: only the scheduler's holds and reports keep the services   *)
(* that initialize at the same time from using more than there is.          *)
UnitsNeverOvercommitted == \A n \in Gnbs : server[n].cmpUnitFree >= 0

(* What the scheduler holds back is what its unanswered starts ask for:     *)
(* a hold that is not given back makes the gNB smaller for ever.            *)
HoldsMatchStarts ==
    \A g \in Gnbs :
        LET starts == sched.appsWaitInitFb
            srv(a) == sched.srvInInitiating[a]
        IN  /\ sched.rsuOnholdCus[g] = MapThenSumSet(LAMBDA a : srv(a).cmpUnits,
                   {a \in starts : srv(a).processGnb = g})
            /\ sched.rsuOnholdRbs[g] = MapThenSumSet(LAMBDA a : srv(a).bands,
                   {a \in starts : srv(a).offloadGnb = g})

(* When every message has arrived, scheduler, servers and gNBs agree on     *)
(* which services run, where, and on the units that are free.               *)
BooksAgree ==
    Quiet /\ AllFound =>
        /\ sched.appsWaitInitFb = {}
        /\ \A a \in Apps, n \in Gnbs :
              LET runs == a \in sched.allocatedApps /\ sched.runningService[a].processGnb = n
                  o    == sched.runningService[a].offloadGnb
              IN  /\ a \in server[n].granted <=> runs
                  /\ runs => server[n].service[a].offloadGnb = o /\ carried[o][a] = n
                  /\ carried[n][a] # NoGnb => a \in sched.allocatedApps
        /\ \A n \in sched.rsuStatus :
              reports[n] = <<>> => sched.cmpUnits[n] \in {0, server[n].cmpUnitFree}

-----------------------------------------------------------------------------
NewCommands == {c \in Gnbs \X (1 .. Cardinality(Apps) + MaxInFlight) :
                   c[2] \in DOMAIN commands'[c[1]] \ DOMAIN commands[c[1]]}

(* A server ignores the start of a service it still has, without a word:    *)
(* the scheduler starts a service only when nothing of the last one is left *)
(* at any node.                                                             *)
GrantsAreFresh ==
    [][\A c \in NewCommands :
          LET grant == commands'[c[1]][c[2]]
          IN  grant.start =>
                 \A n \in Gnbs : /\ grant.app \notin server[n].granted
                                 /\ grant.app \notin CarriedBy(n)]_vars

(* Every start is answered: the scheduler waits for no feedback for ever,   *)
(* though it never sends a grant again (checkLostGrant has no caller).      *)
StartsAreAnswered ==
    \A a \in Apps : a \in sched.appsWaitInitFb ~> a \notin sched.appsWaitInitFb

=============================================================================
