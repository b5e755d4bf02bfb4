--------------------------- MODULE SchedulerHandlers ---------------------------
(***************************************************************************)
(* The global scheduler (class Scheduler, centralized schemes): it records *)
(* the requests of the vehicles and the status of the gNBs, computes a     *)
(* schedule every period and commands the servers to start and stop        *)
(* services.                                                               *)
(*                                                                         *)
(* A handler is an operator from the scheduler s before the event to the   *)
(* scheduler after it; out[g] collects the commands the running handler    *)
(* sends to the server of g.  std::map::operator[] creates the entry it    *)
(* does not find: appInfo holds the keys of appInfo_ with a vehicle's      *)
(* request under them, blank the keys with a default one.                  *)
(* srvInInitiating_ has the keys appsWaitInitFb, runningService_ the keys  *)
(* allocatedApps.                                                          *)
(*                                                                         *)
(* Abstracted: gNBs have more bands than their applications need, so the   *)
(* numbers of free bands decide nothing and are left out of rsuStatus_     *)
(* (what the code does with bands at the offloading gNB it does with       *)
(* computing units at the processing gNB); dates are relative to now, so   *)
(* what is outdated, expired or gone is an argument of the handler.        *)
(***************************************************************************)
EXTENDS MecTypes

CONSTANT RescheduleAll     \* rescheduleAll_

ASSUME SchedulerHandlersAssumption == RescheduleAll \in BOOLEAN

\* struct ServiceInstance, without the fields no decision reads
ServiceInstance == [app : Apps, processGnb : Gnbs, offloadGnb : Gnbs,
                    cmpUnits : Nat, bands : Nat]

NoInstance == [app |-> 0, processGnb |-> NoGnb, offloadGnb |-> NoGnb,
               cmpUnits |-> 0, bands |-> 0]

NothingSent == [g \in Gnbs |-> <<>>]

InitialScheduler ==
    [appInfo |-> {}, blank |-> {}, vehApps |-> {}, unscheduledApps |-> {},
     appsWaitInitFb |-> {}, appsWaitStopFb |-> {}, allocatedApps |-> {},
     srvInInitiating |-> [a \in Apps |-> NoInstance],
     runningService |-> [a \in Apps |-> NoInstance],
     rsuStatus |-> {}, cmpUnits |-> [g \in Gnbs |-> 0],
     rsuOnholdRbs |-> [g \in Gnbs |-> 0], rsuOnholdCus |-> [g \in Gnbs |-> 0],
     vehAccessRsu |-> [u \in Ues |-> {}], vecSchedule |-> <<>>,
     schedStarter |-> FALSE, preSchedCheck |-> FALSE, schedComplete |-> FALSE,
     out |-> NothingSent]

Least(x, y) == IF x < y THEN x ELSE y
Greatest(x, y) == IF x > y THEN x ELSE y

-----------------------------------------------------------------------------
(* What it hears.                                                          *)
RecordVehRequest(s, a) ==
    IF a \in s.appInfo \cup s.blank THEN s
    ELSE [s EXCEPT !.appInfo = @ \cup {a}, !.vehApps = @ \cup {a},
                   !.unscheduledApps = @ \cup {a}]

(* The status of a gNB, and of the link of a vehicle to it: messages of one *)
(* server arrive in order, so each is newer than the one before.            *)
RecordRsuStatus(s, fd) ==
    LET g     == fd.gnb
        first == [s EXCEPT !.rsuStatus = @ \cup {g},
                           !.rsuOnholdRbs[g] = 0, !.rsuOnholdCus[g] = 0]
        known == IF g \in s.rsuStatus THEN s ELSE first
        dated == [known EXCEPT !.cmpUnits[g] = fd.freeCmpUnits]
    IN  IF fd.veh = NoUe THEN dated
        ELSE [dated EXCEPT !.vehAccessRsu[fd.veh] = @ \cup {g}]

\* mutant: the units on hold are given back only if the start failed
InitFeedbackKeepsHolds(s, fd) ==
    LET a     == fd.app
        srv   == s.srvInInitiating[a]
        ended == [s EXCEPT
                    !.rsuOnholdRbs[fd.offloadGnb] = Greatest(@ - srv.bands, 0),
                    !.appsWaitInitFb = @ \ {a}, !.srvInInitiating[a] = NoInstance]
    IN  IF fd.success
        THEN [ended EXCEPT !.allocatedApps = @ \cup {a}, !.runningService[a] = srv]
        ELSE [ended EXCEPT !.unscheduledApps = @ \cup {a},
                           !.rsuOnholdCus[fd.processGnb] = Greatest(@ - srv.cmpUnits, 0)]

\* the answer to a start
InitFeedback(s, fd) ==
    LET a     == fd.app
        srv   == s.srvInInitiating[a]
        ended == [s EXCEPT
                    !.rsuOnholdRbs[fd.offloadGnb] = Greatest(@ - srv.bands, 0),
                    !.rsuOnholdCus[fd.processGnb] = Greatest(@ - srv.cmpUnits, 0),
                    !.appsWaitInitFb = @ \ {a}, !.srvInInitiating[a] = NoInstance]
    IN  IF fd.success
        THEN [ended EXCEPT !.allocatedApps = @ \cup {a}, !.runningService[a] = srv]
        ELSE [ended EXCEPT !.unscheduledApps = @ \cup {a}]

\* mutant: an application whose service ended is not pending again
AdjustFeedbackForgets(s, fd) ==
    LET a == fd.app
    IN  IF fd.success THEN [s EXCEPT !.runningService[a].bands = fd.grantedBand]
        ELSE [s EXCEPT !.appsWaitStopFb = @ \ {a}, !.allocatedApps = @ \ {a},
                       !.runningService[a] = NoInstance]

\* an adjustment or the end of a service that runs
AdjustFeedback(s, fd) ==
    LET a == fd.app
    IN  IF fd.success THEN [s EXCEPT !.runningService[a].bands = fd.grantedBand]
        ELSE [s EXCEPT !.appsWaitStopFb = @ \ {a}, !.allocatedApps = @ \ {a},
                       !.runningService[a] = NoInstance,
                       !.unscheduledApps = @ \cup {a}]

UpdateRsuSrvStatusFeedback(s, fd) ==
    LET news == IF fd.dated THEN [s EXCEPT !.cmpUnits[fd.processGnb] = fd.availCmpUnit] ELSE s
    IN  IF fd.app \in s.appsWaitInitFb THEN InitFeedback(news, fd)
        ELSE IF fd.app \in s.allocatedApps THEN AdjustFeedback(news, fd)
        ELSE s

-----------------------------------------------------------------------------
(* What it commands.                                                       *)
SendGrantPacket(s, srv, isStart) ==
    LET a == srv.app
    IN  [s EXCEPT
           !.blank = IF a \in s.appInfo THEN @ ELSE @ \cup {a},
           !.out[srv.processGnb] =
               Append(@, [app |-> a, start |-> isStart, processGnb |-> srv.processGnb,
                          offloadGnb |-> srv.offloadGnb, cmpUnits |-> srv.cmpUnits,
                          bands |-> srv.bands, load |-> 1, initTime |-> 0])]

SchedulerStopsService(s, a) ==
    LET running  == SendGrantPacket(s, s.runningService[a], FALSE)
        starting == SendGrantPacket(s, s.srvInInitiating[a], FALSE)
    IN  IF a \in s.appsWaitStopFb THEN s
        ELSE IF a \in s.allocatedApps
             THEN [running EXCEPT !.appsWaitStopFb = @ \cup {a}]
        ELSE IF a \in s.appsWaitInitFb
             THEN [starting EXCEPT !.appsWaitStopFb = @ \cup {a}]
        ELSE s

\* for (AppId appId : S) stopService(appId)
StopAll(s, S) ==
    LET after[a \in 0 .. NumApps] ==
            IF a = 0 THEN s
            ELSE IF a \in S THEN SchedulerStopsService(after[a - 1], a)
            ELSE after[a - 1]
    IN  after[NumApps]

(* appStopInterval_ before the next schedule.  expired: the applications    *)
(* with a request whose stop time is near.                                  *)
HandlePreSchedulingCheck(s, expired) ==
    LET fired  == [s EXCEPT !.preSchedCheck = FALSE]
        looked == [fired EXCEPT !.blank = @ \cup (s.allocatedApps \ s.appInfo)]
        due    == s.allocatedApps \cap (expired \cup looked.blank)
    IN  IF RescheduleAll THEN StopAll(StopAll(fired, s.appsWaitInitFb), s.allocatedApps)
        ELSE StopAll(looked, due)

-----------------------------------------------------------------------------
(* A scheduling period.                                                    *)

(* gone: unscheduled applications whose vehicle left or whose stop time is  *)
(* near; links: outdated links of vehicles; stale: gNBs not heard of.  A    *)
(* default request names no vehicle, so its application is always gone.     *)
RemoveOutdatedInfo(s, gone, links, stale) ==
    LET removed == s.unscheduledApps \cap (gone \cup (Apps \ s.appInfo))
    IN  [s EXCEPT
           !.unscheduledApps = @ \ removed,
           !.vehApps = @ \ (removed \cap s.appInfo),
           !.appInfo = @ \ removed, !.blank = @ \ removed,
           !.vehAccessRsu = [u \in Ues |-> @[u] \ {g \in Gnbs : <<u, g>> \in links}],
           !.cmpUnits = [g \in Gnbs |-> IF g \in stale THEN 0 ELSE @[g]]]

DeterminePendingScheduleApps(s) == {a \in s.vehApps : s.vehAccessRsu[UeOf[a]] # {}}

\* rsuCUs_, as the schemes initialize it
AvailableCus(s, g) == s.cmpUnits[g] - s.rsuOnholdCus[g]

\* mutant: each instance is compared with the free units on its own
AskedCusOneByOne(schedule, g) ==
    LET asks == {schedule[i].cmpUnits : i \in {j \in DOMAIN schedule : schedule[j].processGnb = g}}
    IN  IF asks = {} THEN 0 ELSE CHOOSE x \in asks : \A y \in asks : y <= x

\* the units a schedule asks of g
AskedCus(schedule, g) ==
    LET sum[i \in 0 .. Len(schedule)] ==
            IF i = 0 THEN 0
            ELSE sum[i - 1] + IF schedule[i].processGnb = g THEN schedule[i].cmpUnits ELSE 0
    IN  sum[Len(schedule)]

(* What a scheme may return: at most one instance for each pending          *)
(* application, at gNBs it knows, within what they have left.               *)
IsSchedule(s, schedule) ==
    /\ schedule \in Seq(ServiceInstance)
    /\ \A i \in DOMAIN schedule :
          /\ schedule[i].app \in DeterminePendingScheduleApps(s)
          /\ schedule[i].offloadGnb \in s.vehAccessRsu[UeOf[schedule[i].app]] \cap s.rsuStatus
          /\ schedule[i].processGnb \in s.rsuStatus
          /\ \A j \in DOMAIN schedule : schedule[i].app = schedule[j].app => i = j
    /\ \A g \in Gnbs : AskedCus(schedule, g) <= Greatest(AvailableCus(s, g), 0)

\* mutant: the stops that were never answered are still waited for
BeginSchedulingKeepsWaits(s, gone, links, stale) ==
    RemoveOutdatedInfo([s EXCEPT !.schedStarter = TRUE, !.preSchedCheck = TRUE],
                       gone, links, stale)

\* updateNextSchedulingTime, and the start of handleCentralizedScheduling
BeginScheduling(s, gone, links, stale) ==
    RemoveOutdatedInfo([s EXCEPT !.schedStarter = TRUE, !.preSchedCheck = TRUE,
                                 !.appsWaitStopFb = {}], gone, links, stale)

\* inTime: the scheme took less than schedulingInterval_ - appStopInterval_
FinishScheduling(s, schedule, inTime) ==
    IF DeterminePendingScheduleApps(s) = {} \/ ~inTime
    THEN [s EXCEPT !.vecSchedule = <<>>]
    ELSE [s EXCEPT !.vecSchedule = schedule, !.schedComplete = TRUE]

GrantInstance(s, srv) ==
    LET a    == srv.app
        sent == SendGrantPacket(s, srv, TRUE)
    IN  IF s.cmpUnits[srv.processGnb] < srv.cmpUnits THEN s
        ELSE [sent EXCEPT
                !.unscheduledApps = @ \ {a}, !.appsWaitInitFb = @ \cup {a},
                !.srvInInitiating[a] = srv,
                !.rsuOnholdRbs[srv.offloadGnb] = @ + srv.bands,
                !.rsuOnholdCus[srv.processGnb] =
                    Least(@ + srv.cmpUnits, s.cmpUnits[srv.processGnb])]

SendGrant(s) ==
    LET after[i \in 0 .. Len(s.vecSchedule)] ==
            IF i = 0 THEN [s EXCEPT !.schedComplete = FALSE]
            ELSE GrantInstance(after[i - 1], s.vecSchedule[i])
    IN  [after[Len(s.vecSchedule)] EXCEPT !.vecSchedule = <<>>]

-----------------------------------------------------------------------------
(* Called by NodeInfo when this node stops, and starts, being the global    *)
(* scheduler.  The requests survive, and so does appsWaitStopFb.            *)

GlobalSchedulerReset(s) ==
    [InitialScheduler EXCEPT !.appInfo = s.appInfo, !.blank = s.blank,
        !.vehApps = s.vehApps,
        !.unscheduledApps = s.unscheduledApps \cup s.appsWaitInitFb \cup s.allocatedApps,
        !.appsWaitStopFb = s.appsWaitStopFb]

GlobalSchedulerInit(s) == [GlobalSchedulerReset(s) EXCEPT !.schedStarter = TRUE]

=============================================================================
