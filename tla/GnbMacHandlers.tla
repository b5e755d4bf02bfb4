--------------------------- MODULE GnbMacHandlers ---------------------------
(***************************************************************************)
(* The edge-computing half of a base station's MAC (class GnbMac): the     *)
(* grants servers ask it to carry, the channel feedback of the vehicles,   *)
(* and what it tells vehicles and servers.                                 *)
(*                                                                         *)
(* A handler is an operator from the MAC m before the event to the MAC     *)
(* after it.  The record m holds nodeId_, disableNic_, grantList_, the     *)
(* fields of its RbManagerUl, the messages `out' the running handler has   *)
(* sent so far, and `failed', set where the code throws cRuntimeError.     *)
(***************************************************************************)
EXTENDS RbManagerUl

(* A NicGrant, as a server sends it to the offloading gNB.                 *)
NicGrant == [app : Apps, stop : BOOLEAN, bands : Nat, load : Nat,
             processGnb : Gnbs, offloadGnb : Gnbs]

-----------------------------------------------------------------------------
(* What the MAC sends.                                                     *)
Emit(m, msg) == [m EXCEPT !.out = Append(@, msg)]

\* kind is "new", "update", "stop" or "pause"; a new or an updated grant
\* carries the blocks and their bytes per TTI
MecSendGrantToVeh(m, a, kind) ==
    LET info   == m.appGrantInfos[a]
        active == kind \in {"new", "update"}
    IN  Emit(Touch(m, a),
             [type |-> "VehGrant", app |-> a, kind |-> kind,
              processGnb |-> info.processGnb, offloadGnb |-> m.nodeId,
              bytePerTti |-> IF active THEN GetVehDataRate(m, a) * GetAppAllocatedBands(m, a)
                                       ELSE 0,
              blocks |-> IF active THEN ReadAppRbOccupation(m, a) ELSE {}])

MecFeedbackServiceStatus(m, a, success) ==
    Emit(Touch(m, a),
         [type |-> "SrvFD", app |-> a, success |-> success, offloadGnb |-> m.nodeId,
          processGnb |-> m.appGrantInfos[a].processGnb,
          usedBand |-> IF success THEN GetAppAllocatedBands(m, a) ELSE 0,
          availBand |-> GetAvailableBands(m)])

MecFeedbackRsuFd(m, u) ==
    Emit(m, [type |-> "RsuFD", gnb |-> m.nodeId, veh |-> u,
             bytePerBand |-> m.vehDataRate[u], availBand |-> GetAvailableBands(m)])

\* mutant: the report goes out before the bands come back
TerminateServiceReportsFirst(m, a) ==
    LET reported == MecFeedbackServiceStatus(m, a, FALSE)
    IN  RemoveAppGrantInfo(MecSendGrantToVeh(TerminateAppService(reported, a), a, "stop"), a)

TerminateService(m, a) ==
    LET stopped  == TerminateAppService(m, a)
        reported == MecFeedbackServiceStatus(stopped, a, FALSE)
    IN  RemoveAppGrantInfo(MecSendGrantToVeh(reported, a, "stop"), a)

-----------------------------------------------------------------------------
(* A grant, or the end of one, from a server.  hasScheduler: nodeInfo_     *)
(* knows a global scheduler.                                               *)
MecHandleGrantFromRsu(m, grant, hasScheduler) ==
    LET a      == grant.app
        stored == SetAppGrantInfo(m, a,
                     [DefaultInfo EXCEPT !.numGrantedBands = grant.bands,
                                         !.load = grant.load,
                                         !.processGnb = grant.processGnb])
        told   == MecFeedbackServiceStatus(ScheduleGrantedApp(stored, a), a, TRUE)
    IN  IF grant.offloadGnb # m.nodeId THEN RuntimeError(m)
        ELSE IF grant.stop
             THEN IF a \in m.known THEN TerminateService(m, a) ELSE m
        ELSE IF ~hasScheduler THEN m
        ELSE IF CanScheduleGranted(stored, a)
             THEN MecSendGrantToVeh(told, a, "new")
        ELSE AddAppToBeInitialized(MecSendGrantToVeh(told, a, "pause"), a)

(* The ttiTick_ empties grantList_ from its back.                          *)
ClearGrantList(m) == [m EXCEPT !.grantList = <<>>]
GrantFromBack(m, k) == m.grantList[Len(m.grantList) + 1 - k]

HandleTtiTick(m, hasScheduler) ==
    LET after[k \in 0 .. Len(m.grantList)] ==
            IF k = 0 THEN ClearGrantList(m)
            ELSE MecHandleGrantFromRsu(after[k - 1], GrantFromBack(m, k), hasScheduler)
    IN  after[Len(m.grantList)]

-----------------------------------------------------------------------------
(* Channel feedback from a vehicle.  Each loop body of                     *)
(* mecFeedbackRsuStatus is an operator on the application it visits.       *)

\* broadcast, a scheduled app of the vehicle
KeepOrTerminate(m, a, rateChanged) ==
    LET r    == ScheduleActiveApp(m, a)
        kept == MecFeedbackServiceStatus(r, a, TRUE)
    IN  IF a \notin r.scheduledApp THEN TerminateService(r, a)
        ELSE IF rateChanged \/ GetAppAllocatedBands(m, a) # GetAppAllocatedBands(r, a)
             THEN MecSendGrantToVeh(kept, a, "update")
        ELSE kept

\* mutant: a new rate on the same bands is not worth an update
KeepOrPauseIgnoresRate(m, a, rateChanged) ==
    LET r == ScheduleActiveApp(m, a)
    IN  IF /\ a \in r.scheduledApp
           /\ GetAppAllocatedBands(m, a) # GetAppAllocatedBands(r, a)
        THEN MecSendGrantToVeh(r, a, "update")
        ELSE r

\* no broadcast, a scheduled app of the vehicle
KeepOrPause(m, a, rateChanged) ==
    LET r == ScheduleActiveApp(m, a)
    IN  IF /\ a \in r.scheduledApp
           /\ rateChanged \/ GetAppAllocatedBands(m, a) # GetAppAllocatedBands(r, a)
        THEN MecSendGrantToVeh(r, a, "update")
        ELSE r

\* no broadcast, an app of the vehicle that waits for its first bands
TryInitialize(m, a) ==
    IF CanScheduleGranted(m, a)
    THEN MecSendGrantToVeh(ScheduleGrantedApp(m, a), a, "update")
    ELSE ScheduleGrantedApp(m, a)

\* no broadcast, an app this feedback paused
ResumeOrPause(m, a) ==
    LET r == SchedulePausedApp(m, a)
    IN  MecSendGrantToVeh(r, a, IF a \in r.pausedApp THEN "pause" ELSE "update")

\* no broadcast, an app that was paused before
TryResume(m, a) ==
    LET r == SchedulePausedApp(m, a)
    IN  IF a \in r.pausedApp THEN r ELSE MecSendGrantToVeh(r, a, "update")

LoopBody(m, a, what) ==
    CASE what = "keepOrTerminate"        -> KeepOrTerminate(m, a, FALSE)
      [] what = "keepOrTerminateNewRate" -> KeepOrTerminate(m, a, TRUE)
      [] what = "keepOrPause"            -> KeepOrPause(m, a, FALSE)
      [] what = "keepOrPauseNewRate"     -> KeepOrPause(m, a, TRUE)
      [] what = "tryInitialize"          -> TryInitialize(m, a)
      [] what = "resumeOrPause"          -> ResumeOrPause(m, a)
      [] what = "tryResume"              -> TryResume(m, a)
      [] what = "terminate"              -> TerminateService(m, a)
      [] OTHER                           -> MecSendGrantToVeh(m, a, "stop")

\* for (AppId appId : S) LoopBody: a std::set is walked in ascending order
ForEachApp(m, S, what) ==
    LET after[a \in 0 .. NumApps] ==
            IF a = 0 THEN m
            ELSE IF a \in S THEN LoopBody(after[a - 1], a, what)
            ELSE after[a - 1]
    IN  after[NumApps]

\* mutant: the apps of every vehicle
AppsOfAll(S, u) == S

AppsOf(S, u) == {a \in S : UeOf[a] = u}

BroadcastFeedback(m, u, rate, hasScheduler) ==
    LET new   == SetVehDataRate(m, u, rate)
        keep  == IF rate = m.vehDataRate[u] THEN "keepOrTerminate" ELSE "keepOrTerminateNewRate"
        kept  == ForEachApp(new, AppsOf(new.scheduledApp, u), keep)
        inits == ForEachApp(kept, kept.appToBeInitialized, "terminate")
        done  == ForEachApp(inits, inits.pausedApp, "terminate")
    IN  IF rate > 0 /\ hasScheduler THEN MecFeedbackRsuFd(done, u) ELSE done

\* mutant: every app that was scheduled is walked as if it had been paused
LocalFeedbackResumesAll(m, u, rate) ==
    LET new    == SetVehDataRate(m, u, rate)
        active == AppsOf(new.scheduledApp, u)
        keep   == IF rate = m.vehDataRate[u] THEN "keepOrPause" ELSE "keepOrPauseNewRate"
        kept   == ForEachApp(new, active, keep)
        inits  == ForEachApp(kept, AppsOf(kept.appToBeInitialized, u), "tryInitialize")
        again  == ForEachApp(inits, active, "resumeOrPause")
    IN  ForEachApp(again, again.pausedApp \ active, "tryResume")

LocalFeedback(m, u, rate) ==
    LET new    == SetVehDataRate(m, u, rate)
        active == AppsOf(new.scheduledApp, u)
        keep   == IF rate = m.vehDataRate[u] THEN "keepOrPause" ELSE "keepOrPauseNewRate"
        kept   == ForEachApp(new, active, keep)
        active2Paused == active \ kept.scheduledApp
        inits  == ForEachApp(kept, AppsOf(kept.appToBeInitialized, u), "tryInitialize")
        again  == ForEachApp(inits, active2Paused, "resumeOrPause")
    IN  ForEachApp(again, again.pausedApp \ active2Paused, "tryResume")

\* rate is 0 for a vehicle beyond srsDistance_
MecFeedbackRsuStatus(m, u, rate, isBroadcast, hasScheduler) ==
    IF isBroadcast THEN BroadcastFeedback(m, u, rate, hasScheduler)
    ELSE LocalFeedback(m, u, rate)

-----------------------------------------------------------------------------
(* Called by NodeInfo when the global scheduler is lost, and found.        *)
MecTerminateAllGrant(m) ==
    LET allApps == m.scheduledApp \cup m.appToBeInitialized \cup m.pausedApp
    IN  ResetRbStatus(ForEachApp(ClearGrantList(m), allApps, "sendStop"))

MecRecoverRsuStatus(m) ==
    Emit(m, [type |-> "RsuFD", gnb |-> m.nodeId, veh |-> NoUe,
             bytePerBand |-> 0, availBand |-> GetAvailableBands(m)])

InitialMac(g) ==
    ResetRbStatus([nodeId |-> g, disableNic |-> FALSE, grantList |-> <<>>,
                   scheduledApp |-> {}, pausedApp |-> {}, appToBeInitialized |-> {},
                   vehDataRate |-> <<>>, appGrantedRb |-> <<>>, appTempRb |-> <<>>,
                   flexibleBands |-> {}, appGrantInfos |-> <<>>, known |-> {},
                   out |-> <<>>, failed |-> FALSE])

=============================================================================
