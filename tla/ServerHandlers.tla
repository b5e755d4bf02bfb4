---------------------------- MODULE ServerHandlers ----------------------------
(***************************************************************************)
(* The edge server of a gNB (class Server): it initializes the services    *)
(* the scheduler grants, asks the offloading gNB to carry each, and counts *)
(* the computing units the running ones use.                               *)
(*                                                                         *)
(* A handler is an operator from the server v before the event to the      *)
(* server after it.  The record v holds gnbId_, cmpUnitFree_, the keys and *)
(* the values of grantedService_ (`granted' and `service'), the sets       *)
(* appsWaitStop_ and appsWaitMacInitFb_, srvInInitVector_, and the         *)
(* messages `out' the running handler has sent so far.  Times are kept     *)
(* relative to now: timeLeft is srvInitCompleteTime_, and timer is the     *)
(* time left on srvInitComplete_, or NoTimer.                              *)
(***************************************************************************)
EXTENDS MecTypes, SequencesExt

CONSTANT CmpUnitTotal      \* cmpUnitTotal_

ASSUME ServerHandlersAssumption == CmpUnitTotal \in Nat

NoTimer == -1

\* struct Service, without the fields no decision reads
Service == [processGnb : Gnbs \cup {NoGnb}, offloadGnb : Gnbs \cup {NoGnb},
            cmpUnits : Nat, bands : Nat, load : Nat, initComplete : BOOLEAN]

\* what operator[] puts in grantedService_ under a key it did not hold
DefaultService == [processGnb |-> NoGnb, offloadGnb |-> NoGnb, cmpUnits |-> 0,
                   bands |-> 0, load |-> 0, initComplete |-> FALSE]

\* a SrvGrant of the scheduler; initTime is serviceInitTime_ of its service
SrvGrant == [app : Apps, start : BOOLEAN, processGnb : Gnbs, offloadGnb : Gnbs,
             cmpUnits : Nat, bands : Nat, load : Nat, initTime : Nat]

InitialServer(g) ==
    [gnbId |-> g, cmpUnitFree |-> CmpUnitTotal, granted |-> {},
     service |-> [a \in Apps |-> DefaultService], appsWaitStop |-> {},
     appsWaitMacInitFb |-> {}, srvInInitVector |-> <<>>,
     timeLeft |-> [a \in Apps |-> 0], timer |-> NoTimer, out |-> <<>>]

\* mutant: the waiting sets survive the release
ReleaseServerResourcesButTheWaits(v) ==
    [InitialServer(v.gnbId) EXCEPT !.out = v.out, !.appsWaitStop = v.appsWaitStop,
                                   !.appsWaitMacInitFb = v.appsWaitMacInitFb]

ReleaseServerResources(v) == [InitialServer(v.gnbId) EXCEPT !.out = v.out]

-----------------------------------------------------------------------------
(* grantedService_[a] and what is sent.                                    *)
Store(v, a, srv) == [v EXCEPT !.granted = @ \cup {a}, !.service[a] = srv]
Erase(v, a) == [v EXCEPT !.granted = @ \ {a}, !.service[a] = DefaultService]
SendOut(v, msg) == [v EXCEPT !.out = Append(@, msg)]

SendGrant2OffloadingNic(v, a, isStop) ==
    LET srv == v.service[a]
    IN  SendOut(Store(v, a, srv),
                [type |-> "NicGrant", app |-> a, stop |-> isStop, bands |-> srv.bands,
                 load |-> srv.load, processGnb |-> srv.processGnb,
                 offloadGnb |-> srv.offloadGnb])

\* the service did not start, or stopped before it ran.  availCmpUnit counts
\* for the scheduler only with the time of its update.
SendFailure(v, a, processGnb, offloadGnb, dated) ==
    SendOut(v, [type |-> "SrvFD", app |-> a, success |-> FALSE, processGnb |-> processGnb,
                offloadGnb |-> offloadGnb, dated |-> dated, availCmpUnit |-> v.cmpUnitFree])

-----------------------------------------------------------------------------
(* The initialization queue, ordered by completion time; equal times keep   *)
(* the order of arrival.                                                    *)

\* mutant: a service is queued behind all the others
EnqueueLast(v, a, initTime) ==
    LET queue == Append(v.srvInInitVector, a)
        left  == [v.timeLeft EXCEPT ![a] = initTime]
    IN  [v EXCEPT !.timeLeft = left, !.srvInInitVector = queue, !.timer = left[queue[1]]]

Enqueue(v, a, initTime) ==
    LET q     == v.srvInInitVector
        ahead == Cardinality({i \in DOMAIN q : v.timeLeft[q[i]] <= initTime})
        queue == InsertAt(q, ahead + 1, a)
        left  == [v.timeLeft EXCEPT ![a] = initTime]
    IN  [v EXCEPT !.timeLeft = left, !.srvInInitVector = queue, !.timer = left[queue[1]]]

\* mutant: the timer is not set again
DequeueNoTimer(v) ==
    [v EXCEPT !.srvInInitVector = Tail(@), !.timeLeft[Head(v.srvInInitVector)] = 0,
              !.timer = NoTimer]

Dequeue(v) ==
    LET rest == Tail(v.srvInInitVector)
    IN  [v EXCEPT !.srvInInitVector = rest,
                  !.timeLeft[Head(v.srvInInitVector)] = 0,
                  !.timer = IF rest = <<>> THEN NoTimer ELSE v.timeLeft[rest[1]]]

InitializeService(v, grant) ==
    LET a   == grant.app
        srv == [processGnb |-> grant.processGnb, offloadGnb |-> grant.offloadGnb,
                cmpUnits |-> grant.cmpUnits, bands |-> grant.bands, load |-> grant.load,
                initComplete |-> FALSE]
    IN  IF grant.processGnb # v.gnbId
        THEN Erase(SendFailure(v, a, grant.processGnb, grant.offloadGnb, FALSE), a)
        ELSE IF v.cmpUnitFree < grant.cmpUnits
        THEN Erase(SendFailure(v, a, grant.processGnb, grant.offloadGnb, TRUE), a)
        ELSE Enqueue(Store(v, a, srv), a, grant.initTime)

\* the timer srvInitComplete_
HandleServiceInitComplete(v) ==
    LET a     == Head(v.srvInInitVector)
        r     == Dequeue(v)
        ready == Store(r, a, [r.service[a] EXCEPT !.initComplete = TRUE])
    IN  IF a \in r.appsWaitStop
        THEN [Erase(r, a) EXCEPT !.appsWaitStop = @ \ {a}]
        ELSE [SendGrant2OffloadingNic(ready, a, FALSE) EXCEPT !.appsWaitMacInitFb = @ \cup {a}]

\* mutant: an initializing service is forgotten at once, without a report
StopServiceAtOnce(v, a) ==
    IF v.service[a].initComplete THEN SendGrant2OffloadingNic(v, a, TRUE) ELSE Erase(v, a)

\* mutant: a running service is forgotten before the gNB has ended it
StopServiceForgets(v, a) ==
    LET srv    == v.service[a]
        failed == SendFailure(v, a, srv.processGnb, srv.offloadGnb, FALSE)
    IN  IF srv.initComplete THEN Erase(SendGrant2OffloadingNic(v, a, TRUE), a)
        ELSE [failed EXCEPT !.appsWaitStop = @ \cup {a}]

StopService(v, a) ==
    LET srv    == v.service[a]
        failed == SendFailure(v, a, srv.processGnb, srv.offloadGnb, FALSE)
    IN  IF srv.initComplete THEN SendGrant2OffloadingNic(v, a, TRUE)
        ELSE [failed EXCEPT !.appsWaitStop = @ \cup {a}]

(* handleMessage: a command of the scheduler.                               *)
HandleSrvGrant(v, grant, hasScheduler) ==
    IF grant.start
    THEN IF grant.app \notin v.granted /\ hasScheduler THEN InitializeService(v, grant) ELSE v
    ELSE IF grant.app \in v.granted THEN StopService(v, grant.app) ELSE v

(* A SrvFD of the offloading gNB, which leaves grantedBand unset.  cmpUnits *)
(* are taken when the gNB has accepted the service, and come back when it   *)
(* has ended.                                                               *)
Forward(v, fd) ==
    SendOut(v, [type |-> "SrvFD", app |-> fd.app, success |-> fd.success,
                processGnb |-> fd.processGnb, offloadGnb |-> fd.offloadGnb,
                dated |-> TRUE, availCmpUnit |-> v.cmpUnitFree,
                grantedBand |-> 0])

\* mutant: an adjustment takes the units again
HandleServiceFeedbackChargesAgain(v, fd) ==
    LET a       == fd.app
        waits   == a \in v.appsWaitMacInitFb
        settled == [v EXCEPT !.appsWaitMacInitFb = @ \ {a}]
        running == Store(settled, a, [v.service[a] EXCEPT !.bands = fd.usedBand])
        charged == [running EXCEPT !.cmpUnitFree = @ - v.service[a].cmpUnits]
        freed   == [settled EXCEPT !.cmpUnitFree = @ + v.service[a].cmpUnits]
    IN  Forward(IF fd.success THEN charged ELSE Erase(IF waits THEN settled ELSE freed, a), fd)

\* mutant: the report is made before the units are taken
HandleServiceFeedbackReportsFirst(v, fd) ==
    LET a       == fd.app
        waits   == a \in v.appsWaitMacInitFb
        told    == Forward([v EXCEPT !.appsWaitMacInitFb = @ \ {a}], fd)
        running == Store(told, a, [v.service[a] EXCEPT !.bands = fd.usedBand])
        charged == [running EXCEPT !.cmpUnitFree = @ - v.service[a].cmpUnits]
        freed   == [told EXCEPT !.cmpUnitFree = @ + v.service[a].cmpUnits]
    IN  IF fd.success THEN (IF waits THEN charged ELSE running)
        ELSE Erase(IF waits THEN told ELSE freed, a)

HandleServiceFeedback(v, fd) ==
    LET a       == fd.app
        waits   == a \in v.appsWaitMacInitFb
        settled == [v EXCEPT !.appsWaitMacInitFb = @ \ {a}]
        running == Store(settled, a, [v.service[a] EXCEPT !.bands = fd.usedBand])
        charged == [running EXCEPT !.cmpUnitFree = @ - v.service[a].cmpUnits]
        freed   == [settled EXCEPT !.cmpUnitFree = @ + v.service[a].cmpUnits]
    IN  IF fd.success
        THEN Forward(IF waits THEN charged ELSE running, fd)
        ELSE Forward(Erase(IF waits THEN settled ELSE freed, a), fd)

(* A RsuFD of the local gNB goes to the scheduler with the computing units. *)
HandleRsuFeedback(v, fd) ==
    SendOut(v, [type |-> "RsuFD", gnb |-> fd.gnb, veh |-> fd.veh,
                bytePerBand |-> fd.bytePerBand, availBand |-> fd.availBand,
                freeCmpUnits |-> v.cmpUnitFree])

=============================================================================
