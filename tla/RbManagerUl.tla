----------------------------- MODULE RbManagerUl -----------------------------
(***************************************************************************)
(* The uplink resource-block manager of a gNB (class RbManagerUl), one     *)
(* operator per method.  A method that changes the object is an operator   *)
(* from the object m, a record with the class's fields, to the changed     *)
(* record.  A method that also returns a bool leaves the answer readable   *)
(* in the lists of the record it returns.                                  *)
(*                                                                         *)
(* Abstracted: bands carry rbPerBand_ blocks each, so a map from bands to  *)
(* block counts is the set of its bands; the data an application offloads  *)
(* and the time it is allowed to take meet in one number, `load', the      *)
(* bytes per TTI the grant has to carry.                                   *)
(***************************************************************************)
EXTENDS MecTypes

CONSTANT NumBands      \* the bands of the carrier are 0 .. NumBands - 1

ASSUME RbManagerUlAssumption == NumBands \in Nat \ {0}

Bands == 0 .. (NumBands - 1)

\* struct AppGrantInfo, without the fields no decision reads
AppGrantInfo == [numGrantedBands : Nat, load : Nat, processGnb : Gnbs \cup {NoGnb},
                 grantedBandSet : SUBSET Bands, tempBands : SUBSET Bands]

\* what operator[] puts in appGrantInfos_ under a key it did not hold
DefaultInfo == [numGrantedBands |-> 0, load |-> 0, processGnb |-> NoGnb,
                grantedBandSet |-> {}, tempBands |-> {}]

-----------------------------------------------------------------------------
Touch(m, a) == [m EXCEPT !.known = @ \cup {a}]
RuntimeError(m) == [m EXCEPT !.failed = TRUE]

GetVehDataRate(m, a) == m.vehDataRate[UeOf[a]]
ReadAppRbOccupation(m, a) == m.appGrantedRb[a] \cup m.appTempRb[a]
GetAppAllocatedBands(m, a) ==
    Cardinality(m.appGrantInfos[a].grantedBandSet) + Cardinality(m.appGrantInfos[a].tempBands)
GetAvailableBands(m) == Cardinality(m.flexibleBands)

SetVehDataRate(m, u, r) == [m EXCEPT !.vehDataRate[u] = r]
SetAppGrantInfo(m, a, info) == [Touch(m, a) EXCEPT !.appGrantInfos[a] = info]
RemoveAppGrantInfo(m, a) ==
    [m EXCEPT !.known = @ \ {a}, !.appGrantInfos[a] = DefaultInfo]
AddAppToBeInitialized(m, a) == [m EXCEPT !.appToBeInitialized = @ \cup {a}]

\* the n lowest bands of S: what n steps of an iterator from S.begin() visit
FirstBands(S, n) == {b \in S : Cardinality({c \in S : c <= b}) <= n}

GetMinimumRequiredBands(m, a) ==
    (m.appGrantInfos[a].load + GetVehDataRate(m, a) - 1) \div GetVehDataRate(m, a)

IsGrantEnough(m, a) ==
    /\ m.appGrantInfos[a].grantedBandSet # {}
    /\ GetVehDataRate(m, a) > 0
    /\ GetMinimumRequiredBands(m, a) <= Cardinality(m.appGrantInfos[a].grantedBandSet)

\* mutant: the app keeps its temporary blocks in appTempRbMap_
ReleaseTempBandsButTheMap(m, a) ==
    [Touch(m, a) EXCEPT !.flexibleBands = @ \cup m.appTempRb[a],
                        !.appGrantInfos[a].tempBands = {}]

ReleaseTempBands(m, a) ==
    [Touch(m, a) EXCEPT !.flexibleBands = @ \cup m.appTempRb[a],
                        !.appTempRb[a] = {},
                        !.appGrantInfos[a].tempBands = {}]

-----------------------------------------------------------------------------
\* mutant: the bands a grant asks for are not held against its load
CanScheduleAnyGranted(m, a) ==
    LET numBand == m.appGrantInfos[a].numGrantedBands
    IN  numBand > 0 /\ numBand <= GetAvailableBands(m) /\ GetVehDataRate(m, a) > 0

(* A grant that reached the gNB: it gets the bands it asks for, or nothing. *)
CanScheduleGranted(m, a) ==
    LET numBand == m.appGrantInfos[a].numGrantedBands
    IN  /\ numBand > 0
        /\ numBand <= GetAvailableBands(m)
        /\ GetVehDataRate(m, a) > 0
        /\ GetMinimumRequiredBands(m, a) <= numBand

ScheduleGrantedApp(m, a) ==
    LET first   == FirstBands(m.flexibleBands, m.appGrantInfos[a].numGrantedBands)
        granted == m.appGrantInfos[a].grantedBandSet \cup first
    IN  IF CanScheduleGranted(m, a)
        THEN [Touch(m, a) EXCEPT !.appGrantInfos[a].grantedBandSet = granted,
                                 !.appGrantedRb[a] = @ \cup first,
                                 !.flexibleBands = @ \ granted,
                                 !.appToBeInitialized = @ \ {a},
                                 !.scheduledApp = @ \cup {a}]
        ELSE Touch(m, a)

\* mutant: the app leaves scheduledApp_ without entering pausedApp_
ScheduleActiveAppNoPause(m, a) ==
    LET r == ReleaseTempBands(m, a)
    IN  IF a \notin m.scheduledApp THEN RuntimeError(m)
        ELSE IF IsGrantEnough(r, a) THEN r
        ELSE [r EXCEPT !.scheduledApp = @ \ {a}]

(* A scheduled app is reconsidered: it gives its temporary bands back and   *)
(* is paused when the bands of its grant no longer carry its load.          *)
ScheduleActiveApp(m, a) ==
    LET r == ReleaseTempBands(m, a)
    IN  IF a \notin m.scheduledApp THEN RuntimeError(m)
        ELSE IF IsGrantEnough(r, a) THEN r
        ELSE [r EXCEPT !.pausedApp = @ \cup {a}, !.scheduledApp = @ \ {a}]

Resume(m, a) ==
    [Touch(m, a) EXCEPT !.pausedApp = @ \ {a}, !.scheduledApp = @ \cup {a}]

ExtraBandDemand(m, a) ==
    GetMinimumRequiredBands(m, a) - Cardinality(m.appGrantInfos[a].grantedBandSet)

(* A paused app is resumed on its granted bands, or else with temporary     *)
(* flexible bands on top of them.                                           *)
SchedulePausedApp(m, a) ==
    LET first == FirstBands(m.flexibleBands, ExtraBandDemand(m, a))
        temp  == m.appGrantInfos[a].tempBands \cup first
    IN  IF a \notin m.pausedApp THEN RuntimeError(m)
        ELSE IF IsGrantEnough(m, a) THEN Resume(m, a)
        ELSE IF \/ GetVehDataRate(m, a) = 0
                \/ ExtraBandDemand(m, a) > GetAvailableBands(m)
             THEN Touch(m, a)
        ELSE [Resume(m, a) EXCEPT !.appTempRb[a] = @ \cup first,
                                  !.appGrantInfos[a].tempBands = temp,
                                  !.flexibleBands = @ \ temp]

\* mutant: a terminated app keeps waiting for its first bands
TerminateAppServiceStillWaits(m, a) ==
    LET r == [m EXCEPT !.scheduledApp = @ \ {a},
                       !.pausedApp = @ \ {a},
                       !.flexibleBands = @ \cup m.appGrantedRb[a],
                       !.appGrantedRb[a] = {},
                       !.appGrantInfos[a].grantedBandSet = {}]
    IN  ReleaseTempBands(r, a)

TerminateAppService(m, a) ==
    LET r == [m EXCEPT !.scheduledApp = @ \ {a},
                       !.pausedApp = @ \ {a},
                       !.appToBeInitialized = @ \ {a},
                       !.flexibleBands = @ \cup m.appGrantedRb[a],
                       !.appGrantedRb[a] = {},
                       !.appGrantInfos[a].grantedBandSet = {}]
    IN  ReleaseTempBands(r, a)

ResetRbStatus(m) ==
    [m EXCEPT !.scheduledApp = {}, !.pausedApp = {}, !.appToBeInitialized = {},
              !.vehDataRate = [u \in Ues |-> 0],
              !.appGrantedRb = [a \in Apps |-> {}],
              !.appTempRb = [a \in Apps |-> {}],
              !.flexibleBands = Bands,
              !.appGrantInfos = [a \in Apps |-> DefaultInfo],
              !.known = {}]

=============================================================================
