------------------------------ MODULE UeHandlers ------------------------------
(***************************************************************************)
(* A vehicle: its MAC (class UeMac), the set of base stations its PHY      *)
(* reports the channel to (class UePhy), and its applications (UeApp).     *)
(*                                                                         *)
(* A handler is an operator from the vehicle v before the event to the     *)
(* vehicle after it.  Events of one moment are one: a grant passes from    *)
(* the MAC to its application, a job from the application to the RLC, and  *)
(* a request of the MAC to the RLC and back, without simulated time.       *)
(*                                                                         *)
(* Abstracted: the jobs that wait, in the RLC and in macBuffers_ alike,    *)
(* are the set of applications that have some, since all jobs of an        *)
(* application leave together, in one PDU.                                 *)
(***************************************************************************)
EXTENDS MecTypes

NoGrant == [offloadGnb |-> NoGnb, processGnb |-> NoGnb, bytePerTti |-> 0, blocks |-> {}]

\* the fields of a Grant2Veh that are read from vecGrant_
GrantFields(msg) == [offloadGnb |-> msg.offloadGnb, processGnb |-> msg.processGnb,
                     bytePerTti |-> msg.bytePerTti, blocks |-> msg.blocks]

InitialUe ==
    [left |-> FALSE,                              \* NOW >= moveStoptime_
     grantedApp |-> {}, vecGrant |-> [a \in Apps |-> NoGrant],
     grantedRsus |-> {}, macBuffers |-> {},
     ttiTick |-> FALSE,                           \* ttiTick_ is scheduled
     serviceGranted |-> [a \in Apps |-> FALSE],   \* of UeApp a
     processGnbAddr |-> [a \in Apps |-> NoGnb]]

-----------------------------------------------------------------------------
(* UeApp.                                                                  *)

UeAppHandleGrant(v, msg) ==
    LET a == msg.app
    IN  CASE msg.kind = "stop" ->
               [v EXCEPT !.serviceGranted[a] = FALSE, !.processGnbAddr[a] = NoGnb]
          [] msg.kind = "pause" ->
               [v EXCEPT !.serviceGranted[a] = FALSE]
          [] OTHER ->
               [v EXCEPT !.serviceGranted[a] = TRUE, !.processGnbAddr[a] = msg.processGnb]

\* mutant: only the first data starts the tick
SendJobPacketFirst(v, a) ==
    IF v.serviceGranted[a]
    THEN [v EXCEPT !.macBuffers = @ \cup {a}, !.ttiTick = @ \/ v.macBuffers = {}]
    ELSE v

\* a job goes to the server that processes it, or is processed in the vehicle;
\* the notification of new data starts ttiTick_
SendJobPacket(v, a) ==
    IF v.serviceGranted[a]
    THEN [v EXCEPT !.macBuffers = @ \cup {a}, !.ttiTick = TRUE]
    ELSE v

-----------------------------------------------------------------------------
(* UeMac: grants.                                                          *)
\* mutant: the message itself is kept
StoreGrantMessage(v, msg) == [v EXCEPT !.vecGrant[msg.app] = msg]

StoreGrant(v, msg) == [v EXCEPT !.vecGrant[msg.app] = GrantFields(msg)]

AddGrantedRsu(v, g) == [v EXCEPT !.grantedRsus = @ \cup {g}]
RemoveGrantedRsu(v, g) == [v EXCEPT !.grantedRsus = @ \ {g}]

\* the application is granted, by another gNB
IsDuplicate(v, msg) ==
    /\ msg.app \in v.grantedApp
    /\ v.vecGrant[msg.app].offloadGnb # msg.offloadGnb

Enter(v, msg) ==
    AddGrantedRsu([StoreGrant(v, msg) EXCEPT !.grantedApp = @ \cup {msg.app}], msg.offloadGnb)

HandleNewGrant(v, msg) ==
    IF IsDuplicate(v, msg) THEN v ELSE UeAppHandleGrant(Enter(v, msg), msg)

\* mutant: an update is for the application only
HandleGrantUpdateForwards(v, msg) == UeAppHandleGrant(v, msg)

HandleGrantUpdate(v, msg) == UeAppHandleGrant(StoreGrant(v, msg), msg)

\* mutant: a first grant that is paused does not enter grantedApp_
HandlePauseNotEntered(v, msg) ==
    IF msg.app \notin v.grantedApp THEN AddGrantedRsu(StoreGrant(v, msg), msg.offloadGnb)
    ELSE IF IsDuplicate(v, msg) THEN v
    ELSE UeAppHandleGrant(v, msg)

\* a first grant may be paused; the application need not know
HandlePause(v, msg) ==
    IF msg.app \notin v.grantedApp THEN Enter(v, msg)
    ELSE IF IsDuplicate(v, msg) THEN v
    ELSE UeAppHandleGrant(v, msg)

HandleGrantStop(v, msg) ==
    LET erased == [v EXCEPT !.grantedApp = @ \ {msg.app}, !.vecGrant[msg.app] = NoGrant]
    IN  UeAppHandleGrant(RemoveGrantedRsu(erased, msg.offloadGnb), msg)

VecHandleVehicularGrant(v, msg) ==
    IF v.left THEN v
    ELSE CASE msg.kind = "new"    -> HandleNewGrant(v, msg)
           [] msg.kind = "update" -> HandleGrantUpdate(v, msg)
           [] msg.kind = "pause"  -> HandlePause(v, msg)
           [] msg.kind = "stop"   -> HandleGrantStop(v, msg)

-----------------------------------------------------------------------------
(* UeMac: data.                                                            *)

RequestedApps(v) == v.grantedApp \cap v.macBuffers

\* ttiTick_: the granted applications' data is requested from the RLC and
\* leaves, one PDU for each, under its grant (dropped at moveStoptime_)
VecHandleSelfMessage(v) ==
    [v EXCEPT !.ttiTick = FALSE, !.macBuffers = @ \ RequestedApps(v)]

-----------------------------------------------------------------------------
\* mutant: a broadcast, too, goes to the granted base stations only
FeedbackReceiversGranted(v, accessible, isBroadcast) == v.grantedRsus

\* UePhy: the base stations a feedback goes to
FeedbackReceivers(v, accessible, isBroadcast) ==
    IF isBroadcast THEN v.grantedRsus \cup accessible ELSE v.grantedRsus

=============================================================================
