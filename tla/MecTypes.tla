------------------------------ MODULE MecTypes ------------------------------
(***************************************************************************)
(* The identifiers every component of mecRT shares.                        *)
(*                                                                         *)
(* An AppId is the CID made of a vehicle's MacNodeId and the port of one   *)
(* of its applications (MacCidToNodeId, MacCidToLcid).  The code keeps     *)
(* applications in std::set<AppId> and std::map<AppId, ..> and walks them  *)
(* in ascending order, so applications are the numbers 1 .. NumApps and    *)
(* UeOf gives the vehicle of each.                                         *)
(***************************************************************************)
EXTENDS Integers, FiniteSets, Sequences

CONSTANTS
    Gnbs,      \* the base stations; each hosts a MAC, a server and a scheduler
    NoGnb,     \* the unspecified address / the default node id
    Ues,       \* the vehicles
    NoUe,      \* the vehicle id 0 of a status report that concerns no vehicle
    NumApps,   \* applications are the AppIds 1 .. NumApps
    UeOf       \* UeOf[a] is the vehicle application a runs on

Apps == 1 .. NumApps

ASSUME MecTypesAssumption ==
    /\ NumApps \in Nat
    /\ UeOf \in [Apps -> Ues]
    /\ NoGnb \notin Gnbs
    /\ NoUe \notin Ues

=============================================================================
