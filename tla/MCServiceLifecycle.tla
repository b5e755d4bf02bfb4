-------------------------- MODULE MCServiceLifecycle --------------------------
(* Two gNBs, of which the first hosts the scheduler; one vehicle.           *)
EXTENDS ServiceLifecycle

MCUeOf == [a \in Apps |-> "u1"]

=============================================================================
