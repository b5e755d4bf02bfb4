------------------------------ MODULE MCVehicle ------------------------------
(* One vehicle with two applications between two gNBs.                      *)
EXTENDS Vehicle

MCUeOf == [a \in Apps |-> "u1"]

\* each gNB carries for the server of the other
MCServersOf == [g \in Gnbs |-> Gnbs \ {g}]

=============================================================================
