------------------------------- MODULE MCServer -------------------------------
(* One server, the gNB it is in and one other; one vehicle.                 *)
EXTENDS Server

MCUeOf == [a \in Apps |-> "u1"]

=============================================================================
