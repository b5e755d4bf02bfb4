------------------------------ MODULE MCMecOspf ------------------------------
(* Three gNBs and a router in a line.                                       *)
EXTENDS MecOspf

MCLine == {{1, 2}, {2, 3}, {3, 4}}

=============================================================================
