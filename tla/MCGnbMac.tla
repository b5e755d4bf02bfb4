------------------------------ MODULE MCGnbMac ------------------------------
(* One gNB, two vehicles; the first runs two applications.                 *)
EXTENDS GnbMac

MCUeOf == <<"u1", "u1", "u2">>

=============================================================================
