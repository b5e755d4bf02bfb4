-------------------------- MODULE MCDistScheduling --------------------------
(* Two vehicles, one with two applications, between two gNBs of two bands   *)
(* and two units.  A gNB may have no instance for an application.           *)
EXTENDS DistScheduling

MCUeOf == <<"u1", "u2", "u1">>

Light(v) == [rb |-> 1, cu |-> 1, value |-> v]
Heavy(v) == [rb |-> 2, cu |-> 1, value |-> v]
MCMenus == << {<<>>, <<Light(2)>>}, {<<>>, <<Light(1), Heavy(7)>>}, {<<>>, <<Light(4), Heavy(9)>>} >>

=============================================================================
