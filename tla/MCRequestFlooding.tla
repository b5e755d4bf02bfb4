--------------------------- MODULE MCRequestFlooding ---------------------------
(* Three base stations in a ring, so that a request comes around to its    *)
(* first node from both sides, one request, and one failure.               *)
EXTENDS RequestFlooding

MCUeOf == <<"u1">>
MCLinks == {{"g1", "g2"}, {"g2", "g3"}, {"g1", "g3"}}

=============================================================================
