------------------------------ MODULE MCSchemes ------------------------------
(* Three applications of two vehicles and two neighbouring gNBs with up to   *)
(* four bands and units, and two services: a fast one that adds little and   *)
(* a slow one that adds much.  The graph matching schemes, which offer half  *)
(* of a gNB at most, get faster links, so that one band and unit may do.     *)
EXTENDS SearchSchemes

MCUeOf == <<"u1", "u1", "u2">>
MCLinks == <<{2}, {1}>>
MCApp == << [size |-> 8, link |-> 2, period |-> 16, service |-> 1, accuracy |-> 1, energy |-> 20, power |-> 2],
            [size |-> 4, link |-> 1, period |-> 16, service |-> 2, accuracy |-> 2, energy |-> 60, power |-> 1],
            [size |-> 8, link |-> 2, period |-> 32, service |-> 2, accuracy |-> 1, energy |-> 30, power |-> 3] >>
MCWork == <<12, 24>>
MCAccuracy == <<3, 60>>

Rates == {[u1 |-> <<1, 2>>, u2 |-> <<2, 0>>], [u1 |-> <<2, 1>>, u2 |-> <<4, 2>>]}
FastRates == {[u1 |-> <<8, 0>>, u2 |-> <<8, 4>>], [u1 |-> <<4, 8>>, u2 |-> <<0, 8>>]}
Few == { <<<<2, 2>>, <<2, 2>>>>, <<<<1, 2>>, <<2, 1>>>>, <<<<4, 2>>, <<2, 2>>>> }
More == { <<<<2, 4>>, <<1, 2>>>>, <<<<4, 2>>, <<4, 0>>>>, <<<<2, 1>>, <<4, 4>>>> }
Enough == { <<<<4, 4>>, <<4, 2>>>>, <<<<4, 2>>, <<4, 4>>>>, <<<<2, 4>>, <<2, 4>>>>, <<<<4, 4>>, <<2, 2>>>> }
Inputs(apps, rates, resources) ==
    {[apps |-> a, rate |-> rate, rbs |-> r[1], cus |-> r[2], fair |-> fair] :
        a \in apps, rate \in rates, r \in resources, fair \in Shares}
MCProblems ==
    [s \in SchemeNames |->
        IF s \in Matching THEN Inputs({{1, 2, 3}}, FastRates, Enough) \cup Inputs({{1}, {1, 3}}, Rates, More)
        ELSE IF s \in Iterating THEN Inputs({{1, 2, 3}}, Rates, Few) \cup Inputs({{1, 2}}, Rates, More)
        ELSE Inputs({{1, 2}, {1, 2, 3}}, Rates, Few \cup More)]

=============================================================================
