------------------------------- MODULE Schemes -------------------------------
(***************************************************************************)
(* The centralized offloading schemes: from the pending applications and   *)
(* the free resources of a period they generate service instances (an      *)
(* application, the gNB it offloads to, the gNB that processes it, bands,  *)
(* units, service) and select a schedule among them.                       *)
(*                                                                         *)
(* Four ways of selecting: by efficiency (Greedy), by utility (GameTheory),*)
(* by local ratio (FastLR, FwdQuickLR, FastSA, FastSAND, FastSANF, FastIS, *)
(* IDAssign: push the instances whose utility exceeds what the pushed ones *)
(* have taken from it, then select from the last to the first), and gNB by *)
(* gNB with a linear program (SARound).  The schemes that search for a     *)
(* schedule in steps (Iterative, GraphMatch) only generate their instances *)
(* here; SearchSchemes has the rest.  A scheme is named after its class.   *)
(*                                                                         *)
(* Times are integers, and utilities integers in units of 1/Scale; the     *)
(* shares of a gNB are such that nothing is rounded (GainsAreEarned).      *)
(* Every gNB has reported its resources.                                   *)
(***************************************************************************)
EXTENDS MecTypes, FiniteSetsExt, SequencesExt

CONSTANTS
    Links,          \* Links[g]: the neighbours of gNB g in the topology
    MaxHops,        \* how far a request is forwarded
    App,            \* App[a]: size (with headers), link (its time on one hop), period, ...
    Work,           \* Work[s]: execution time of service s times the units it is given
    Accuracy,       \* Accuracy[s]: what service s reaches
    Tti, Overhead, RbStep, CuStep, ResourceSlack,
    Scale,          \* one unit of utility
    SchemeNames,    \* the schemes that are run
    Problems        \* Problems[s]: the inputs of scheme s: apps, rate, rbs, cus, fair

Energy == {"SchemeGreedy", "SchemeGameTheory", "SchemeFastLR", "SchemeSARound",
           "SchemeFwdGreedy", "SchemeFwdGameTheory", "SchemeFwdQuickLR",
           "SchemeIterative", "SchemeFwdGraphMatch"}
ByEfficiency == {"SchemeGreedy", "SchemeFwdGreedy", "AccuracyGreedy"}
ByUtility == {"SchemeGameTheory", "SchemeFwdGameTheory", "AccuracyGameTheory"}
Rounding == {"SchemeSARound", "AccuracySARound"}
ByShare == {"AccuracyFastIS", "AccuracyIDAssign"}    \* measure against floor(fairFactor_ * free)
LocalRatio == {"SchemeFastLR", "SchemeFwdQuickLR", "AccuracyFastSA", "AccuracyFastSAND",
               "AccuracyFastSANF"} \cup ByShare
Iterating == {"SchemeIterative", "AccuracyIterative"}
Matching == {"SchemeFwdGraphMatch", "AccuracyGraphMatch"}
Forwarding == {"SchemeFwdGreedy", "SchemeFwdGameTheory", "SchemeFwdQuickLR", "AccuracyGreedy",
               "AccuracyGameTheory", "AccuracyFastSA", "AccuracyFastSAND"} \cup Matching

Services == DOMAIN Work
Shares == {<<1, 1>>, <<1, 2>>}    \* the values of fairFactor_, as fractions
AppRecord == [size : Nat \ {0}, link : Nat, period : Nat \ {0}, service : Services,
              accuracy : Nat, energy : Nat, power : Nat]

ASSUME SchemesAssumption ==
    /\ IsFiniteSet(Gnbs) /\ Gnbs = 1 .. Cardinality(Gnbs)
    /\ Links \in [Gnbs -> SUBSET Gnbs] /\ MaxHops \in Nat
    /\ {Tti, RbStep, CuStep, Scale} \subseteq Nat \ {0} /\ {Overhead, ResourceSlack} \subseteq Nat
    /\ Work \in Seq(Nat \ {0}) /\ Accuracy \in [Services -> Nat]
    /\ App \in [Apps -> AppRecord] /\ \A a \in Apps : Scale % App[a].period = 0
    /\ SchemeNames \subseteq ByEfficiency \cup ByUtility \cup Rounding \cup LocalRatio
                            \cup Iterating \cup Matching
    /\ \A n \in SchemeNames : Problems[n] \subseteq
          [apps : SUBSET Apps, rate : [Ues -> [Gnbs -> Nat]],
           rbs : [Gnbs -> Nat], cus : [Gnbs -> Nat], fair : Shares]
    /\ \A n \in SchemeNames : \A p \in Problems[n] : \A g \in Gnbs : \A s \in Services : \A cu \in 1 .. p.cus[g] :
          Work[s] % cu = 0

VARIABLES
    problem,    \* the input of the period
    scheme,     \* the scheme that runs
    phase,      \* "idle", "push" and "select" of a pass or a step of a search, "done"
    pass,       \* which pass of the scheme; the gNB of the round for SARound
    insts,      \* the instances, in the order they are generated
    cands,      \* the candidates of the pass, in the order they are pushed
    chosen,     \* what the pass has selected
    best        \* the best of the finished passes, the schedule in the end

vars == <<problem, scheme, phase, pass, insts, cands, chosen, best>>

-----------------------------------------------------------------------------
(* The loops of the code: for every member of a sequence, upward, downward, *)
(* and until the first member at which the loop breaks.                     *)

Loop(seq, Body(_)) == FlattenSeq([k \in DOMAIN seq |-> Body(seq[k])])
CeilDiv(n, d) == (n + d - 1) \div d
Up(first, last, step) ==
    [k \in 1 .. CeilDiv(IF last < first THEN 0 ELSE last - first + 1, step) |-> first + (k - 1) * step]
Down(first, step) == [k \in 1 .. CeilDiv(first, step) |-> first - (k - 1) * step]
UntilBreak(seq, Breaks(_)) ==
    LET stops == {k \in DOMAIN seq : Breaks(seq[k])} IN
    IF stops = {} THEN seq ELSE SubSeq(seq, 1, Min(stops) - 1)
Skipping(seq, Skips(_)) == Loop(seq, LAMBDA x : IF Skips(x) THEN <<>> ELSE <<x>>)
Ascending(set) == Skipping(Up(1, Max(Gnbs \cup Apps), 1), LAMBDA n : n \notin set)
\* the members of a set in the strict order Before: the n-th has n - 1 before it
Sorted(set, Before(_, _)) ==
    [n \in 1 .. Cardinality(set) |-> CHOOSE k \in set : Cardinality({l \in set : Before(l, k)}) = n - 1]

(* Reachability, delays and utilities.  The rate of a vehicle and a gNB is  *)
(* in bytes per band and TTI; it is 0 where there is no link.               *)
Reached[n \in 0 .. MaxHops] ==
    [g \in Gnbs |-> IF n = 0 THEN {g} ELSE Reached[n - 1][g] \cup UNION {Links[h] : h \in Reached[n - 1][g]}]
HopCount(g, h) == Min({n \in 0 .. MaxHops : h \in Reached[n][g]})
ReachableRsus(g) == Reached[MaxHops][g]
VehAccessRsus(p, a) == {g \in Gnbs : p.rate[UeOf[a]][g] > 0}

OffloadDelay(p, a, g, rb) == Tti * CeilDiv(App[a].size, p.rate[UeOf[a]][g] * rb)
ForwardingDelay(a, off, pro) == App[a].link * HopCount(off, pro)
ExeDelay(s, cu) == Work[s] \div cu
MinRequiredCUs(s, threshold) == CeilDiv(Work[s], threshold)
MinRequiredRBs(p, a, g, threshold) == CeilDiv(App[a].size * Tti, threshold * p.rate[UeOf[a]][g])
EnergyUtility(a, delay) == (App[a].energy - App[a].power * delay) * (Scale \div App[a].period)
AccuracyUtility(a, s) == (Accuracy[s] - App[a].accuracy) * (Scale \div App[a].period)

FairRBs(p, g) == (p.rbs[g] * p.fair[1]) \div p.fair[2]
FairCUs(p, g) == (p.cus[g] * p.fair[1]) \div p.fair[2]
Inst(a, off, pro, rb, cu, s, utility) ==
    [app |-> a, off |-> off, pro |-> pro, rb |-> rb, cu |-> cu, srv |-> s, value |-> utility, gain |-> 0]
IfUseful(inst) == IF inst.value > 0 THEN <<inst>> ELSE <<>>

(* generateScheduleInstances of every class.                                *)
SchemeGreedyInstances(p) ==
    Loop(Ascending(p.apps), LAMBDA a : Loop(Ascending(VehAccessRsus(p, a)), LAMBDA g :
        Loop(UntilBreak(Down(p.cus[g], CuStep),
                        LAMBDA cu : ExeDelay(App[a].service, cu) + Overhead >= App[a].period),
             LAMBDA cu :
                Loop(UntilBreak(Down(p.rbs[g], RbStep),
                                LAMBDA rb : OffloadDelay(p, a, g, rb) + ExeDelay(App[a].service, cu) + Overhead
                                            > App[a].period),
                     LAMBDA rb : IfUseful(Inst(a, g, g, rb, cu, App[a].service,
                                               EnergyUtility(a, OffloadDelay(p, a, g, rb))))))))
SchemeSARoundInstances(p) == SchemeGreedyInstances(p)

SchemeFwdGreedyInstances(p) ==
    Loop(Ascending(p.apps), LAMBDA a : Loop(Ascending(VehAccessRsus(p, a)), LAMBDA off :
        Loop(UntilBreak(Down(FairRBs(p, off), RbStep),
                        LAMBDA rb : OffloadDelay(p, a, off, rb) + Overhead > App[a].period),
             LAMBDA rb :
                LET delay == OffloadDelay(p, a, off, rb) + Overhead IN
                Loop(Skipping(Ascending(ReachableRsus(off)),
                              LAMBDA pro : ForwardingDelay(a, off, pro) + delay > App[a].period),
                     LAMBDA pro :
                        Loop(UntilBreak(Down(FairCUs(p, pro), CuStep),
                                        LAMBDA cu : delay + ForwardingDelay(a, off, pro)
                                                    + ExeDelay(App[a].service, cu) > App[a].period),
                             LAMBDA cu : IfUseful(Inst(a, off, pro, rb, cu, App[a].service,
                                                       EnergyUtility(a, OffloadDelay(p, a, off, rb)))))))))

\* the gNBs that may process what off receives
ProRsus(off, forwards) == IF forwards THEN ReachableRsus(off) ELSE {off}

\* from the smallest number of units that meets the deadline to ResourceSlack more
AccuracyInstances(p, forwards) ==
    Loop(Ascending(p.apps), LAMBDA a : Loop(Ascending(VehAccessRsus(p, a)), LAMBDA off :
        Loop(Ascending(ProRsus(off, forwards)), LAMBDA pro :
            LET Delay(rb) == OffloadDelay(p, a, off, rb) + ForwardingDelay(a, off, pro) + Overhead IN
            Loop(Skipping(Up(1, FairRBs(p, off), RbStep), LAMBDA rb : Delay(rb) >= App[a].period),
                 LAMBDA rb : Loop(Up(1, Len(Work), 1), LAMBDA s :
                    LET minCU == MinRequiredCUs(s, App[a].period - Delay(rb)) IN
                    Loop(Up(minCU, Min({minCU + ResourceSlack, FairCUs(p, pro)}), CuStep),
                         LAMBDA cu : IfUseful(Inst(a, off, pro, rb, cu, s, AccuracyUtility(a, s)))))))))
AccuracyGreedyInstances(p) == AccuracyInstances(p, TRUE)
FastISInstances(p) == AccuracyInstances(p, FALSE)
IDAssignInstances(p) == FastISInstances(p)

\* walk along the dimension with fewer steps, upward or downward, and take the smallest number
\* of the other one; breaks: is the loop left, not continued, at a number that will not do?
OneDimension(p, forwards, downward, breaks) ==
    LET Numbers(max, step) == IF downward THEN Down(max, step) ELSE Up(1, max, step)
        Walk(seq, Fails(_)) == IF breaks THEN UntilBreak(seq, Fails) ELSE Skipping(seq, Fails) IN
    Loop(Ascending(p.apps), LAMBDA a : Loop(Ascending(VehAccessRsus(p, a)), LAMBDA off :
        Loop(Ascending(ProRsus(off, forwards)), LAMBDA pro :
            LET Left(used) == App[a].period - Overhead - ForwardingDelay(a, off, pro) - used
                ByRB ==
                    Loop(Walk(Numbers(FairRBs(p, off), RbStep), LAMBDA rb : Left(OffloadDelay(p, a, off, rb)) <= 0),
                         LAMBDA rb : Loop(Up(1, Len(Work), 1), LAMBDA s :
                            LET minCU == MinRequiredCUs(s, Left(OffloadDelay(p, a, off, rb))) IN
                            IF minCU > FairCUs(p, pro) THEN <<>>
                            ELSE IfUseful(Inst(a, off, pro, rb, minCU, s, AccuracyUtility(a, s)))))
                ByCU ==
                    Loop(Up(1, Len(Work), 1), LAMBDA s :
                        LET MinRB(cu) == MinRequiredRBs(p, a, off, Left(ExeDelay(s, cu))) IN
                        Loop(Walk(Numbers(FairCUs(p, pro), CuStep),
                                  LAMBDA cu : Left(ExeDelay(s, cu)) <= 0 \/ MinRB(cu) > FairRBs(p, off)),
                             LAMBDA cu : IfUseful(Inst(a, off, pro, MinRB(cu), cu, s, AccuracyUtility(a, s)))))
            IN  IF FairRBs(p, off) \div RbStep < FairCUs(p, pro) \div CuStep THEN ByRB ELSE ByCU)))
FastSANFInstances(p) == OneDimension(p, FALSE, FALSE, TRUE)
AccuracySARoundInstances(p) == OneDimension(p, FALSE, FALSE, FALSE)
AccuracyGraphMatchInstances(p) == OneDimension(p, TRUE, TRUE, TRUE)

SchemeIterativeInstances(p) == SchemeGreedyInstances(p)
AccuracyIterativeInstances(p) == FastISInstances(p)
SchemeFwdGraphMatchInstances(p) == SchemeFwdGreedyInstances(p)

GenerateScheduleInstances(s, p) ==
    CASE s \in {"SchemeGreedy", "SchemeGameTheory", "SchemeFastLR"} -> SchemeGreedyInstances(p)
      [] s = "SchemeSARound" -> SchemeSARoundInstances(p)
      [] s \in {"SchemeFwdGreedy", "SchemeFwdGameTheory", "SchemeFwdQuickLR"} -> SchemeFwdGreedyInstances(p)
      [] s \in {"AccuracyGreedy", "AccuracyGameTheory", "AccuracyFastSA", "AccuracyFastSAND"} ->
            AccuracyGreedyInstances(p)
      [] s = "AccuracyFastSANF" -> FastSANFInstances(p)
      [] s = "AccuracyFastIS" -> FastISInstances(p)
      [] s = "AccuracyIDAssign" -> IDAssignInstances(p)
      [] s = "AccuracySARound" -> AccuracySARoundInstances(p)
      [] s = "SchemeIterative" -> SchemeIterativeInstances(p)
      [] s = "AccuracyIterative" -> AccuracyIterativeInstances(p)
      [] s = "SchemeFwdGraphMatch" -> SchemeFwdGraphMatchInstances(p)
      [] s = "AccuracyGraphMatch" -> AccuracyGraphMatchInstances(p)

-----------------------------------------------------------------------------
(* The passes of the local ratio schemes.  An instance is light (L) or      *)
(* heavy (H) in bands and in units; LI and HI: light in both or not.        *)
FastLRPasses == << <<"LL", "HH">> >>
FwdQuickLRPasses == << <<"LL", "HL", "HH">>, <<"LH">> >>
\* mutant: instances that are heavy in both resources are in no pass
FastSAPassesButHH == << <<"LL", "LH">>, <<"HL">> >>
FastSAPasses == << <<"LL", "LH", "HH">>, <<"HL">> >>
FastSANFPasses == FastSAPasses
FastSANDPasses == << <<"LL", "LH", "HL", "HH">> >>
FastISPasses == << <<"LI", "HI">> >>
Passes(s) ==
    CASE s = "SchemeFastLR" -> FastLRPasses
      [] s = "SchemeFwdQuickLR" -> FwdQuickLRPasses
      [] s = "AccuracyFastSA" -> FastSAPasses
      [] s = "AccuracyFastSANF" -> FastSANFPasses
      [] s = "AccuracyFastSAND" -> FastSANDPasses
      [] s = "AccuracyFastIS" -> FastISPasses
      [] OTHER -> << <<"any">> >>

RBsOf(g) == IF scheme \in ByShare THEN FairRBs(problem, g) ELSE problem.rbs[g]
CUsOf(g) == IF scheme \in ByShare THEN FairCUs(problem, g) ELSE problem.cus[g]
Category(i) ==
    LET lightRB == 2 * i.rb <= RBsOf(i.off)
        lightCU == 2 * i.cu <= CUsOf(i.pro) IN
    CASE scheme = "AccuracyFastIS" -> IF lightRB /\ lightCU THEN "LI" ELSE "HI"
      [] scheme = "AccuracyIDAssign" -> "any"
      [] OTHER -> (IF lightRB THEN "L" ELSE "H") \o (IF lightCU THEN "L" ELSE "H")

(* What the candidates have taken: reductPerAppIndex, and reduct..PerRsu..  *)
(* without the part of the same application.                                *)
Taken(By(_)) == MapThenSumSet(LAMBDA k : cands[k].gain, {k \in DOMAIN cands : By(cands[k])})
TakenByApp(i) == Taken(LAMBDA c : c.app = i.app)
TakenAtOff(i) == Taken(LAMBDA c : c.app # i.app /\ c.off = i.off)
TakenAtPro(i) == Taken(LAMBDA c : c.app # i.app /\ c.pro = i.pro)
Factor == IF scheme = "AccuracyIDAssign" THEN 1 ELSE 2

\* the updated utility; the second pass of FwdQuickLR takes the whole of TakenAtPro
Gain(i) ==
    IF scheme \in Rounding THEN i.value - TakenByApp(i)
    ELSE i.value - TakenByApp(i) - (Factor * i.rb * TakenAtOff(i)) \div RBsOf(i.off)
         - IF scheme = "SchemeFwdQuickLR" /\ pass = 2 THEN TakenAtPro(i)
           ELSE (Factor * i.cu * TakenAtPro(i)) \div CUsOf(i.pro)
WithGain(k) == [insts[k] EXCEPT !.gain = Gain(insts[k])]

\* the order of a pass: by category, then as generated; IDAssign sorts by the largest utilization
CategoryIndex(i) == SelectInSeq(Passes(scheme)[pass], LAMBDA c : c = Category(i))
LessUtilized(i, j) ==
    LET Least(n, d) == n * RBsOf(j.off) < j.rb * d \/ n * CUsOf(j.pro) < j.cu * d IN
    Least(i.rb, RBsOf(i.off)) /\ Least(i.cu, CUsOf(i.pro))
Precedes(k, l) ==
    IF scheme = "AccuracyIDAssign" THEN LessUtilized(insts[k], insts[l])
    ELSE \/ CategoryIndex(insts[k]) < CategoryIndex(insts[l])
         \/ CategoryIndex(insts[k]) = CategoryIndex(insts[l]) /\ k < l

(* The selection: by efficiency, by utility (ties in any order), or from the *)
(* last candidate to the first.                                             *)
Pool == IF scheme \in ByEfficiency \cup ByUtility THEN insts ELSE cands
Value(set) == MapThenSumSet(LAMBDA i : i.value, set)
UsedRBs(set, g) == MapThenSumSet(LAMBDA i : i.rb, {i \in set : i.off = g})
UsedCUs(set, g) == MapThenSumSet(LAMBDA i : i.cu, {i \in set : i.pro = g})
\* mutant: the units are looked up at the offloading gNB
FitsAtOff(i) ==
    /\ i.rb + UsedRBs(chosen, i.off) <= problem.rbs[i.off]
    /\ i.cu + UsedCUs(chosen, i.off) <= problem.cus[i.off]
Fits(i) ==
    /\ i.rb + UsedRBs(chosen, i.off) <= problem.rbs[i.off]
    /\ i.cu + UsedCUs(chosen, i.pro) <= problem.cus[i.pro]
Selectable ==
    {k \in DOMAIN Pool : /\ \A i \in chosen : i.app # Pool[k].app
                         /\ scheme \in Rounding \/ Fits(Pool[k])}
MoreEfficient(i, j) ==
    i.value * RBsOf(i.off) * CUsOf(i.pro) * j.rb * j.cu > j.value * RBsOf(j.off) * CUsOf(j.pro) * i.rb * i.cu
\* mutant: the candidates are selected in the order they were pushed
ComesFirstPushed(k, l) ==
    CASE scheme \in ByEfficiency -> MoreEfficient(Pool[k], Pool[l])
      [] scheme \in ByUtility -> Pool[k].value > Pool[l].value
      [] OTHER -> k < l
ComesFirst(k, l) ==
    CASE scheme \in ByEfficiency -> MoreEfficient(Pool[k], Pool[l])
      [] scheme \in ByUtility -> Pool[k].value > Pool[l].value
      [] OTHER -> k > l

-----------------------------------------------------------------------------
Nothing == [apps |-> {}]
Init ==
    /\ problem = Nothing /\ scheme = "" /\ phase = "idle" /\ pass = 0
    /\ insts = <<>> /\ cands = <<>> /\ chosen = {} /\ best = {}

\* AccuracyGraphMatch does not take the default of fairFactor_
Shared(s, p) == IF s = "AccuracyGraphMatch" THEN [p EXCEPT !.fair = <<1, 2>>] ELSE p

(* handleCentralizedScheduling calls generateScheduleInstances, and then    *)
(* scheduleRequests.                                                        *)
Generate(p, s) ==
    /\ phase = "idle" /\ p.apps # {}
    /\ problem' = Shared(s, p) /\ scheme' = s /\ insts' = GenerateScheduleInstances(s, Shared(s, p))
    /\ phase' = CASE s \in ByEfficiency \cup ByUtility -> "select"
                  [] s \in Iterating -> "guess"
                  [] s \in Matching -> "solve"
                  [] OTHER -> "push"
    /\ pass' = 1
    /\ UNCHANGED <<cands, chosen, best>>

(* One instance of the pass becomes a candidate: the next one with an       *)
(* updated utility above 0.  An instance that had none when its turn came   *)
(* gets none later, so those are passed over for good.                      *)
Pushable == {k \in DOMAIN insts : CategoryIndex(insts[k]) > 0 /\ Gain(insts[k]) > 0}
Push ==
    /\ phase = "push" /\ scheme \in LocalRatio
    /\ LET pushable == Pushable IN
       \E k \in pushable :
          /\ \A l \in pushable : ~Precedes(l, k)
          /\ cands' = Append(cands, WithGain(k))
    /\ UNCHANGED <<problem, scheme, phase, pass, insts, chosen, best>>

PushEnds ==
    /\ phase = "push" /\ scheme \in LocalRatio /\ Pushable = {}
    /\ phase' = "select"
    /\ UNCHANGED <<problem, scheme, pass, insts, cands, chosen, best>>

(* SARound: the variables that the linear program of a gNB sets to 1, if    *)
(* they are worth more than the best single instance.  They may be any that *)
(* fit together, none when the solver fails.                                *)
Integral(at) ==
    LET Alone(set, k) == \A l \in set : insts[l].app # insts[k].app
        InLimits(set) == /\ MapThenSumSet(LAMBDA k : insts[k].rb, set) <= problem.rbs[pass]
                         /\ MapThenSumSet(LAMBDA k : insts[k].cu, set) <= problem.cus[pass] IN
    FoldSet(LAMBDA k, sets : sets \cup {set \cup {k} : set \in {t \in sets : Alone(t, k) /\ InLimits(t \cup {k})}},
            {{}}, at)
FloorRounding(at) ==
    LET top == CHOOSE k \in at : \A l \in at :
                  Gain(insts[k]) > Gain(insts[l]) \/ (Gain(insts[k]) = Gain(insts[l]) /\ k <= l)
        Total(set) == MapThenSumSet(LAMBDA k : Gain(insts[k]), set) IN
    IF Cardinality(at) <= 1 THEN {at}
    ELSE {IF Total(set) > Gain(insts[top]) THEN set ELSE {top} : set \in Integral(at)}
Round ==
    /\ phase = "push" /\ scheme \in Rounding /\ pass \in Gnbs
    /\ LET at == {k \in DOMAIN insts : insts[k].off = pass /\ Gain(insts[k]) > 0} IN
       \E candidates \in FloorRounding(at) :
          cands' = cands \o Loop([k \in DOMAIN insts |-> k],
                                 LAMBDA k : IF k \in candidates THEN <<WithGain(k)>> ELSE <<>>)
    /\ pass' = pass + 1
    /\ phase' = IF pass + 1 \in Gnbs THEN "push" ELSE "select"
    /\ UNCHANGED <<problem, scheme, insts, chosen, best>>

(* The next of the sorted or reversed instances whose application is free   *)
(* and which fits.  One that is passed over does not fit later either.      *)
Select ==
    /\ phase = "select"
    /\ LET selectable == Selectable IN
       \E k \in selectable :
          /\ \A l \in selectable : ~ComesFirst(l, k)
          /\ chosen' = chosen \cup {Pool[k]}
    /\ UNCHANGED <<problem, scheme, phase, pass, insts, cands, best>>

(* The first of two passes stays unless the second one is worth more.       *)
PassEnds ==
    /\ phase = "select" /\ Selectable = {}
    /\ best' = IF pass = 1 \/ scheme \in Rounding \/ Value(chosen) > Value(best) THEN chosen ELSE best
    /\ IF scheme \in LocalRatio /\ pass < Len(Passes(scheme))
       THEN phase' = "push" /\ pass' = pass + 1
       ELSE phase' = "done" /\ pass' = pass
    /\ cands' = <<>> /\ chosen' = {}
    /\ UNCHANGED <<problem, scheme, insts>>

(* collectSchedulingResults takes the schedule; initializeData clears the   *)
(* rest before the next period.                                             *)
Collect ==
    /\ phase = "done"
    /\ problem' = Nothing /\ scheme' = "" /\ phase' = "idle" /\ pass' = 0
    /\ insts' = <<>> /\ best' = {}
    /\ UNCHANGED <<cands, chosen>>

Next ==
    \/ \E s \in SchemeNames : \E p \in Problems[s] : Generate(p, s)
    \/ Push \/ PushEnds \/ Round \/ Select \/ PassEnds \/ Collect

Spec == Init /\ [][Next]_vars

-----------------------------------------------------------------------------
(* What the properties compare with: every way to serve an application      *)
(* within its deadline, whatever a scheme generates.                        *)
Utility(i) ==
    IF scheme \in Energy THEN EnergyUtility(i.app, OffloadDelay(problem, i.app, i.off, i.rb))
    ELSE AccuracyUtility(i.app, i.srv)
Reaches(i) ==
    /\ i.off \in VehAccessRsus(problem, i.app)
    /\ IF scheme \in Forwarding THEN i.pro \in ReachableRsus(i.off) ELSE i.pro = i.off
MeetsDeadline(i) ==
    OffloadDelay(problem, i.app, i.off, i.rb) + ForwardingDelay(i.app, i.off, i.pro)
        + ExeDelay(i.srv, i.cu) + Overhead <= App[i.app].period
\* the same for data sent in parts of a TTI, as computeMinRequiredRBs has it
MeetsDeadlineInParts(i) ==
    App[i.app].size * Tti
        <= (App[i.app].period - Overhead - ForwardingDelay(i.app, i.off, i.pro) - ExeDelay(i.srv, i.cu))
           * i.rb * problem.rate[UeOf[i.app]][i.off]
InParts == {"AccuracyFastSANF", "AccuracySARound", "AccuracyGraphMatch"}
Unshared == {"SchemeGreedy", "SchemeGameTheory", "SchemeFastLR", "SchemeSARound", "SchemeIterative"}
Allowed(i) ==
    /\ i.rb <= IF scheme \in Unshared THEN problem.rbs[i.off] ELSE FairRBs(problem, i.off)
    /\ i.cu <= IF scheme \in Unshared THEN problem.cus[i.pro] ELSE FairCUs(problem, i.pro)
    /\ scheme \in Energy => i.srv = App[i.app].service
Servings(a) ==
    {i \in [app : {a}, off : Gnbs, pro : Gnbs, srv : Services,
            rb : 1 .. Max({problem.rbs[g] : g \in Gnbs}), cu : 1 .. Max({problem.cus[g] : g \in Gnbs})] :
        Reaches(i) /\ Allowed(i) /\ MeetsDeadline(i) /\ Utility(i) > 0}

(* A schedule serves no application twice, takes no more bands and units    *)
(* than the gNBs have left after what it is given, uses links and paths     *)
(* that exist, and every application meets its deadline with the utility    *)
(* that is reported.                                                        *)
ScheduleIsFeasible ==
    phase = "done" =>
        /\ \A i, j \in best : i.app = j.app => i = j
        /\ \A g \in Gnbs : UsedRBs(best, g) <= problem.rbs[g] /\ UsedCUs(best, g) <= problem.cus[g]
        /\ \A i \in best :
              /\ i.app \in problem.apps /\ Reaches(i)
              /\ IF scheme \in InParts THEN MeetsDeadlineInParts(i) ELSE MeetsDeadline(i)
              /\ i.value = Utility(i) /\ i.value > 0

(* What a local ratio rests on: the schedule of a pass is worth all that    *)
(* its candidates added (half of it for IDAssign, whose factor is 1), so no *)
(* candidate that could not be selected is lost without a better one.       *)
(* FastSAND, with all four categories in one pass, does not promise it.     *)
GainsAreEarned ==
    /\ (phase = "select" /\ scheme \in (LocalRatio \cup Rounding) \ {"AccuracyFastSAND"} /\ Selectable = {})
          => Taken(LAMBDA c : TRUE) <= (IF scheme = "AccuracyIDAssign" THEN 2 ELSE 1) * Value(chosen)
    /\ (phase = "push" /\ scheme \in LocalRatio) => \A k \in DOMAIN insts :    \* nothing is rounded
          /\ (Factor * insts[k].rb * TakenAtOff(insts[k])) % RBsOf(insts[k].off) = 0
          /\ (Factor * insts[k].cu * TakenAtPro(insts[k])) % CUsOf(insts[k].pro) = 0

(* The schedules that serve applications in a way no other one dominates.   *)
Dominates(i, j) ==
    i.off = j.off /\ i.pro = j.pro /\ i.rb <= j.rb /\ i.cu <= j.cu /\ Utility(i) >= Utility(j)
Undominated(set) == {i \in set : \A j \in set : Dominates(j, i) => Dominates(i, j)}
Schedules ==
    FoldSet(LAMBDA a, schedules :
                schedules \cup
                    {t \in {t \cup {i} : t \in schedules, i \in Undominated(Servings(a))} :
                        \A g \in Gnbs : UsedRBs(t, g) <= problem.rbs[g] /\ UsedCUs(t, g) <= problem.cus[g]},
            {{}}, problem.apps)
Worth(t) == MapThenSumSet(LAMBDA i : Utility(i), t)

(* The schemes called approximations are: no schedule is worth more than    *)
(* ApproximationRatio times the one they return.  And a scheme serves an    *)
(* application whenever one can be served, but for FastSANF, whose loop     *)
(* over the units ends at the first number that is too small, and           *)
(* GraphMatch, which takes nothing when every edge of its graph is a        *)
(* neighbour of every other.                                                *)
Approximations == {"SchemeFwdQuickLR", "AccuracyFastSA", "AccuracyFastIS", "AccuracyIDAssign"}
ApproximationRatio == 10
NearOptimal ==
    phase = "done" =>
        /\ scheme \in Approximations =>
              \A t \in Schedules : Worth(t) <= ApproximationRatio * Value(best)
        /\ scheme \notin Matching \cup {"AccuracyFastSANF"} /\ best = {} =>
              \A a \in problem.apps : Servings(a) = {}

=============================================================================
