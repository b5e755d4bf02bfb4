--------------------------- MODULE SearchSchemes ----------------------------
(***************************************************************************)
(* The centralized schemes that search for a schedule in steps.            *)
(*                                                                         *)
(* Iterative: from a random gNB and a random amount of resources for every *)
(* application, allocate resources at the gNBs, then choose gNBs for the   *)
(* amounts, and so on while the schedule gets better.                      *)
(*                                                                         *)
(* GraphMatch: solve a linear program, split every gNB into as many nodes  *)
(* as its fractions add up to, and match applications, offloading nodes    *)
(* and processing nodes with a second program and a fractional local ratio.*)
(* Fractions are multiples of 1/Grain, and sorts of few elements stable.   *)
(***************************************************************************)
EXTENDS Schemes

CONSTANTS
    MaxIter,    \* maxIter_: the rounds of Iterative
    Grain       \* the solution of a linear program is in units of 1/Grain

ASSUME SearchAssumption == MaxIter \in Nat \ {0} /\ Grain = 2

VARIABLES
    mapping,    \* appMapping_: the gNB of an application, NoGnb for -1
    amount,     \* appRb_, appCu_: its bands and units
    served,     \* prevAppInst: the applications that the last allocation served
    share,      \* lpSolution, tgmSolution: the positive variables, in units of 1/Grain
    edges,      \* the hyperedges: an instance, the rank of its two nodes
    left,       \* edgeIdxSet: the edges that are not in the order yet
    weight,     \* posiEdgeWeight
    picked      \* selectedEdgeIdx: the edges of the matching, in the order they are selected

iterVars == <<mapping, amount, served>>
matchVars == <<share, edges, left, weight, picked>>
searchVars == <<vars, iterVars, matchVars>>

IterInit == mapping = [a \in Apps |-> NoGnb] /\ amount = [a \in Apps |-> <<0, 0>>] /\ served = {}
MatchInit == share = <<>> /\ edges = <<>> /\ left = {} /\ weight = <<>> /\ picked = <<>>
SearchInit == Init /\ IterInit /\ MatchInit

-----------------------------------------------------------------------------
(* Iterative.                                                              *)

Amount(i) == <<i.rb, i.cu>>
Distance(m, n) == IF m < n THEN n - m ELSE m - n
FarFrom(i) == Distance(i.rb, amount[i.app][1]) + Distance(i.cu, amount[i.app][2])
Better(keys1, keys2) ==    \* of two tuples of keys, smaller is better, the first key counts most
    \E n \in DOMAIN keys1 : keys1[n] < keys2[n] /\ \A m \in 1 .. n - 1 : keys1[m] = keys2[m]

\* an application without an instance keeps no gNB and no resources
Guess ==
    /\ phase = "guess"
    /\ LET able == {insts[k].app : k \in DOMAIN insts} IN
       \E guess \in {f \in [able -> DOMAIN insts] : \A a \in able : insts[f[a]].app = a} :
          /\ mapping' = [a \in Apps |-> IF a \in able THEN insts[guess[a]].off ELSE NoGnb]
          /\ amount' = [a \in Apps |-> IF a \in able THEN Amount(insts[guess[a]]) ELSE <<0, 0>>]
    /\ phase' = "allocate"
    /\ UNCHANGED <<problem, scheme, pass, insts, cands, chosen, best, served, matchVars>>

(* decideResourceAllocation: of the instances at the gNB an application is  *)
(* mapped to, the most valuable ones that fit.                              *)
AllocationKeys(i) == IF scheme = "SchemeIterative" THEN <<-i.value>> ELSE <<-i.value, i.rb + i.cu, i.cu, i.rb>>
Free(k) == Fits(insts[k]) /\ \A i \in chosen : i.app # insts[k].app
Allocatable == {k \in DOMAIN insts : insts[k].off = mapping[insts[k].app] /\ Free(k)}
DecideResourceAllocation ==
    /\ phase \in {"allocate", "reallocate"}
    /\ \E k \in Allocatable :
          /\ \A l \in Allocatable : ~Better(AllocationKeys(insts[l]), AllocationKeys(insts[k]))
          /\ chosen' = chosen \cup {insts[k]}
          /\ amount' = [amount EXCEPT ![insts[k].app] = Amount(insts[k])]
    /\ UNCHANGED <<problem, scheme, phase, pass, insts, cands, best, mapping, served, matchVars>>

(* decideMapping: of the instances that take what the application has now,  *)
(* at any gNB, the most valuable ones that fit.  AccuracyIterative also     *)
(* takes those that are near, and anything for an application that the last *)
(* allocation left out; with no candidate at all it would consider every    *)
(* instance, but there is none then.                                        *)
MatchesAmount(i) == Amount(i) = amount[i.app]
NearAmount(i) ==
    \/ i.app \notin served
    \/ /\ Distance(i.rb, amount[i.app][1]) <= 2 * RbStep
       /\ Distance(i.cu, amount[i.app][2]) <= 2 * CuStep
MappingKeys(i) == IF scheme = "SchemeIterative" THEN <<-i.value>> ELSE <<-i.value, FarFrom(i), i.rb + i.cu, i.off>>
Mappable ==
    {k \in DOMAIN insts : /\ IF scheme = "SchemeIterative" THEN MatchesAmount(insts[k]) ELSE NearAmount(insts[k])
                          /\ Free(k)}
DecideMapping ==
    /\ phase = "remap"
    /\ \E k \in Mappable :
          /\ \A l \in Mappable : ~Better(MappingKeys(insts[l]), MappingKeys(insts[k]))
          /\ chosen' = chosen \cup {insts[k]}
          /\ mapping' = [mapping EXCEPT ![insts[k].app] = insts[k].off]
          /\ amount' = IF scheme = "SchemeIterative" THEN amount
                       ELSE [amount EXCEPT ![insts[k].app] = Amount(insts[k])]
    /\ UNCHANGED <<problem, scheme, phase, pass, insts, cands, best, served, matchVars>>

(* SchemeIterative keeps the result of either step and goes on while it is  *)
(* worth more; after MaxIter rounds of two steps it stops in any case.      *)
StepEnds ==
    /\ scheme = "SchemeIterative"
    /\ (phase = "allocate" /\ Allocatable = {}) \/ (phase = "remap" /\ Mappable = {})
    /\ IF Value(chosen) > Value(best)
       THEN /\ best' = chosen
            /\ CASE phase = "allocate" -> phase' = "remap" /\ pass' = pass
                 [] pass < MaxIter -> phase' = "allocate" /\ pass' = pass + 1
                 [] OTHER -> phase' = "conclude" /\ pass' = pass
       ELSE phase' = "conclude" /\ UNCHANGED <<pass, best>>
    /\ chosen' = {}
    /\ UNCHANGED <<problem, scheme, insts, cands, iterVars, matchVars>>

(* AccuracyIterative allocates, maps and allocates again, and goes on while *)
(* the result is worth more, or as much but another one.                    *)
NextStep ==
    /\ scheme = "AccuracyIterative"
    /\ \/ phase = "allocate" /\ Allocatable = {} /\ phase' = "remap" /\ served' = {i.app : i \in chosen}
       \/ phase = "remap" /\ Mappable = {} /\ phase' = "reallocate" /\ served' = {}
    /\ chosen' = {}
    /\ UNCHANGED <<problem, scheme, pass, insts, cands, best, mapping, amount, matchVars>>
Accepted == Value(chosen) > Value(best) \/ (Value(chosen) = Value(best) /\ chosen # best)
RoundEnds ==
    /\ phase = "reallocate" /\ Allocatable = {}
    /\ IF Accepted
       THEN /\ best' = chosen
            /\ IF pass < MaxIter THEN phase' = "allocate" /\ pass' = pass + 1
               ELSE phase' = "conclude" /\ pass' = pass
       ELSE phase' = "conclude" /\ UNCHANGED <<pass, best>>
    /\ chosen' = {}
    /\ UNCHANGED <<problem, scheme, insts, cands, iterVars, matchVars>>

(* The schedule in the order of the applications, as far as it fits.        *)
AsFarAsItFits(seq) ==
    FoldLeft(LAMBDA set, i :
        IF /\ \A j \in set : j.app # i.app
           /\ UsedRBs(set, i.off) + i.rb <= problem.rbs[i.off]
           /\ UsedCUs(set, i.pro) + i.cu <= problem.cus[i.pro]
        THEN set \cup {i} ELSE set, {}, seq)
Conclude ==
    /\ phase = "conclude"
    /\ best' = AsFarAsItFits(Sorted(best, LAMBDA i, j : i.app < j.app))
    /\ phase' = "done"
    /\ mapping' = [a \in Apps |-> NoGnb] /\ amount' = [a \in Apps |-> <<0, 0>>] /\ served' = {}
    /\ UNCHANGED <<problem, scheme, pass, insts, cands, chosen, matchVars>>

-----------------------------------------------------------------------------
(* GraphMatch.  The optima of a linear program with one constraint for each *)
(* application and those of Within; the solver may also fail.               *)

Portions(set) ==
    {<<>>} \cup {[m \in {k} |-> s] : k \in set, s \in 1 .. Grain}
           \cup {[m \in pair |-> 1] : pair \in {{k, l} : k, l \in set}}
Joined(x, y) == [k \in DOMAIN x \cup DOMAIN y |-> IF k \in DOMAIN x THEN x[k] ELSE y[k]]
Total(x, Of(_)) == MapThenSumSet(LAMBDA k : x[k] * Of(k), DOMAIN x)
Optima(items, AppOf(_), ValueOf(_), Within(_)) ==
    LET solutions == FoldSet(LAMBDA a, set :
                        {x \in {Joined(x, y) : x \in set, y \in Portions({k \in items : AppOf(k) = a})} : Within(x)},
                        {<<>>}, {AppOf(k) : k \in items})
        optimum == Max({Total(x, ValueOf) : x \in solutions}) IN
    {x \in solutions : Total(x, ValueOf) = optimum}
Failed == <<>>

\* the part of a gNB that the fractions may take: what an instance may not take alone
LimitRBs(g) == problem.rbs[g] - FairRBs(problem, g)
LimitCUs(g) == problem.cus[g] - FairCUs(problem, g)
WithinLimits(x) ==
    \A g \in Gnbs :
        /\ Total(x, LAMBDA k : IF insts[k].off = g THEN insts[k].rb ELSE 0) <= Grain * LimitRBs(g)
        /\ Total(x, LAMBDA k : IF insts[k].pro = g THEN insts[k].cu ELSE 0) <= Grain * LimitCUs(g)
AppOfInst(k) == insts[k].app
WeightOfInst(k) == insts[k].value
LPSolutions == Optima(DOMAIN insts, AppOfInst, WeightOfInst, WithinLimits)
SolvingLP ==
    /\ phase = "solve"
    /\ share' \in LPSolutions \cup {Failed}
    /\ phase' = "graph"
    /\ UNCHANGED <<problem, scheme, pass, insts, cands, chosen, best, iterVars, edges, left, weight, picked>>

(* constructBipartiteGraph: the instances of a gNB in the order of their    *)
(* demand; fracSum is an int, so only a whole instance begins a new node.   *)
Precedence(k, l, Demand(_)) == Demand(k) > Demand(l) \/ (Demand(k) = Demand(l) /\ k < l)
\* mutant: every instance begins a new node
EveryRank(k) ==
    Cardinality({l \in DOMAIN share : /\ insts[l].off = insts[k].off
                                      /\ Precedence(l, k, LAMBDA n : insts[n].rb)})
OffRank(k) ==
    Cardinality({l \in DOMAIN share : /\ insts[l].off = insts[k].off /\ share[l] = Grain
                                      /\ Precedence(l, k, LAMBDA n : insts[n].rb)})
ProRank(k) ==
    Cardinality({l \in DOMAIN share : /\ insts[l].pro = insts[k].pro /\ share[l] = Grain
                                      /\ Precedence(l, k, LAMBDA n : insts[n].cu)})
(* mergeBipartiteGraphs: one hyperedge for an application and two nodes,    *)
(* that of the most valuable instance.                                      *)
Edge(k) == [inst |-> k, offRank |-> OffRank(k), proRank |-> ProRank(k)]
OffNode(e) == <<insts[e.inst].off, e.offRank>>
ProNode(e) == <<insts[e.inst].pro, e.proRank>>
SameEdge(e, f) ==
    insts[e.inst].app = insts[f.inst].app /\ OffNode(e) = OffNode(f) /\ ProNode(e) = ProNode(f)
MergeBipartiteGraphs ==
    LET sorted == Sorted(DOMAIN share, LAMBDA k, l : Precedence(k, l, LAMBDA n : insts[n].value)) IN
    FoldLeft(LAMBDA seq, k : IF \E n \in DOMAIN seq : SameEdge(seq[n], Edge(k)) THEN seq ELSE Append(seq, Edge(k)),
             <<>>, sorted)
ConstructGraph ==
    /\ phase = "graph"
    /\ edges' = MergeBipartiteGraphs
    /\ phase' = "match"
    /\ UNCHANGED <<problem, scheme, pass, insts, cands, chosen, best, iterVars, share, left, weight, picked>>

AppOfEdge(n) == insts[edges[n].inst].app
WeightOfEdge(n) == insts[edges[n].inst].value
AtMostOnePerNode(x) ==
    \A n \in DOMAIN x :
        /\ Total(x, LAMBDA m : IF OffNode(edges[m]) = OffNode(edges[n]) THEN 1 ELSE 0) <= Grain
        /\ Total(x, LAMBDA m : IF ProNode(edges[m]) = ProNode(edges[n]) THEN 1 ELSE 0) <= Grain
SolvingRelaxedTripartiteGraphMatching ==
    /\ phase = "match"
    /\ share' \in Optima(DOMAIN edges, AppOfEdge, WeightOfEdge, AtMostOnePerNode) \cup {Failed}
    /\ left' = DOMAIN share' /\ weight' = [n \in DOMAIN share' |-> WeightOfEdge(n)]
    /\ phase' = "reduce"
    /\ UNCHANGED <<problem, scheme, pass, insts, cands, chosen, best, iterVars, edges, picked>>

(* fractionalLocalRatioMethod takes the edges in the order of what their    *)
(* remaining neighbours add up to, if that is less than the total, and lets *)
(* those with a weight left reduce the weight of their neighbours.  It does *)
(* so in a second loop, which does not change the order.                    *)
Neighbors(n) ==
    {m \in DOMAIN share : \/ AppOfEdge(m) = AppOfEdge(n)
                          \/ OffNode(edges[m]) = OffNode(edges[n])
                          \/ ProNode(edges[m]) = ProNode(edges[n])}
FracSum(n) == MapThenSumSet(LAMBDA m : share[m], Neighbors(n) \cap left)
TotalFrac == MapThenSumSet(LAMBDA m : share[m], DOMAIN share)
\* an edge is its own neighbour: its weight is 0 when the loop comes to those with a larger index
Reduced(n) == [m \in DOMAIN weight |-> IF m \in Neighbors(n) /\ m <= n THEN weight[m] - weight[n] ELSE weight[m]]
FractionalLocalRatio ==
    /\ phase = "reduce"
    /\ \E n \in left :
          /\ FracSum(n) < TotalFrac
          /\ \A m \in left : FracSum(n) < FracSum(m) \/ (FracSum(n) = FracSum(m) /\ n <= m)
          /\ left' = left \ {n}
          /\ IF weight[n] > 0 THEN cands' = Append(cands, n) /\ weight' = Reduced(n)
             ELSE UNCHANGED <<cands, weight>>
    /\ UNCHANGED <<problem, scheme, phase, pass, insts, chosen, best, iterVars, share, edges, picked>>
\* when there is none, the list is filled with the index -1
ReduceEnds ==
    /\ phase = "reduce" /\ \A n \in left : FracSum(n) >= TotalFrac
    /\ phase' = IF cands = <<>> THEN "place" ELSE "unstack"
    /\ UNCHANGED <<problem, scheme, pass, insts, cands, chosen, best, iterVars, matchVars>>

\* from the last candidate to the first, those whose nodes are not used
Unstack ==
    /\ phase = "unstack"
    /\ LET n == Last(cands) IN
       picked' = IF Neighbors(n) \cap Range(picked) = {} THEN Append(picked, n) ELSE picked
    /\ cands' = Front(cands)
    /\ phase' = IF cands' = <<>> THEN "place" ELSE phase
    /\ UNCHANGED <<problem, scheme, pass, insts, chosen, best, iterVars, share, edges, left, weight>>

\* the matching, as far as it fits, if it leaves time to offload
InstOf(n) == insts[edges[n].inst]
LeavesTime(i) == App[i.app].period - ExeDelay(i.srv, i.cu) - ForwardingDelay(i.app, i.off, i.pro) - Overhead > 0
Place ==
    /\ phase = "place"
    /\ best' = AsFarAsItFits(Skipping([k \in DOMAIN picked |-> InstOf(picked[k])], LAMBDA i : ~LeavesTime(i)))
    /\ phase' = "done"
    /\ share' = <<>> /\ edges' = <<>> /\ left' = {} /\ weight' = <<>> /\ picked' = <<>>
    /\ UNCHANGED <<problem, scheme, pass, insts, cands, chosen, iterVars>>

-----------------------------------------------------------------------------
SearchNext ==
    \/ Next /\ UNCHANGED <<iterVars, matchVars>>
    \/ Guess \/ DecideResourceAllocation \/ DecideMapping \/ StepEnds \/ NextStep \/ RoundEnds \/ Conclude
    \/ SolvingLP \/ ConstructGraph \/ SolvingRelaxedTripartiteGraphMatching
    \/ FractionalLocalRatio \/ ReduceEnds \/ Unstack \/ Place

SearchSpec == SearchInit /\ [][SearchNext]_searchVars

-----------------------------------------------------------------------------
(* The last check of the resources rejects nothing of what the search or    *)
(* the matching has found.  For the matching that is the argument of the    *)
(* rounding: the nodes of a gNB take no more together than LimitRBs and     *)
(* LimitCUs, and one instance more.  It rests on the nodes too: no rank is  *)
(* beyond those that are made for the sum of the fractions, where the map   *)
(* of the code would answer with the first node of the first gNB.           *)
RoundingFits ==
    /\ phase = "place" =>
          LET matched == {InstOf(n) : n \in Range(picked)} IN
          /\ Cardinality({i.app : i \in matched}) = Len(picked)
          /\ \A g \in Gnbs : UsedRBs(matched, g) <= problem.rbs[g] /\ UsedCUs(matched, g) <= problem.cus[g]
    /\ phase = "conclude" =>
          \A g \in Gnbs : UsedRBs(best, g) <= problem.rbs[g] /\ UsedCUs(best, g) <= problem.cus[g]
    /\ phase = "graph" => \A k \in DOMAIN share :
          /\ Grain * OffRank(k) < Total(share, LAMBDA l : IF insts[l].off = insts[k].off THEN 1 ELSE 0)
          /\ Grain * ProRank(k) < Total(share, LAMBDA l : IF insts[l].pro = insts[k].pro THEN 1 ELSE 0)

=============================================================================
