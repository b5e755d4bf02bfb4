---------------------------- MODULE DistScheduling ----------------------------
(***************************************************************************)
(* Distributed scheduling (Scheduler with enableDistScheme_, the scheme    *)
(* AccuracyDistIS, and the tokens of UePhy).                               *)
(*                                                                         *)
(* Every gNB schedules for itself.  Before a period a vehicle numbers the  *)
(* gNBs it can reach (its preference values) and tells each its number;    *)
(* in the period one token per application visits them, four times: upward *)
(* through the numbers to select candidates that are light ("LI"), then    *)
(* heavy ("HI"), and downward to select solutions among the heavy, then    *)
(* the light ones.  A gNB works on one number after the other and waits    *)
(* for all tokens of the number.                                           *)
(*                                                                         *)
(* All gNBs start at NEXT_SCHEDULING_TIME, at least 20 ms after the last   *)
(* preference value was sent (a frame takes 125 us), and a round of tokens *)
(* takes milliseconds of a period of seconds: it is over when the vehicles *)
(* prepare the next.                                                       *)
(***************************************************************************)
EXTENDS MecTypes, FiniteSets, FiniteSetsExt, SequencesExt

CONSTANTS
    Bands,     \* the bands of a gNB that are free for the round
    Units,     \* its free computing units
    Menus      \* Menus[a]: the sequences of service instances a gNB may generate for a

Categories == {"LI", "HI"}
Inst == [rb : 1 .. Bands, cu : 1 .. Units, value : Nat \ {0}]

\* twice rb / Bands + cu / Units, in parts of Whole
Whole == Bands * Units
Weight(inst) == 2 * (inst.rb * Units + inst.cu * Bands)

\* the others' utilities times the weight; utilities are integers, and this is rounded up
Penalty(inst, others) == (Weight(inst) * others + Whole - 1) \div Whole

ASSUME DistSchedulingAssumption ==
    /\ IsFiniteSet(Gnbs)
    /\ Bands \in Nat \ {0} /\ Units \in Nat \ {0}
    /\ Menus \in [Apps -> SUBSET Seq(Inst)]

VARIABLES
    distTokens,    \* the applications that have asked for service, at their vehicles
    period,        \* do the vehicles prepare the period, or is it scheduled?
    pv2Rsu,        \* pv2Rsu[u]: the gNBs u reaches, by preference value
    distReady,     \* the vehicles whose tokens have returned
    air,           \* the tokens between vehicles and gNBs
    sched          \* sched[g]: the scheduler of gNB g, with its scheme

vars == <<distTokens, period, pv2Rsu, distReady, air, sched>>

Category(inst) == IF 2 * inst.rb <= Bands /\ 2 * inst.cu <= Units THEN "LI" ELSE "HI"

AppsOf(u) == {a \in distTokens : UeOf[a] = u}
PVs == 1 .. Cardinality(Gnbs)
InitialToken(a) ==
    [app |-> a, utilReduction |-> 0, pv |-> 1, category |-> "LI", stage |-> "CandiSel",
     isScheduled |-> FALSE]

\* pvCounter: how many applications announced a number; pv2Tokens: the tokens that wait;
\* batchOngoing: no new batch starts; postBatch, instGenTimer: the timers that are set;
\* insts: the instances generated; maxRB, maxCU: what is left; reductionRsu,
\* reductAppInRsu: what the candidates add; out: the tokens a handler sends
InitialSched ==
    [pvCounter |-> [p \in PVs |-> 0], pendingApps |-> {}, pv2Tokens |-> {},
     distStage |-> "CandiSel", targetPV |-> 1, targetCategory |-> "LI",
     started |-> FALSE, batchOngoing |-> FALSE, instGenTimer |-> FALSE, postBatch |-> FALSE,
     insts |-> [a \in Apps |-> <<>>], maxRB |-> 0, maxCU |-> 0,
     reductionRsu |-> 0, reductAppInRsu |-> [a \in Apps |-> 0],
     candidateInsts |-> <<>>, finalSchedule |-> {}, vecSchedule |-> {}, out |-> {}]

Init ==
    /\ distTokens = {}
    /\ period = "prepare"
    /\ pv2Rsu = [u \in Ues |-> <<>>]
    /\ distReady = Ues
    /\ air = {}
    /\ sched = [g \in Gnbs |-> InitialSched]

-----------------------------------------------------------------------------
(* The scheme.                                                             *)
TokenOf(s, a) == CHOOSE t \in s.pv2Tokens : t.app = a

ChangeToken(s, a, t) == [s EXCEPT !.pv2Tokens = (@ \ {TokenOf(s, a)}) \cup {t}]

\* mutant: the reduction that the token brings from other gNBs is not used
ConsiderMut(s, a, k) ==
    LET inst    == s.insts[a][k]
        others  == s.reductionRsu - s.reductAppInRsu[a]
        utility == inst.value - s.reductAppInRsu[a] - Penalty(inst, others)
    IN  IF Category(inst) # s.targetCategory \/ utility <= 0 THEN s
        ELSE [s EXCEPT !.candidateInsts = Append(@, [app |-> a, inst |-> inst]),
                       !.reductionRsu = @ + utility,
                       !.reductAppInRsu[a] = @ + utility]

\* the k-th instance of a is pushed if it adds to what was pushed before it
Consider(s, a, k) ==
    LET inst    == s.insts[a][k]
        token   == TokenOf(s, a)
        others  == s.reductionRsu - s.reductAppInRsu[a]
        utility == inst.value - token.utilReduction - Penalty(inst, others)
    IN  IF Category(inst) # s.targetCategory \/ utility <= 0 THEN s
        ELSE [ChangeToken(s, a, [token EXCEPT !.utilReduction = @ + utility]) EXCEPT
                !.candidateInsts = Append(@, [app |-> a, inst |-> inst]),
                !.reductionRsu = @ + utility,
                !.reductAppInRsu[a] = @ + utility]

\* updatedUtilityMap has no entry for an application without instances
SelectCandidatesOf(s, a) ==
    IF s.insts[a] = <<>>
    THEN ChangeToken(s, a, [TokenOf(s, a) EXCEPT !.utilReduction = 0])
    ELSE FoldLeft(LAMBDA t, k : Consider(t, a, k), s, [k \in DOMAIN s.insts[a] |-> k])

\* the applications of the batch in the order of a std::map
CandidateSelection(s, apps) ==
    LET after[a \in 0 .. NumApps] ==
            IF a = 0 THEN s
            ELSE IF a \in apps THEN SelectCandidatesOf(after[a - 1], a) ELSE after[a - 1]
    IN  after[NumApps]

\* mutant: the token is not asked whether another gNB has taken the application
SelectMutScheduled(s, c) ==
    IF c.inst.rb > s.maxRB \/ c.inst.cu > s.maxCU THEN s
    ELSE [s EXCEPT !.finalSchedule = @ \cup {[app |-> c.app, inst |-> c.inst]},
                   !.maxRB = @ - c.inst.rb, !.maxCU = @ - c.inst.cu]

Select(s, c) ==
    LET token == TokenOf(s, c.app)
    IN  IF token.isScheduled \/ c.inst.rb > s.maxRB \/ c.inst.cu > s.maxCU THEN s
        ELSE [ChangeToken(s, c.app, [token EXCEPT !.isScheduled = TRUE]) EXCEPT
                !.finalSchedule = @ \cup {[app |-> c.app, inst |-> c.inst]},
                !.maxRB = @ - c.inst.rb, !.maxCU = @ - c.inst.cu]

\* mutant: a candidate that is not taken stays in the vector
SolutionSelectionMut(s, apps) ==
    LET taken == FoldRight(LAMBDA c, t : Select(t, c), s.candidateInsts, s)
        IsLeft(c) == c \notin taken.finalSchedule
    IN  [taken EXCEPT !.candidateInsts = SelectSeq(@, IsLeft)]

\* the candidates of the batch are at the end of the vector, and leave it from there
SolutionSelection(s, apps) ==
    LET others == {k \in DOMAIN s.candidateInsts :
                      LET c == s.candidateInsts[k]
                      IN  Category(c.inst) # s.targetCategory \/ c.app \notin apps}
        keep   == IF others = {} THEN 0 ELSE Max(others)
        batch  == SubSeq(s.candidateInsts, keep + 1, Len(s.candidateInsts))
    IN  FoldRight(LAMBDA c, t : Select(t, c), batch,
                  [s EXCEPT !.candidateInsts = SubSeq(@, 1, keep)])

-----------------------------------------------------------------------------
(* The scheduler.                                                          *)
Announced(s) == {p \in PVs : s.pvCounter[p] > 0}
PvMin(s) == Min(Announced(s))
PvMax(s) == Max(Announced(s))

RecordPreference(s, apps, pv) ==
    [s EXCEPT !.pvCounter[pv] = @ + Cardinality(apps), !.pendingApps = @ \cup apps]

Batch(s) ==
    {t \in s.pv2Tokens : /\ t.stage = s.distStage
                         /\ t.category = s.targetCategory
                         /\ t.pv = s.targetPV}

PerformBatchScheduling(s) ==
    LET apps == {t.app : t \in Batch(s)}
        done == IF s.distStage = "CandiSel" THEN CandidateSelection(s, apps)
                ELSE SolutionSelection(s, apps)
    IN  [done EXCEPT !.batchOngoing = TRUE, !.postBatch = TRUE]

TryBatch(s) ==
    IF s.started /\ ~s.batchOngoing /\ Cardinality(Batch(s)) = s.pvCounter[s.targetPV]
    THEN PerformBatchScheduling(s) ELSE s

\* menu: what generateScheduleInstances finds for each application
HandleDistributedScheduling(s, menu) ==
    IF s.pendingApps = {} THEN [s EXCEPT !.vecSchedule = {}]
    ELSE [s EXCEPT !.distStage = "CandiSel", !.targetPV = PvMin(s), !.targetCategory = "LI",
                   !.started = TRUE, !.batchOngoing = TRUE, !.instGenTimer = TRUE,
                   !.insts = [a \in Apps |-> IF a \in s.pendingApps THEN menu[a] ELSE <<>>],
                   !.maxRB = Bands, !.maxCU = Units,
                   !.reductionRsu = 0, !.reductAppInRsu = [a \in Apps |-> 0],
                   !.candidateInsts = <<>>, !.finalSchedule = {}]

HandleInstGenTimer(s) ==
    TryBatch([s EXCEPT !.instGenTimer = FALSE, !.batchOngoing = FALSE])

RecordDistToken(s, t) == TryBatch([s EXCEPT !.pv2Tokens = @ \cup {t}])

\* the next of the numbers the vehicles announced
NextTarget(s) ==
    LET above == {p \in Announced(s) : p > s.targetPV}
        below == {p \in Announced(s) : p < s.targetPV}
    IN  IF s.distStage = "CandiSel" THEN
            CASE above # {}               -> [s EXCEPT !.targetPV = Min(above)]
              [] above = {} /\ s.targetCategory = "LI"
                                          -> [s EXCEPT !.targetPV = PvMin(s), !.targetCategory = "HI"]
              [] OTHER                    -> [s EXCEPT !.distStage = "SolSel"]
        ELSE IF below # {} THEN [s EXCEPT !.targetPV = Max(below)]
        ELSE [s EXCEPT !.targetPV = PvMax(s), !.targetCategory = "LI"]

\* the vector of candidates and the reductions stay until the next period
FinishRound(s) ==
    [s EXCEPT !.vecSchedule = s.finalSchedule, !.pv2Tokens = {},
              !.pvCounter = [p \in PVs |-> 0], !.pendingApps = {}, !.targetPV = 1,
              !.targetCategory = "LI", !.started = FALSE, !.batchOngoing = FALSE]

\* mutant: a batch whose tokens came during the last one is not started
PostBatchSchedulingMut(s) ==
    LET sent == [s EXCEPT !.postBatch = FALSE, !.out = Batch(s), !.pv2Tokens = @ \ Batch(s)]
    IN  IF s.distStage = "SolSel" /\ s.targetPV = PvMin(s) /\ s.targetCategory = "LI"
        THEN FinishRound(sent)
        ELSE [NextTarget(sent) EXCEPT !.batchOngoing = FALSE]

PostBatchScheduling(s) ==
    LET sent == [s EXCEPT !.postBatch = FALSE, !.out = Batch(s), !.pv2Tokens = @ \ Batch(s)]
    IN  IF s.distStage = "SolSel" /\ s.targetPV = PvMin(s) /\ s.targetCategory = "LI"
        THEN FinishRound(sent)
        ELSE TryBatch([NextTarget(sent) EXCEPT !.batchOngoing = FALSE])

-----------------------------------------------------------------------------
(* The tokens of a vehicle.  pvMax: how many gNBs it reaches.              *)
NextVisit(t, pvMax) ==
    IF t.stage = "CandiSel" THEN
        CASE t.pv < pvMax                        -> [t EXCEPT !.pv = @ + 1]
          [] t.pv = pvMax /\ t.category = "LI"   -> [t EXCEPT !.pv = 1, !.category = "HI"]
          [] OTHER                               -> [t EXCEPT !.stage = "SolSel"]
    ELSE IF t.pv > 1 THEN [t EXCEPT !.pv = @ - 1]
    ELSE [t EXCEPT !.pv = pvMax, !.category = "LI"]

IsLastVisit(t) == t.stage = "SolSel" /\ t.pv = 1 /\ t.category = "LI"

-----------------------------------------------------------------------------
Orders == {o \in UNION {[1 .. n -> Gnbs] : n \in PVs} : IsInjective(o)}

\* createTokenForApp, as the request passes the PHY; later, it waits for the next period
StartApp(a) ==
    /\ period = "prepare" /\ a \notin distTokens
    /\ distTokens' = distTokens \cup {a}
    /\ UNCHANGED <<period, pv2Rsu, distReady, air, sched>>

\* the feedback broadcast before the period: sendPreferenceValue, sendInitTokenToRsu
Broadcast(u) ==
    /\ period = "prepare" /\ u \in distReady
    /\ distReady' = distReady \ {u}
    /\ \E order \in Orders :
          /\ pv2Rsu' = [pv2Rsu EXCEPT ![u] = order]
          /\ sched' = [g \in Gnbs |->
                IF g \in ToSet(order)
                THEN RecordPreference(sched[g], AppsOf(u), CHOOSE p \in DOMAIN order : order[p] = g)
                ELSE sched[g]]
          /\ air' = air \cup {[to |-> order[1], token |-> InitialToken(a)] : a \in AppsOf(u)}
    /\ UNCHANGED <<distTokens, period>>

\* scheduler g has run handler s
Perform(g, s) ==
    /\ sched' = [sched EXCEPT ![g] = [s EXCEPT !.out = {}]]
    /\ UNCHANGED <<distTokens, period, pv2Rsu, distReady>>

ScheduleStart ==
    /\ period = "prepare"
    /\ period' = "schedule"
    /\ \E menu \in [Gnbs -> {m \in [Apps -> UNION Range(Menus)] : \A a \in Apps : m[a] \in Menus[a]}] :
          sched' = [g \in Gnbs |-> HandleDistributedScheduling(sched[g], menu[g])]
    /\ UNCHANGED <<distTokens, pv2Rsu, distReady, air>>

InstGenTimer(g) ==
    /\ sched[g].instGenTimer
    /\ Perform(g, HandleInstGenTimer(sched[g]))
    /\ UNCHANGED air

ReceiveToken(g) ==
    \E m \in air :
        /\ m.to = g
        /\ Perform(g, RecordDistToken(sched[g], m.token))
        /\ air' = air \ {m}

PostBatch(g) ==
    /\ sched[g].postBatch
    /\ \E s \in {PostBatchScheduling(sched[g])} :
          /\ Perform(g, s)
          /\ air' = air \cup {[to |-> NoGnb, token |-> t] : t \in s.out}

ForwardToken(u) ==
    \E m \in air :
        /\ m.to = NoGnb /\ UeOf[m.token.app] = u
        /\ IF IsLastVisit(m.token)
           THEN /\ air' = air \ {m}
                /\ distReady' = distReady \cup {u}
           ELSE /\ LET t == NextVisit(m.token, Len(pv2Rsu[u]))
                   IN  air' = (air \ {m}) \cup {[to |-> pv2Rsu[u][t.pv], token |-> t]}
                /\ UNCHANGED distReady
        /\ UNCHANGED <<distTokens, period, pv2Rsu, sched>>

RoundIsOver == air = {} /\ \A g \in Gnbs : ~sched[g].started

\* what a round overwrites before it reads it (initializeData, sendFeedback) is forgotten
NextPeriod ==
    /\ period = "schedule" /\ RoundIsOver
    /\ period' = "prepare"
    /\ pv2Rsu' = [u \in Ues |-> <<>>]
    /\ sched' = [g \in Gnbs |-> InitialSched]
    /\ UNCHANGED <<distTokens, distReady, air>>

Next ==
    \/ \E a \in Apps : StartApp(a)
    \/ \E u \in Ues : Broadcast(u) \/ ForwardToken(u)
    \/ ScheduleStart
    \/ \E g \in Gnbs : InstGenTimer(g) \/ ReceiveToken(g) \/ PostBatch(g)
    \/ NextPeriod

Spec == Init /\ [][Next]_vars

\* weak fairness of the timers and the channel (WF_vars, with ENABLED spelled out)
Fairness ==
    /\ \A g \in Gnbs :
          /\ []<>~sched[g].instGenTimer \/ []<><<InstGenTimer(g)>>_vars
          /\ []<>~sched[g].postBatch \/ []<><<PostBatch(g)>>_vars
          /\ []<>(\A m \in air : m.to # g) \/ []<><<ReceiveToken(g)>>_vars
    /\ \A u \in Ues : WF_vars(ForwardToken(u))

FairSpec == Spec /\ Fairness
-----------------------------------------------------------------------------
(* Properties.                                                             *)
Rbs(S) == MapThenSumSet(LAMBDA x : x.inst.rb, S)
Cus(S) == MapThenSumSet(LAMBDA x : x.inst.cu, S)
Value(S) == MapThenSumSet(LAMBDA x : x.inst.value, S)

\* The schedules the gNBs decide, each for itself, are feasible together: every one
\* fits its gNB, and no application is scheduled twice, at one gNB or at two.
FeasibleSchedule ==
    /\ \A g \in Gnbs :
          /\ Rbs(sched[g].finalSchedule) <= Bands
          /\ Cus(sched[g].finalSchedule) <= Units
    /\ \A g, h \in Gnbs : \A x \in sched[g].finalSchedule, y \in sched[h].finalSchedule :
          x.app = y.app => g = h /\ x = y

\* solutionSelection stops at the first candidate of another category or application.
\* It stops too early for none: when a gNB has finished, each candidate was considered.
CandidatesAreConsidered ==
    \A g \in Gnbs : ~sched[g].started => sched[g].candidateInsts = <<>>

\* every application has an instance at every gNB its vehicle announced it to.  A gNB
\* without one sets the reduction in the token to 0, and GuaranteeKept fails.
EachHasInstances ==
    \A u \in Ues : \A g \in ToSet(pv2Rsu[u]), a \in AppsOf(u) : sched[g].insts[a] # <<>>

\* The guarantee of the scheme: what the candidates added when they were pushed is a
\* lower bound of what the schedules are worth, over all gNBs, whatever the order in
\* which the tokens arrived.
GuaranteeKept ==
    period = "schedule" /\ RoundIsOver /\ EachHasInstances =>
        MapThenSumSet(LAMBDA g : sched[g].reductionRsu, Gnbs)
          <= MapThenSumSet(LAMBDA g : Value(sched[g].finalSchedule), Gnbs)

TakesPart(u) == \E g \in Gnbs : \E a \in sched[g].pendingApps : UeOf[a] = u

\* The gNBs do not wait for each other's tokens for ever: a round ends, and every
\* vehicle that announced an application is ready for the next.
RoundEnds ==
    \A u \in Ues :
        period = "schedule" /\ TakesPart(u)
          ~> period = "schedule" /\ RoundIsOver /\ u \in distReady

=============================================================================
