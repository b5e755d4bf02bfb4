------------------------ MODULE DistSchedulingProofs ------------------------
(***************************************************************************)
(* The schedules of the gNBs in distributed mode are feasible together,    *)
(* and worth what the candidates added.                                    *)
(*                                                                         *)
(* Two folds make a schedule (over the instances of an application, and    *)
(* over the candidates of a batch) and two sums measure it, all four with  *)
(* the recursive function of MapThenFoldSet, about which SumTheorems has   *)
(* what is needed.  First comes what a batch does to one scheduler, then   *)
(* that an application has one token, in the air or at one gNB, and that   *)
(* it remembers having been scheduled.  The last part is the guarantee of  *)
(* the scheme: the accounts of a round, what pushing a candidate and       *)
(* taking one off does to them, and that every handler keeps them.         *)
(***************************************************************************)
EXTENDS DistScheduling, SumTheorems

Candidate == [app : Apps, inst : Inst]

\* the function the fold over candidates defines
SelectsFrom(f, q, s) ==
    f = [S \in SUBSET DOMAIN q |->
            IF S = {} THEN s ELSE Select(f[S \ {Min(S)}], q[Min(S)])]

\* the fold of SolutionSelection
SelectAll(q, s) == FoldRight(LAMBDA c, t : Select(t, c), q, s)

\* the fold of SolutionSelection is the value of that function
LEMMA SelectAllIs ==
  ASSUME NEW q \in Seq(Candidate), NEW Ok, NEW s \in Ok,
         \A t \in Ok : \A k \in DOMAIN q : Select(t, q[k]) \in Ok
  PROVE  \E f : SelectsFrom(f, q, s) /\ SelectAll(q, s) = f[DOMAIN q]
<1> DEFINE D      == DOMAIN q
           choice == [S \in SUBSET D |-> Min(S)]
           step   == [k \in D |-> [t \in Ok |-> Select(t, q[k])]]
           iter[S \in SUBSET DOMAIN q] ==
             IF S = {} THEN s ELSE LET x == Min(S) IN Select(iter[S \ {x}], q[x])
<1>1. IsFiniteSet(D) /\ D \subseteq Nat
  BY FS_Interval
<1>2. \A S \in SUBSET D : S # {} => Min(S) \in S
  <2> TAKE S \in SUBSET D
  <2> HAVE S # {}
  <2>1. S \subseteq Nat
    BY <1>1
  <2>2. \E n \in S : \A k \in S : n <= k
    BY <2>1, LeastNatural
  <2> QED BY <2>2 DEF Min
<1>3. step \in [D -> [Ok -> Ok]]
  OBVIOUS
<1>4. \A S \in SUBSET D : S # {} => choice[S] \in S
  BY <1>2
<1>5. PICK f : f \in [SUBSET D -> Ok] /\ IsFold(f, D, s, choice, step)
  <2>1. CanFold(D, Ok, s, choice, step)
    BY <1>1, <1>3, <1>4 DEF CanFold
  <2> HIDE DEF choice, step, D, iter
  <2> QED BY <2>1, FoldExists
<1>6. SelectsFrom(f, q, s)
  <2>1. ASSUME NEW S \in SUBSET D
        PROVE  f[S] = IF S = {} THEN s ELSE Select(f[S \ {Min(S)}], q[Min(S)])
    <3>1. CASE S = {}
      BY <1>5, <3>1 DEF IsFold
    <3>2. CASE S # {}
      <4>1. f[S] = step[choice[S]][f[S \ {choice[S]}]] /\ choice[S] = Min(S)
        BY <1>5, <3>2 DEF IsFold
      <4>2. Min(S) \in D /\ f[S \ {Min(S)}] \in Ok
        BY <1>2, <1>5, <3>2
      <4> QED BY <3>2, <4>1, <4>2
    <3> QED BY <3>1, <3>2
  <2> QED BY <1>5, <2>1 DEF SelectsFrom
<1>7. SelectsFrom(iter, q, s)
  BY <1>6 DEF SelectsFrom
<1>8. SelectAll(q, s) = iter[D]
  BY DEF SelectAll, FoldRight, MapThenFoldSet
<1> QED BY <1>7, <1>8

\* what every Select preserves holds after the fold of SolutionSelection
LEMMA SelectsInside ==
  ASSUME NEW q \in Seq(Candidate), NEW Ok, NEW s \in Ok,
         \A t \in Ok : \A k \in DOMAIN q : Select(t, q[k]) \in Ok
  PROVE  SelectAll(q, s) \in Ok
<1> DEFINE D == DOMAIN q
<1>1. IsFiniteSet(D) /\ D \subseteq Nat
  BY FS_Interval
<1>2. \A S \in SUBSET D : S # {} => Min(S) \in S
  <2> TAKE S \in SUBSET D
  <2> HAVE S # {}
  <2>1. S \subseteq Nat
    BY <1>1
  <2>2. \E n \in S : \A k \in S : n <= k
    BY <2>1, LeastNatural
  <2> QED BY <2>2 DEF Min
<1>7. PICK f : SelectsFrom(f, q, s) /\ SelectAll(q, s) = f[D]
  BY SelectAllIs
<1> DEFINE Good == {S \in SUBSET D : f[S] \in Ok}
<1>9. {} \in Good
  BY <1>7 DEF SelectsFrom
<1>10. \A S \in SUBSET D : S # {} => (S \ {Min(S)} \in Good => S \in Good)
  <2> SUFFICES ASSUME NEW S \in SUBSET D, S # {}, S \ {Min(S)} \in Good
               PROVE  f[S] \in Ok
    OBVIOUS
  <2>1. f[S] = Select(f[S \ {Min(S)}], q[Min(S)])
    BY <1>7 DEF SelectsFrom
  <2> QED BY <1>2, <2>1
<1>11. \A S \in SUBSET D : S \in Good
  <2>1. \A S \in SUBSET D : S # {} /\ (\A x \in S : S \ {x} \in Good) => S \in Good
    BY <1>2, <1>10
  <2> HIDE DEF Good, D
  <2> QED BY <1>1, <1>9, <2>1, SubsetInduction
<1> QED BY <1>7, <1>11

\* the same for properties that change as the candidates leave, the last one first:
\* Ok[k] is what holds when k are left
LEMMA SelectsInOrder ==
  ASSUME NEW q \in Seq(Candidate), NEW n \in Nat, n = Len(q), NEW All, NEW Ok, NEW s \in All,
         \A t \in All : \A k \in DOMAIN q : Select(t, q[k]) \in All,
         s \in Ok[n],
         \A k \in 1 .. n : \A t \in Ok[k] : Select(t, q[k]) \in Ok[k - 1]
  PROVE  SelectAll(q, s) \in Ok[0]
<1>1. PICK f : SelectsFrom(f, q, s) /\ SelectAll(q, s) = f[DOMAIN q]
  BY SelectAllIs
<1>2. DOMAIN q = 1 .. n
  OBVIOUS
<1> DEFINE Rest(k) == k + 1 .. n
           Bad == {i \in 0 .. n : f[Rest(n - i)] \notin Ok[n - i]}
<1>3. ASSUME Bad # {} PROVE FALSE
  <2>1. Bad \subseteq Nat
    OBVIOUS
  <2>2. PICK i \in Bad : \A j \in Bad : i <= j
    <3> HIDE DEF Bad
    <3> QED BY <1>3, <2>1, LeastNatural
  <2>3. i \in 0 .. n /\ f[Rest(n - i)] \notin Ok[n - i]
    OBVIOUS
  <2>4. i # 0
    <3> SUFFICES ASSUME i = 0 PROVE FALSE
      OBVIOUS
    <3>1. Rest(n - i) = {} /\ n - i = n
      OBVIOUS
    <3>2. f[{}] = s
      BY <1>1 DEF SelectsFrom
    <3> QED BY <2>3, <3>1, <3>2
  <2> DEFINE k == n - i + 1
  <2>5. k \in 1 .. n /\ k - 1 = n - i /\ n - (i - 1) = k /\ i - 1 \in 0 .. n
    BY <2>3, <2>4
  <2>6. i - 1 \notin Bad
    <3> HIDE DEF Bad
    <3> QED BY <2>2, <2>3
  <2>7. f[Rest(k)] \in Ok[k]
    BY <2>5, <2>6
  <2> HIDE DEF k, Bad
  <2>8. /\ Rest(n - i) \in SUBSET (1 .. n) /\ Rest(n - i) # {} /\ k \in Rest(n - i)
        /\ \A j \in Rest(n - i) : k <= j
        /\ Rest(n - i) \ {k} = Rest(k)
    BY <2>3, <2>5
  <2>9. Min(Rest(n - i)) = k
    <3>1. ASSUME NEW j \in Rest(n - i), \A x \in Rest(n - i) : j <= x PROVE j = k
      BY <2>5, <2>8, <3>1
    <3> HIDE DEF Rest
    <3> QED BY <2>8, <3>1 DEF Min
  <2> HIDE DEF Rest
  <2>10. f[Rest(n - i)] = Select(f[Rest(k)], q[k])
    BY <1>1, <1>2, <2>8, <2>9 DEF SelectsFrom
  <2> QED BY <2>3, <2>5, <2>7, <2>10
<1>4. f[Rest(n - n)] \in Ok[n - n]
  BY <1>3
<1>5. Rest(n - n) = 1 .. n /\ n - n = 0
  OBVIOUS
<1> QED BY <1>1, <1>2, <1>4, <1>5

\* the function the fold over the instances q of a defines
ConsidersFrom(f, a, q, s) ==
    f = [S \in SUBSET DOMAIN q |->
            IF S = {} THEN s ELSE Consider(f[S \ {Max(S)}], a, q[Max(S)])]

\* the fold of SelectCandidatesOf
ConsiderAll(s, a, q) == FoldLeft(LAMBDA t, k : Consider(t, a, k), s, q)

\* what every Consider preserves holds after the fold of SelectCandidatesOf
LEMMA ConsidersInside ==
  ASSUME NEW q \in Seq(Nat), NEW a, NEW Ok, NEW s \in Ok,
         \A t \in Ok : \A k \in DOMAIN q : Consider(t, a, q[k]) \in Ok
  PROVE  ConsiderAll(s, a, q) \in Ok
<1> DEFINE D      == DOMAIN q
           choice == [S \in SUBSET D |-> Max(S)]
           step   == [k \in D |-> [t \in Ok |-> Consider(t, a, q[k])]]
           iter[S \in SUBSET DOMAIN q] ==
             IF S = {} THEN s ELSE LET x == Max(S) IN Consider(iter[S \ {x}], a, q[x])
<1>1. IsFiniteSet(D) /\ D \subseteq Nat
  BY FS_Interval
<1>2. \A S \in SUBSET D : S # {} => Max(S) \in S
  <2> TAKE S \in SUBSET D
  <2> HAVE S # {}
  <2>1. S \subseteq Nat /\ IsFiniteSet(S)
    BY <1>1, FS_Subset
  <2>2. \E x \in S : \A y \in S : x >= y
    BY <2>1, GreatestNatural
  <2> QED BY <2>2 DEF Max
<1>3. step \in [D -> [Ok -> Ok]]
  OBVIOUS
<1>4. \A S \in SUBSET D : S # {} => choice[S] \in S
  BY <1>2
<1>5. PICK f : f \in [SUBSET D -> Ok] /\ IsFold(f, D, s, choice, step)
  <2>1. CanFold(D, Ok, s, choice, step)
    BY <1>1, <1>3, <1>4 DEF CanFold
  <2> HIDE DEF choice, step, D, iter
  <2> QED BY <2>1, FoldExists
<1>6. ConsidersFrom(f, a, q, s)
  <2>1. ASSUME NEW S \in SUBSET D
        PROVE  f[S] = IF S = {} THEN s ELSE Consider(f[S \ {Max(S)}], a, q[Max(S)])
    <3>1. CASE S = {}
      BY <1>5, <3>1 DEF IsFold
    <3>2. CASE S # {}
      <4>1. f[S] = step[choice[S]][f[S \ {choice[S]}]] /\ choice[S] = Max(S)
        BY <1>5, <3>2 DEF IsFold
      <4>2. Max(S) \in D /\ f[S \ {Max(S)}] \in Ok
        BY <1>2, <1>5, <3>2
      <4> QED BY <3>2, <4>1, <4>2
    <3> QED BY <3>1, <3>2
  <2> QED BY <1>5, <2>1 DEF ConsidersFrom
<1>7. ConsidersFrom(iter, a, q, s)
  BY <1>6 DEF ConsidersFrom
<1>8. ConsiderAll(s, a, q) = iter[D]
  BY DEF ConsiderAll, FoldLeft, MapThenFoldSet
<1> DEFINE Good == {S \in SUBSET D : iter[S] \in Ok}
<1> HIDE DEF iter
<1>9. {} \in Good
  BY <1>7 DEF ConsidersFrom
<1>10. \A S \in SUBSET D : S # {} => (S \ {Max(S)} \in Good => S \in Good)
  <2> SUFFICES ASSUME NEW S \in SUBSET D, S # {}, S \ {Max(S)} \in Good
               PROVE  iter[S] \in Ok
    OBVIOUS
  <2>1. iter[S] = Consider(iter[S \ {Max(S)}], a, q[Max(S)])
    BY <1>7 DEF ConsidersFrom
  <2> QED BY <1>2, <2>1
<1>11. \A S \in SUBSET D : S \in Good
  <2>1. \A S \in SUBSET D : S # {} /\ (\A x \in S : S \ {x} \in Good) => S \in Good
    BY <1>2, <1>10
  <2> HIDE DEF Good, D
  <2> QED BY <1>1, <1>9, <2>1, SubsetInduction
<1> QED BY <1>8, <1>11

-----------------------------------------------------------------------------
(* The bands and the units of a set of candidates.                          *)

RbOf(S) == [x \in S |-> x.inst.rb]
CuOf(S) == [x \in S |-> x.inst.cu]

\* the bands and the units of a set of candidates are such sums
LEMMA SumsOfCandidates ==
  ASSUME NEW S, S \subseteq Candidate, IsFiniteSet(S)
  PROVE  /\ RbOf(S) \in [S -> Nat] /\ CuOf(S) \in [S -> Nat]
         /\ \E f : SumsUp(f, S, RbOf(S)) /\ Rbs(S) = f[S]
         /\ \E f : SumsUp(f, S, CuOf(S)) /\ Cus(S) = f[S]
<1>1. RbOf(S) \in [S -> Nat] /\ CuOf(S) \in [S -> Nat]
  <2>1. \A x \in S : x.inst.rb \in Nat /\ x.inst.cu \in Nat
    BY DistSchedulingAssumption DEF Candidate, Inst
  <2> QED BY <2>1 DEF RbOf, CuOf
<1>2. \E f : SumsUp(f, S, RbOf(S)) /\ Rbs(S) = f[S]
  <2> DEFINE iter[T \in SUBSET S] ==
               IF T = {} THEN 0
               ELSE LET x == CHOOSE x \in T : TRUE IN x.inst.rb + iter[T \ {x}]
  <2>1. PICK f : SumsUp(f, S, RbOf(S))
    <3> HIDE DEF iter
    <3> QED BY <1>1, SumsExist
  <2>2. f = [T \in SUBSET S |->
               IF T = {} THEN 0
               ELSE LET x == CHOOSE x \in T : TRUE IN x.inst.rb + f[T \ {x}]]
    <3> HIDE DEF iter
    <3> QED BY <2>1 DEF SumsUp, RbOf
  <2>3. iter = [T \in SUBSET S |->
               IF T = {} THEN 0
               ELSE LET x == CHOOSE x \in T : TRUE IN x.inst.rb + iter[T \ {x}]]
    BY <2>2, Zenon
  <2>4. Rbs(S) = iter[S]
    BY DEF Rbs, MapThenSumSet, MapThenFoldSet
  <2> HIDE DEF iter
  <2>5. SumsUp(iter, S, RbOf(S))
    BY <2>3 DEF SumsUp, RbOf
  <2> QED BY <2>4, <2>5
<1>3. \E f : SumsUp(f, S, CuOf(S)) /\ Cus(S) = f[S]
  <2> DEFINE iter[T \in SUBSET S] ==
               IF T = {} THEN 0
               ELSE LET x == CHOOSE x \in T : TRUE IN x.inst.cu + iter[T \ {x}]
  <2>1. PICK f : SumsUp(f, S, CuOf(S))
    <3> HIDE DEF iter
    <3> QED BY <1>1, SumsExist
  <2>2. f = [T \in SUBSET S |->
               IF T = {} THEN 0
               ELSE LET x == CHOOSE x \in T : TRUE IN x.inst.cu + f[T \ {x}]]
    <3> HIDE DEF iter
    <3> QED BY <2>1 DEF SumsUp, CuOf
  <2>3. iter = [T \in SUBSET S |->
               IF T = {} THEN 0
               ELSE LET x == CHOOSE x \in T : TRUE IN x.inst.cu + iter[T \ {x}]]
    BY <2>2, Zenon
  <2>4. Cus(S) = iter[S]
    BY DEF Cus, MapThenSumSet, MapThenFoldSet
  <2> HIDE DEF iter
  <2>5. SumsUp(iter, S, CuOf(S))
    BY <2>3 DEF SumsUp, CuOf
  <2> QED BY <2>4, <2>5
<1> QED BY <1>1, <1>2, <1>3

\* nothing is taken by an empty schedule
LEMMA SumsOfNone == Rbs({}) = 0 /\ Cus({}) = 0
<1>1. IsFiniteSet({})
  BY FS_EmptySet
<1>2. PICK f : SumsUp(f, {}, RbOf({})) /\ Rbs({}) = f[{}]
  BY <1>1, SumsOfCandidates
<1>3. PICK g : SumsUp(g, {}, CuOf({})) /\ Cus({}) = g[{}]
  BY <1>1, SumsOfCandidates
<1> QED BY <1>2, <1>3 DEF SumsUp

\* a schedule with one more entry takes what the entry takes more
LEMMA SumsOfMore ==
  ASSUME NEW S, S \subseteq Candidate, IsFiniteSet(S), NEW x \in Candidate, x \notin S
  PROVE  /\ Rbs(S) \in Nat /\ Rbs(S \cup {x}) = Rbs(S) + x.inst.rb
         /\ Cus(S) \in Nat /\ Cus(S \cup {x}) = Cus(S) + x.inst.cu
<1> DEFINE D == S \cup {x}
<1>1. D \subseteq Candidate /\ IsFiniteSet(D) /\ S \in SUBSET D /\ S \subseteq D /\ D \ {x} = S
      /\ x \in D /\ D \in SUBSET D
  BY FS_AddElement
<1> HIDE DEF D
<1>2. PICK f : SumsUp(f, D, RbOf(D)) /\ Rbs(D) = f[D]
  BY <1>1, SumsOfCandidates
<1>3. PICK g : SumsUp(g, S, RbOf(S)) /\ Rbs(S) = g[S]
  BY SumsOfCandidates
<1>4. PICK h : SumsUp(h, D, CuOf(D)) /\ Cus(D) = h[D]
  BY <1>1, SumsOfCandidates
<1>5. PICK k : SumsUp(k, S, CuOf(S)) /\ Cus(S) = k[S]
  BY SumsOfCandidates
<1>6. f[S] = g[S]
  <2>1. \A y \in S : RbOf(D)[y] = RbOf(S)[y]
    BY <1>1 DEF RbOf
  <2> QED BY <1>1, <1>2, <1>3, <2>1, SumsAgree
<1>7. h[S] = k[S]
  <2>1. \A y \in S : CuOf(D)[y] = CuOf(S)[y]
    BY <1>1 DEF CuOf
  <2> QED BY <1>1, <1>4, <1>5, <2>1, SumsAgree
<1>8. f[S] \in Nat /\ f[D] = RbOf(D)[x] + f[S]
  <2>1. RbOf(D) \in [D -> Nat]
    BY <1>1, SumsOfCandidates
  <2>2. \A T \in SUBSET D : /\ f[T] \in Nat
                            /\ \A z \in T : f[T] = RbOf(D)[z] + f[T \ {z}]
    BY <1>1, <1>2, <2>1, SumAnyOrder
  <2> QED BY <1>1, <2>2
<1>9. h[S] \in Nat /\ h[D] = CuOf(D)[x] + h[S]
  <2>1. CuOf(D) \in [D -> Nat]
    BY <1>1, SumsOfCandidates
  <2>2. \A T \in SUBSET D : /\ h[T] \in Nat
                            /\ \A z \in T : h[T] = CuOf(D)[z] + h[T \ {z}]
    BY <1>1, <1>4, <2>1, SumAnyOrder
  <2> QED BY <1>1, <2>2
<1>10. RbOf(D)[x] = x.inst.rb /\ CuOf(D)[x] = x.inst.cu
  BY <1>1 DEF RbOf, CuOf
<1>11. x.inst.rb \in Nat /\ x.inst.cu \in Nat
  BY DistSchedulingAssumption DEF Candidate, Inst
<1> QED BY <1>2, <1>3, <1>4, <1>5, <1>6, <1>7, <1>8, <1>9, <1>10, <1>11 DEF D

\* the measures of a schedule are numbers
LEMMA SumsAreNatural ==
  ASSUME NEW S, S \subseteq Candidate, IsFiniteSet(S)
  PROVE  Rbs(S) \in Nat /\ Cus(S) \in Nat
<1>1. PICK f : SumsUp(f, S, RbOf(S)) /\ Rbs(S) = f[S]
  BY SumsOfCandidates
<1>2. PICK k : SumsUp(k, S, CuOf(S)) /\ Cus(S) = k[S]
  BY SumsOfCandidates
<1>3. RbOf(S) \in [S -> Nat] /\ CuOf(S) \in [S -> Nat] /\ S \in SUBSET S
  BY SumsOfCandidates
<1>4. f[S] \in Nat
  BY <1>1, <1>3, SumAnyOrder
<1>5. k[S] \in Nat
  BY <1>2, <1>3, SumAnyOrder
<1> QED BY <1>1, <1>2, <1>4, <1>5

-----------------------------------------------------------------------------
(* The scheme at one gNB.                                                   *)
Stages == {"CandiSel", "SolSel"}

Token == [app : Apps, utilReduction : Int, pv : PVs, category : Categories, stage : Stages,
          isScheduled : BOOLEAN]

SchedRecord ==
    [pvCounter : [PVs -> Nat], pendingApps : SUBSET Apps, pv2Tokens : SUBSET Token,
     distStage : Stages, targetPV : PVs, targetCategory : Categories,
     started : BOOLEAN, batchOngoing : BOOLEAN, instGenTimer : BOOLEAN, postBatch : BOOLEAN,
     insts : [Apps -> Seq(Inst)], maxRB : Nat, maxCU : Nat,
     reductionRsu : Int, reductAppInRsu : [Apps -> Int],
     candidateInsts : Seq(Candidate), finalSchedule : SUBSET Candidate,
     vecSchedule : SUBSET Candidate, out : SUBSET Token]

\* a set of tokens has at most one for each application
OnePerApp(T) == \A t, v \in T : t.app = v.app => t = v

\* token v is token t after some work on it at one visit
Worked(t, v) ==
    /\ v.app = t.app /\ v.pv = t.pv /\ v.stage = t.stage /\ v.category = t.category
    /\ t.isScheduled => v.isScheduled

\* the tokens V are the tokens T after some work on them
Carried(T, V) ==
    /\ \A v \in V : \E t \in T : Worked(t, v)
    /\ \A t \in T : \E v \in V : Worked(t, v)

\* the schedule fits what the gNB has, has one entry per application, and the tokens
\* here remember it
Feasible(s) ==
    /\ IsFiniteSet(s.finalSchedule)
    /\ Rbs(s.finalSchedule) + s.maxRB <= Bands
    /\ Cus(s.finalSchedule) + s.maxCU <= Units
    /\ \A x, y \in s.finalSchedule : x.app = y.app => x = y
    /\ \A x \in s.finalSchedule : \A t \in s.pv2Tokens : t.app = x.app => t.isScheduled

Good(s) == s \in SchedRecord /\ OnePerApp(s.pv2Tokens) /\ Feasible(s)

\* h is s after some work on the batch: it has the same tokens and is at the same batch,
\* and what is newly scheduled was not scheduled before
Works(s, h) ==
    /\ Carried(s.pv2Tokens, h.pv2Tokens)
    /\ \A x \in h.finalSchedule :
          x \in s.finalSchedule \/ \E t \in s.pv2Tokens : t.app = x.app /\ ~t.isScheduled
    /\ h.pvCounter = s.pvCounter /\ h.pendingApps = s.pendingApps /\ h.insts = s.insts
    /\ h.distStage = s.distStage /\ h.targetPV = s.targetPV
    /\ h.targetCategory = s.targetCategory /\ h.started = s.started
    /\ h.instGenTimer = s.instGenTimer /\ h.out = s.out

\* h has the candidates of s and then others, of the applications A and the category
\* in turn
Pushes(s, h, A) ==
    /\ Len(s.candidateInsts) <= Len(h.candidateInsts)
    /\ \A i \in DOMAIN h.candidateInsts :
          IF i <= Len(s.candidateInsts) THEN h.candidateInsts[i] = s.candidateInsts[i]
          ELSE /\ h.candidateInsts[i].app \in A
               /\ Category(h.candidateInsts[i].inst) = s.targetCategory

\* work that follows work is work
LEMMA CarriedTransitive ==
  ASSUME NEW T, NEW U, NEW V, Carried(T, U), Carried(U, V)
  PROVE  Carried(T, V)
<1>1. \A v \in V : \E t \in T : Worked(t, v)
  <2> SUFFICES ASSUME NEW v \in V PROVE \E t \in T : Worked(t, v)
    OBVIOUS
  <2>1. PICK u \in U : Worked(u, v)
    BY DEF Carried
  <2>2. PICK t \in T : Worked(t, u)
    BY DEF Carried
  <2> QED BY <2>1, <2>2 DEF Worked
<1>2. \A t \in T : \E v \in V : Worked(t, v)
  <2> SUFFICES ASSUME NEW t \in T PROVE \E v \in V : Worked(t, v)
    OBVIOUS
  <2>1. PICK u \in U : Worked(t, u)
    BY DEF Carried
  <2>2. PICK v \in V : Worked(u, v)
    BY DEF Carried
  <2> QED BY <2>1, <2>2 DEF Worked
<1> QED BY <1>1, <1>2 DEF Carried

\* no work is work
LEMMA CarriedReflexive ==
  ASSUME NEW T PROVE Carried(T, T)
BY DEF Carried, Worked

\* a batch may change nothing
LEMMA WorksReflexive ==
  ASSUME NEW s PROVE Works(s, s)
BY CarriedReflexive DEF Works

\* work on the batch that follows work on the batch is work on it
LEMMA WorksTransitive ==
  ASSUME NEW s, NEW k, NEW h, Works(s, k), Works(k, h), OnePerApp(s.pv2Tokens)
  PROVE  Works(s, h)
<1>1. Carried(s.pv2Tokens, h.pv2Tokens)
  BY CarriedTransitive DEF Works
<1>2. ASSUME NEW x \in h.finalSchedule
      PROVE  x \in s.finalSchedule \/ \E t \in s.pv2Tokens : t.app = x.app /\ ~t.isScheduled
  <2>1. CASE x \in k.finalSchedule
    BY <2>1 DEF Works
  <2>2. CASE \E t \in k.pv2Tokens : t.app = x.app /\ ~t.isScheduled
    <3>1. PICK v \in k.pv2Tokens : v.app = x.app /\ ~v.isScheduled
      BY <2>2
    <3>2. PICK t \in s.pv2Tokens : Worked(t, v)
      BY DEF Works, Carried
    <3> QED BY <3>1, <3>2 DEF Worked
  <2> QED BY <1>2, <2>1, <2>2 DEF Works
<1> QED BY <1>1, <1>2 DEF Works

\* candidates pushed after candidates of the same applications
LEMMA PushesTransitive ==
  ASSUME NEW s \in SchedRecord, NEW k \in SchedRecord, NEW h \in SchedRecord, NEW A,
         Pushes(s, k, A), Pushes(k, h, A), k.targetCategory = s.targetCategory
  PROVE  Pushes(s, h, A)
<1> DEFINE p == s.candidateInsts
           q == k.candidateInsts
           r == h.candidateInsts
<1>1. p \in Seq(Candidate) /\ q \in Seq(Candidate) /\ r \in Seq(Candidate)
  BY DEF SchedRecord
<1>2. Len(p) <= Len(q) /\ Len(q) <= Len(r)
  BY DEF Pushes
<1>3. ASSUME NEW i \in DOMAIN r
      PROVE  IF i <= Len(p) THEN r[i] = p[i]
             ELSE r[i].app \in A /\ Category(r[i].inst) = s.targetCategory
  <2>1. i \in Nat /\ (i <= Len(q) => i \in DOMAIN q)
    BY <1>1
  <2>2. CASE i <= Len(q)
    <3>1. r[i] = q[i]
      BY <2>2 DEF Pushes
    <3>2. IF i <= Len(p) THEN q[i] = p[i]
          ELSE q[i].app \in A /\ Category(q[i].inst) = s.targetCategory
      BY <2>1, <2>2 DEF Pushes
    <3> HIDE DEF p, q, r
    <3> QED BY <3>1, <3>2
  <2>3. CASE ~(i <= Len(q))
    <3>1. r[i].app \in A /\ Category(r[i].inst) = s.targetCategory
      BY <2>3 DEF Pushes
    <3>2. ~(i <= Len(p))
      <4> HIDE DEF p, q, r
      <4> QED BY <1>1, <1>2, <2>1, <2>3
    <3> QED BY <3>1, <3>2
  <2> QED BY <2>2, <2>3
<1>4. Len(p) <= Len(r)
  <2> HIDE DEF p, q, r
  <2> QED BY <1>1, <1>2
<1> QED BY <1>3, <1>4 DEF Pushes

\* the token of an application is the one it has
LEMMA TokenOfIs ==
  ASSUME NEW s, OnePerApp(s.pv2Tokens), NEW t \in s.pv2Tokens
  PROVE  TokenOf(s, t.app) = t
BY DEF TokenOf, OnePerApp

\* a token changed by some work leaves one token per application
LEMMA TokenReplaced ==
  ASSUME NEW T, OnePerApp(T), NEW t \in T, NEW n, Worked(t, n)
  PROVE  /\ OnePerApp((T \ {t}) \cup {n}) /\ Carried(T, (T \ {t}) \cup {n})
<1>1. OnePerApp((T \ {t}) \cup {n})
  BY DEF OnePerApp, Worked
<1>2. ASSUME NEW v \in (T \ {t}) \cup {n} PROVE \E u \in T : Worked(u, v)
  BY DEF Worked
<1>3. ASSUME NEW u \in T PROVE \E v \in (T \ {t}) \cup {n} : Worked(u, v)
  BY DEF Worked
<1> QED BY <1>1, <1>2, <1>3 DEF Carried

\* ChangeToken does such work
LEMMA ChangeTokenGood ==
  ASSUME NEW s, Good(s), NEW t \in s.pv2Tokens, NEW n \in Token, Worked(t, n)
  PROVE  LET h == ChangeToken(s, t.app, n)
         IN  /\ Good(h) /\ Works(s, h)
             /\ h = [s EXCEPT !.pv2Tokens = (s.pv2Tokens \ {t}) \cup {n}]
<1> DEFINE T == (s.pv2Tokens \ {t}) \cup {n}
           h == ChangeToken(s, t.app, n)
<1>1. TokenOf(s, t.app) = t
  BY TokenOfIs DEF Good
<1>2. h = [s EXCEPT !.pv2Tokens = T]
  BY <1>1 DEF ChangeToken
<1>3. OnePerApp(T) /\ Carried(s.pv2Tokens, T)
  BY TokenReplaced DEF Good
<1>4. s \in SchedRecord /\ T \in SUBSET Token
  BY DEF Good, SchedRecord
<1>5. \A v \in T : \E u \in s.pv2Tokens : Worked(u, v)
  BY <1>3 DEF Carried
<1> HIDE DEF T
<1>6. h \in SchedRecord
  BY <1>2, <1>4, Zenon DEF SchedRecord
<1>7. h.finalSchedule = s.finalSchedule /\ h.maxRB = s.maxRB /\ h.maxCU = s.maxCU
      /\ h.pv2Tokens = T
  BY <1>2, <1>4 DEF SchedRecord
<1>8. Feasible(h)
  <2>1. \A x \in s.finalSchedule : \A v \in T : v.app = x.app => v.isScheduled
    BY <1>5 DEF Good, Feasible, Worked
  <2> QED BY <1>7, <2>1 DEF Good, Feasible
<1>9. Works(s, h)
  BY <1>2, <1>3, <1>4, <1>7 DEF Works, SchedRecord
<1> QED BY <1>2, <1>3, <1>6, <1>7, <1>8, <1>9 DEF Good, T

\* instances, their weights and penalties are numbers
LEMMA InstNumbers ==
  ASSUME NEW inst \in Inst
  PROVE  /\ inst.rb \in Nat /\ inst.cu \in Nat /\ inst.value \in Nat
         /\ Weight(inst) \in Nat /\ Category(inst) \in Categories
         /\ \A n \in Int : Penalty(inst, n) \in Int
<1>1. inst.rb \in Nat /\ inst.cu \in Nat /\ inst.value \in Nat
  BY DistSchedulingAssumption DEF Inst
<1>2. Bands \in Nat /\ Units \in Nat /\ Bands # 0 /\ Units # 0
  BY DistSchedulingAssumption
<1>3. Whole \in Nat /\ Whole > 0
  BY <1>2 DEF Whole
<1>4. Weight(inst) \in Nat
  BY <1>1, <1>2 DEF Weight
<1>5. ASSUME NEW n \in Int PROVE Penalty(inst, n) \in Int
  <2>1. Weight(inst) * n \in Int
    BY <1>4
  <2> QED BY <1>3, <2>1 DEF Penalty
<1> QED BY <1>1, <1>4, <1>5 DEF Category, Categories

\* Consider works on the token and pushes at most the instance
LEMMA ConsiderGood ==
  ASSUME NEW s, Good(s), NEW t \in s.pv2Tokens, NEW k \in DOMAIN s.insts[t.app], NEW A,
         t.app \in A
  PROVE  LET h == Consider(s, t.app, k)
         IN  Good(h) /\ Works(s, h) /\ Pushes(s, h, A)
<1> DEFINE a       == t.app
           inst    == s.insts[a][k]
           others  == s.reductionRsu - s.reductAppInRsu[a]
           utility == inst.value - t.utilReduction - Penalty(inst, others)
           n       == [t EXCEPT !.utilReduction = @ + utility]
           j       == ChangeToken(s, a, n)
           c       == [app |-> a, inst |-> inst]
           h       == Consider(s, a, k)
<1> SUFFICES Good(h) /\ Works(s, h) /\ Pushes(s, h, A)
  OBVIOUS
<1>1. s \in SchedRecord /\ TokenOf(s, a) = t
  BY TokenOfIs DEF Good
<1>2. t \in Token /\ a \in Apps /\ t.utilReduction \in Int
  BY <1>1 DEF SchedRecord, Token
<1>3. inst \in Inst /\ c \in Candidate
  <2>1. s.insts[a] \in Seq(Inst)
    BY <1>1, <1>2 DEF SchedRecord
  <2> QED BY <1>2, <2>1 DEF Candidate
<1>4. s.reductionRsu \in Int /\ s.reductAppInRsu \in [Apps -> Int] /\ others \in Int
  BY <1>1, <1>2 DEF SchedRecord
<1>5. utility \in Int
  <2>1. inst.value \in Int /\ Penalty(inst, others) \in Int
    BY <1>3, <1>4, InstNumbers
  <2> HIDE DEF inst, others
  <2> QED BY <1>2, <1>4, <2>1
<1>6. CASE Category(inst) # s.targetCategory \/ utility <= 0
  <2>1. h = s
    BY <1>1, <1>6 DEF Consider
  <2>2. s.candidateInsts \in Seq(Candidate)
    BY <1>1 DEF SchedRecord
  <2> QED BY <2>1, <2>2, WorksReflexive DEF Pushes
<1>7. CASE ~(Category(inst) # s.targetCategory \/ utility <= 0)
  <2>1. h = [j EXCEPT !.candidateInsts = Append(@, c), !.reductionRsu = @ + utility,
                      !.reductAppInRsu[a] = @ + utility]
    BY <1>1, <1>7 DEF Consider
  <2>2. n \in Token /\ Worked(t, n)
    <3> HIDE DEF utility
    <3> QED BY <1>2, <1>5 DEF Token, Worked
  <2>3. /\ Good(j) /\ Works(s, j)
        /\ j = [s EXCEPT !.pv2Tokens = (s.pv2Tokens \ {t}) \cup {n}]
    BY <2>2, ChangeTokenGood
  <2> HIDE DEF j, n, utility, inst, others
  <2>4. j \in SchedRecord /\ j.candidateInsts = s.candidateInsts
        /\ j.reductionRsu = s.reductionRsu /\ j.reductAppInRsu = s.reductAppInRsu
    BY <1>1, <2>3 DEF Good, SchedRecord
  <2> HIDE DEF c
  <2>5. /\ Append(j.candidateInsts, c) \in Seq(Candidate)
        /\ j.reductionRsu + utility \in Int
        /\ [j.reductAppInRsu EXCEPT ![a] = @ + utility] \in [Apps -> Int]
    <3>1. j.candidateInsts \in Seq(Candidate) /\ j.reductionRsu \in Int
          /\ j.reductAppInRsu \in [Apps -> Int]
      BY <2>4 DEF SchedRecord
    <3> QED BY <1>2, <1>3, <1>5, <3>1
  <2>6. h \in SchedRecord
    <3> HIDE DEF h
    <3> QED BY <2>1, <2>4, <2>5 DEF SchedRecord
  <2>7. h.pv2Tokens = j.pv2Tokens /\ h.finalSchedule = j.finalSchedule /\ h.maxRB = j.maxRB
        /\ h.maxCU = j.maxCU /\ h.candidateInsts = Append(s.candidateInsts, c)
    <3> HIDE DEF h
    <3> QED BY <2>1, <2>4 DEF SchedRecord
  <2>8. Works(j, h)
    <3>1. Carried(j.pv2Tokens, h.pv2Tokens)
      BY <2>7, CarriedReflexive
    <3> HIDE DEF h
    <3> QED BY <2>1, <2>4, <2>7, <3>1 DEF Works, SchedRecord
  <2> HIDE DEF h
  <2>9. Good(h)
    BY <2>3, <2>6, <2>7 DEF Good, Feasible
  <2>10. Works(s, h)
    BY <2>3, <2>8, WorksTransitive DEF Good
  <2>11. Pushes(s, h, A)
    <3>1. s.candidateInsts \in Seq(Candidate)
      BY <1>1 DEF SchedRecord
    <3>2. c.app = a /\ Category(c.inst) = s.targetCategory
      BY <1>7 DEF c
    <3> QED BY <1>3, <2>7, <3>1, <3>2 DEF Pushes
  <2> QED BY <2>9, <2>10, <2>11
<1> HIDE DEF h, utility, inst
<1> QED BY <1>6, <1>7

\* Select schedules a candidate that fits and whose application is not scheduled
LEMMA SelectGood ==
  ASSUME NEW s, Good(s), NEW t \in s.pv2Tokens, NEW c \in Candidate, c.app = t.app
  PROVE  LET h == Select(s, c)
         IN  Good(h) /\ Works(s, h) /\ h.candidateInsts = s.candidateInsts
<1> DEFINE n == [t EXCEPT !.isScheduled = TRUE]
           j == ChangeToken(s, t.app, n)
           x == [app |-> c.app, inst |-> c.inst]
           h == Select(s, c)
<1> SUFFICES Good(h) /\ Works(s, h) /\ h.candidateInsts = s.candidateInsts
  OBVIOUS
<1>1. s \in SchedRecord /\ TokenOf(s, c.app) = t /\ t \in Token
  BY TokenOfIs DEF Good, SchedRecord
<1>2. CASE t.isScheduled \/ c.inst.rb > s.maxRB \/ c.inst.cu > s.maxCU
  BY <1>1, <1>2, WorksReflexive DEF Select
<1>3. CASE ~(t.isScheduled \/ c.inst.rb > s.maxRB \/ c.inst.cu > s.maxCU)
  <2>1. h = [j EXCEPT !.finalSchedule = @ \cup {x}, !.maxRB = @ - c.inst.rb,
                      !.maxCU = @ - c.inst.cu]
    BY <1>1, <1>3 DEF Select
  <2>2. n \in Token /\ Worked(t, n) /\ n.isScheduled
    BY <1>1 DEF Token, Worked
  <2>3. /\ Good(j) /\ Works(s, j)
        /\ j = [s EXCEPT !.pv2Tokens = (s.pv2Tokens \ {t}) \cup {n}]
    <3> HIDE DEF n
    <3> QED BY <2>2, ChangeTokenGood
  <2> HIDE DEF j
  <2>4. j \in SchedRecord /\ j.finalSchedule = s.finalSchedule /\ j.maxRB = s.maxRB
        /\ j.maxCU = s.maxCU /\ j.candidateInsts = s.candidateInsts
        /\ j.pv2Tokens = (s.pv2Tokens \ {t}) \cup {n}
    BY <1>1, <2>3 DEF Good, SchedRecord
  <2>5. x \in Candidate /\ x.app = t.app /\ x.inst = c.inst
    BY DEF Candidate
  <2>6. \A y \in s.finalSchedule : y.app # t.app
    BY <1>3 DEF Good, Feasible
  <2>7. c.inst.rb \in Nat /\ c.inst.cu \in Nat /\ s.maxRB \in Nat /\ s.maxCU \in Nat
        /\ c.inst.rb <= s.maxRB /\ c.inst.cu <= s.maxCU /\ Bands \in Nat /\ Units \in Nat
    <3>1. c.inst \in Inst
      BY DEF Candidate
    <3>2. c.inst.rb \in Nat /\ c.inst.cu \in Nat
      BY <3>1, InstNumbers
    <3>3. s.maxRB \in Nat /\ s.maxCU \in Nat
      BY <1>1 DEF SchedRecord
    <3> QED BY <1>3, <3>2, <3>3, DistSchedulingAssumption
  <2> HIDE DEF x, n
  <2>8. s.maxRB - c.inst.rb \in Nat /\ s.maxCU - c.inst.cu \in Nat
    BY <2>7
  <2>9. h \in SchedRecord /\ h.finalSchedule = s.finalSchedule \cup {x}
        /\ h.maxRB = s.maxRB - c.inst.rb /\ h.maxCU = s.maxCU - c.inst.cu
        /\ h.pv2Tokens = j.pv2Tokens /\ h.candidateInsts = s.candidateInsts
    <3>1. s.finalSchedule \cup {x} \in SUBSET Candidate
      BY <1>1, <2>5 DEF SchedRecord
    <3> HIDE DEF h
    <3> QED BY <2>1, <2>4, <2>8, <3>1 DEF SchedRecord
  <2>10. Works(s, h)
    <3>1. Carried(s.pv2Tokens, h.pv2Tokens)
      BY <2>3, <2>9 DEF Works
    <3>2. /\ h.pvCounter = s.pvCounter /\ h.pendingApps = s.pendingApps /\ h.insts = s.insts
          /\ h.distStage = s.distStage /\ h.targetPV = s.targetPV
          /\ h.targetCategory = s.targetCategory /\ h.started = s.started
          /\ h.instGenTimer = s.instGenTimer /\ h.out = s.out
      <4> HIDE DEF h
      <4> QED BY <1>1, <2>1, <2>3, <2>4 DEF SchedRecord
    <3>3. x.app = t.app /\ ~t.isScheduled
      BY <1>3, <2>5
    <3> HIDE DEF h
    <3> QED BY <2>9, <3>1, <3>2, <3>3 DEF Works
  <2> HIDE DEF h
  <2>11. Feasible(h)
    <3>1. s.finalSchedule \subseteq Candidate /\ IsFiniteSet(s.finalSchedule)
          /\ Rbs(s.finalSchedule) + s.maxRB <= Bands /\ Cus(s.finalSchedule) + s.maxCU <= Units
      BY <1>1 DEF SchedRecord, Good, Feasible
    <3>2. x \notin s.finalSchedule
      BY <2>5, <2>6
    <3>3. /\ Rbs(s.finalSchedule) \in Nat
          /\ Rbs(s.finalSchedule \cup {x}) = Rbs(s.finalSchedule) + c.inst.rb
          /\ Cus(s.finalSchedule) \in Nat
          /\ Cus(s.finalSchedule \cup {x}) = Cus(s.finalSchedule) + c.inst.cu
      BY <2>5, <3>1, <3>2, SumsOfMore
    <3>4. IsFiniteSet(h.finalSchedule)
      BY <2>9, <3>1, FS_AddElement, SMTT(60)
    <3>5. Rbs(h.finalSchedule) + h.maxRB <= Bands /\ Cus(h.finalSchedule) + h.maxCU <= Units
      BY <2>7, <2>9, <3>1, <3>3
    <3>6. \A y, z \in h.finalSchedule : y.app = z.app => y = z
      BY <2>5, <2>6, <2>9 DEF Good, Feasible
    <3>7. \A y \in h.finalSchedule : \A v \in h.pv2Tokens : v.app = y.app => v.isScheduled
      <4>1. \A v \in h.pv2Tokens : v.app = t.app => v = n
        <5>1. \A v \in s.pv2Tokens : v.app = t.app => v = t
          BY DEF Good, OnePerApp
        <5> QED BY <2>4, <2>9, <5>1
      <4>2. n.isScheduled
        BY <2>2
      <4>3. \A y \in s.finalSchedule : \A v \in h.pv2Tokens : v.app = y.app => v.isScheduled
        BY <2>3, <2>4, <2>9 DEF Good, Feasible
      <4> QED BY <2>5, <2>9, <4>1, <4>2, <4>3
    <3> QED BY <3>4, <3>5, <3>6, <3>7 DEF Feasible
  <2>12. Good(h)
    BY <2>3, <2>9, <2>11 DEF Good
  <2> QED BY <2>9, <2>10, <2>12
<1> HIDE DEF h
<1> QED BY <1>2, <1>3

\* the instances of one application
LEMMA SelectCandidatesOfGood ==
  ASSUME NEW s, Good(s), NEW t \in s.pv2Tokens, NEW A, t.app \in A
  PROVE  LET h == SelectCandidatesOf(s, t.app)
         IN  Good(h) /\ Works(s, h) /\ Pushes(s, h, A)
<1> DEFINE a == t.app
           h == SelectCandidatesOf(s, a)
           q == [k \in DOMAIN s.insts[a] |-> k]
           Ok == {u \in SchedRecord : Good(u) /\ Works(s, u) /\ Pushes(s, u, A)}
<1> SUFFICES Good(h) /\ Works(s, h) /\ Pushes(s, h, A)
  OBVIOUS
<1>1. s \in SchedRecord /\ TokenOf(s, a) = t /\ t \in Token /\ a \in Apps
  BY TokenOfIs DEF Good, SchedRecord, Token
<1>2. s.candidateInsts \in Seq(Candidate) /\ s.insts[a] \in Seq(Inst)
  BY <1>1 DEF SchedRecord
<1>3. CASE s.insts[a] = <<>>
  <2> DEFINE n == [t EXCEPT !.utilReduction = 0]
  <2>1. h = ChangeToken(s, a, n)
    BY <1>1, <1>3 DEF SelectCandidatesOf
  <2>2. n \in Token /\ Worked(t, n)
    BY <1>1 DEF Token, Worked
  <2> HIDE DEF n, h
  <2>3. /\ Good(h) /\ Works(s, h)
        /\ h = [s EXCEPT !.pv2Tokens = (s.pv2Tokens \ {t}) \cup {n}]
    BY <2>1, <2>2, ChangeTokenGood
  <2>4. h.candidateInsts = s.candidateInsts
    BY <1>1, <2>3 DEF SchedRecord
  <2> QED BY <1>2, <2>3, <2>4 DEF Pushes
<1>4. CASE s.insts[a] # <<>>
  <2>1. h = ConsiderAll(s, a, q)
    BY <1>4 DEF SelectCandidatesOf, ConsiderAll
  <2>2. q \in Seq(Nat) /\ DOMAIN q = DOMAIN s.insts[a] /\ \A k \in DOMAIN q : q[k] = k
    BY <1>2
  <2>3. s \in Ok
    <3>1. Pushes(s, s, A)
      BY <1>2 DEF Pushes
    <3> QED BY <1>1, <3>1, WorksReflexive
  <2>4. \A u \in Ok : \A k \in DOMAIN q : Consider(u, a, q[k]) \in Ok
    <3> SUFFICES ASSUME NEW u \in Ok, NEW k \in DOMAIN q PROVE Consider(u, a, k) \in Ok
      BY <2>2
    <3> DEFINE g == Consider(u, a, k)
    <3>1. Good(u) /\ Works(s, u) /\ Pushes(s, u, A) /\ u \in SchedRecord
      OBVIOUS
    <3>2. PICK v \in u.pv2Tokens : Worked(t, v)
      BY <3>1 DEF Works, Carried
    <3>3. v.app = a /\ k \in DOMAIN u.insts[a]
      BY <2>2, <3>1, <3>2 DEF Worked, Works
    <3> HIDE DEF g, Ok, q
    <3>4. Good(g) /\ Works(u, g) /\ Pushes(u, g, A)
      <4>1. k \in DOMAIN u.insts[v.app] /\ v.app \in A /\ g = Consider(u, v.app, k)
        BY <3>3 DEF g
      <4> HIDE DEF a
      <4> QED BY <3>1, <4>1, ConsiderGood
    <3>5. g \in SchedRecord
      BY <3>4 DEF Good
    <3>6. Works(s, g)
      BY <3>1, <3>4, WorksTransitive DEF Good
    <3>7. Pushes(s, g, A)
      BY <1>1, <3>1, <3>4, <3>5, PushesTransitive DEF Works
    <3> QED BY <3>4, <3>5, <3>6, <3>7 DEF Ok, g
  <2>5. h \in Ok
    <3> HIDE DEF Ok, q, h
    <3> QED BY <2>1, <2>2, <2>3, <2>4, ConsidersInside
  <2> HIDE DEF h
  <2> QED BY <2>5
<1> HIDE DEF h
<1> QED BY <1>3, <1>4

\* the function of the walk over the applications of a batch
SelectionWalk(f, s, apps, n) ==
    f = [a \in 0 .. n |-> IF a = 0 THEN s
                          ELSE IF a \in apps THEN SelectCandidatesOf(f[a - 1], a)
                          ELSE f[a - 1]]

\* it exists
LEMMA SelectionWalkExists ==
  ASSUME NEW s, NEW apps
  PROVE  \A n \in Nat : \E f : SelectionWalk(f, s, apps, n)
<1> DEFINE Bad == {n \in Nat : ~\E f : SelectionWalk(f, s, apps, n)}
<1> SUFFICES ASSUME Bad # {} PROVE FALSE
  OBVIOUS
<1>1. PICK n \in Bad : \A k \in Bad : n <= k
  <2>1. Bad \subseteq Nat
    OBVIOUS
  <2> HIDE DEF Bad
  <2> QED BY <2>1, LeastNatural
<1>2. CASE n = 0
  <2>1. SelectionWalk([a \in 0 .. 0 |-> s], s, apps, 0)
    BY DEF SelectionWalk
  <2> QED BY <2>1, <1>1, <1>2
<1>3. CASE n # 0
  <2>1. n - 1 \in Nat /\ n - 1 \notin Bad
    BY <1>1, <1>3
  <2>2. PICK f : SelectionWalk(f, s, apps, n - 1)
    BY <2>1
  <2> DEFINE last == IF n \in apps THEN SelectCandidatesOf(f[n - 1], n) ELSE f[n - 1]
             g    == [a \in 0 .. n |-> IF a = n THEN last ELSE f[a]]
  <2>3. ASSUME NEW a \in 0 .. n
        PROVE  g[a] = IF a = 0 THEN s
                      ELSE IF a \in apps THEN SelectCandidatesOf(g[a - 1], a) ELSE g[a - 1]
    <3>1. CASE a = n
      BY <3>1, <2>1, <1>3
    <3>2. CASE a # n
      BY <3>2, <2>1, <1>3, <2>2 DEF SelectionWalk
    <3> QED BY <3>1, <3>2
  <2>4. SelectionWalk(g, s, apps, n)
    BY <2>3 DEF SelectionWalk
  <2> QED BY <2>4, <1>1
<1> QED BY <1>2, <1>3

\* the candidates of a batch
LEMMA CandidateSelectionGood ==
  ASSUME NEW s, Good(s), NEW apps, apps \subseteq {t.app : t \in s.pv2Tokens}
  PROVE  LET h == CandidateSelection(s, apps)
         IN  Good(h) /\ Works(s, h) /\ Pushes(s, h, apps)
<1> DEFINE after[a \in 0 .. NumApps] ==
             IF a = 0 THEN s
             ELSE IF a \in apps THEN SelectCandidatesOf(after[a - 1], a) ELSE after[a - 1]
           Fine(u) == Good(u) /\ Works(s, u) /\ Pushes(s, u, apps)
           Done == {i \in 0 .. NumApps : Fine(after[i])}
<1>0. NumApps \in Nat
  BY MecTypesAssumption
<1>1. PICK f : SelectionWalk(f, s, apps, NumApps)
  <2> HIDE DEF after
  <2> QED BY <1>0, SelectionWalkExists
<1>2. SelectionWalk(after, s, apps, NumApps)
  BY <1>1 DEF SelectionWalk
<1>3. CandidateSelection(s, apps) = after[NumApps]
  BY DEF CandidateSelection
<1> HIDE DEF after
<1>4. 0 \in Done
  <2>1. after[0] = s
    BY <1>0, <1>2 DEF SelectionWalk
  <2>2. s.candidateInsts \in Seq(Candidate)
    BY DEF Good, SchedRecord
  <2>3. Pushes(s, s, apps)
    BY <2>2 DEF Pushes
  <2> QED BY <1>0, <2>1, <2>3, WorksReflexive
<1>5. ASSUME NEW i \in 0 .. NumApps, i # NumApps, i \in Done
      PROVE  i + 1 \in Done
  <2> DEFINE u == after[i]
             g == SelectCandidatesOf(u, i + 1)
  <2>1. i + 1 \in 0 .. NumApps /\ i + 1 # 0 /\ (i + 1) - 1 = i
    BY <1>0, <1>5
  <2>2. after[i + 1] = IF i + 1 \in apps THEN g ELSE u
    BY <1>2, <2>1 DEF SelectionWalk
  <2>3. Fine(u)
    BY <1>5
  <2> HIDE DEF u, g
  <2>4. CASE i + 1 \in apps
    <3>1. PICK t \in s.pv2Tokens : t.app = i + 1
      BY <2>4
    <3>2. PICK v \in u.pv2Tokens : Worked(t, v)
      BY <2>3 DEF Works, Carried
    <3>3. v.app = i + 1
      BY <3>1, <3>2 DEF Worked
    <3>4. Good(g) /\ Works(u, g) /\ Pushes(u, g, apps)
      <4>1. g = SelectCandidatesOf(u, v.app) /\ v.app \in apps
        BY <2>4, <3>3 DEF g
      <4> QED BY <2>3, <4>1, SelectCandidatesOfGood
    <3>5. Works(s, g)
      BY <2>3, <3>4, WorksTransitive DEF Good
    <3>6. Pushes(s, g, apps)
      BY <2>3, <3>4, PushesTransitive DEF Good, Works
    <3> QED BY <2>1, <2>2, <2>4, <3>4, <3>5, <3>6
  <2> QED BY <2>1, <2>2, <2>3, <2>4
<1>6. NumApps \in Done
  <2>1. \A i \in 0 .. NumApps : i # NumApps /\ i \in Done => i + 1 \in Done
    BY <1>5
  <2>2. NumApps \in 0 .. NumApps
    BY <1>0
  <2> HIDE DEF Done
  <2> QED BY <1>0, <1>4, <2>1, <2>2, UpTo
<1> QED BY <1>3, <1>6

\* a part of a sequence
LEMMA PartOfSequence ==
  ASSUME NEW S, NEW q \in Seq(S), NEW m \in 1 .. Len(q) + 1, NEW n \in 0 .. Len(q), m <= n + 1
  PROVE  /\ SubSeq(q, m, n) \in Seq(S) /\ Len(SubSeq(q, m, n)) = n + 1 - m
         /\ \A i \in 1 .. n + 1 - m : SubSeq(q, m, n)[i] = q[i + m - 1]
BY SMTT(60)

\* h keeps a first part of the candidates of s; what it does not keep is of the
\* category in turn and of applications of the batch, and it keeps no more than it must
Pops(s, h, apps) ==
    \E n \in 0 .. Len(s.candidateInsts) :
        LET Kept(i) == \/ Category(s.candidateInsts[i].inst) # s.targetCategory
                       \/ s.candidateInsts[i].app \notin apps
        IN  /\ h.candidateInsts = SubSeq(s.candidateInsts, 1, n)
            /\ \A i \in n + 1 .. Len(s.candidateInsts) : ~Kept(i)
            /\ n # 0 => Kept(n)

\* the candidates that SolutionSelection pops, and the scheduler without them
BatchIs(s, apps, keep, r, batch) ==
    LET q       == s.candidateInsts
        Kept(i) == Category(q[i].inst) # s.targetCategory \/ q[i].app \notin apps
    IN  /\ keep \in 0 .. Len(q)
        /\ r = [s EXCEPT !.candidateInsts = SubSeq(q, 1, keep)]
        /\ SolutionSelection(s, apps) = SelectAll(batch, r)
        /\ SubSeq(q, 1, keep) \in Seq(Candidate)
        /\ batch \in Seq(Candidate) /\ Len(batch) = Len(q) - keep
        /\ \A i \in 1 .. Len(q) - keep :
              /\ batch[i] = q[i + keep] /\ batch[i] \in Candidate /\ batch[i].app \in apps
              /\ Category(batch[i].inst) = s.targetCategory
        /\ keep # 0 => Kept(keep)
        /\ \A i \in keep + 1 .. Len(q) : ~Kept(i)

\* they are the last ones
LEMMA BatchAtEnd ==
  ASSUME NEW s \in SchedRecord, NEW apps
  PROVE  \E keep, r, batch : BatchIs(s, apps, keep, r, batch)
<1> DEFINE q       == s.candidateInsts
           Kept(k) == Category(q[k].inst) # s.targetCategory \/ q[k].app \notin apps
           others  == {k \in DOMAIN q : Kept(k)}
           keep    == IF others = {} THEN 0 ELSE Max(others)
           batch   == SubSeq(q, keep + 1, Len(q))
           r       == [s EXCEPT !.candidateInsts = SubSeq(q, 1, keep)]
           h       == SolutionSelection(s, apps)
<1>1. s \in SchedRecord /\ q \in Seq(Candidate) /\ DOMAIN q = 1 .. Len(q) /\ Len(q) \in Nat
  BY DEF SchedRecord
<1>2. /\ keep \in 0 .. Len(q)
      /\ keep # 0 => Kept(keep)
      /\ \A i \in keep + 1 .. Len(q) : ~Kept(i)
  <2>1. CASE others = {}
    <3>1. keep = 0
      BY <2>1
    <3>2. \A i \in 1 .. Len(q) : ~Kept(i)
      BY <1>1, <2>1, SMTT(60)
    <3> HIDE DEF keep, Kept
    <3> QED BY <1>1, <3>1, <3>2
  <2>2. CASE others # {}
    <3>1. others \subseteq Nat /\ IsFiniteSet(others) /\ others \subseteq 1 .. Len(q)
      <4>1. others \subseteq 1 .. Len(q) /\ 1 .. Len(q) \subseteq Nat
        BY <1>1
      <4>2. IsFiniteSet(1 .. Len(q))
        <5> HIDE DEF q, others
        <5> QED BY <1>1, FS_Interval
      <4> HIDE DEF others
      <4> QED BY <4>1, <4>2, FS_Subset
    <3>2. \E x \in others : \A y \in others : x >= y
      <4> HIDE DEF others
      <4> QED BY <2>2, <3>1, GreatestNatural
    <3>3. keep \in others /\ \A y \in others : keep >= y
      <4>1. keep = Max(others)
        BY <2>2
      <4> HIDE DEF others, keep
      <4> QED BY <3>2, <4>1 DEF Max
    <3>4. Kept(keep)
      BY <3>3
    <3>5. ASSUME NEW i \in keep + 1 .. Len(q) PROVE ~Kept(i)
      <4>1. i \notin others /\ i \in 1 .. Len(q)
        <5> HIDE DEF others, keep, q
        <5> QED BY <1>1, <3>1, <3>3
      <4> HIDE DEF keep
      <4> QED BY <1>1, <4>1
    <3>6. keep \in 0 .. Len(q)
      <4> HIDE DEF others, keep, q
      <4> QED BY <1>1, <3>1, <3>3
    <3> QED BY <3>4, <3>5, <3>6, Zenon
  <2> QED BY <2>1, <2>2
<1>3. h = SelectAll(batch, r)
  BY DEF SolutionSelection, SelectAll
<1> HIDE DEF keep, others, h
<1>4. /\ SubSeq(q, 1, keep) \in Seq(Candidate)
      /\ batch \in Seq(Candidate) /\ DOMAIN batch = 1 .. Len(q) - keep
      /\ Len(batch) = Len(q) - keep
      /\ \A i \in DOMAIN batch : i + keep \in keep + 1 .. Len(q) /\ batch[i] = q[i + keep]
  <2>1. keep + 1 \in 1 .. Len(q) + 1 /\ Len(q) \in 0 .. Len(q) /\ keep + 1 <= Len(q) + 1
        /\ 1 \in 1 .. Len(q) + 1 /\ 1 <= keep + 1 /\ Len(q) \in Int /\ keep \in Int
    <3> HIDE DEF q
    <3> QED BY <1>1, <1>2
  <2>2. SubSeq(q, 1, keep) \in Seq(Candidate)
    <3> HIDE DEF q
    <3> QED BY <1>1, <1>2, <2>1, PartOfSequence
  <2>3. /\ batch \in Seq(Candidate) /\ Len(batch) = Len(q) + 1 - (keep + 1)
        /\ \A i \in 1 .. Len(q) + 1 - (keep + 1) : batch[i] = q[i + (keep + 1) - 1]
    <3> HIDE DEF q
    <3> QED BY <1>1, <1>2, <2>1, PartOfSequence
  <2> HIDE DEF q, batch
  <2>4. DOMAIN batch = 1 .. Len(q) - keep /\ Len(batch) = Len(q) - keep
    BY <2>1, <2>3
  <2>5. ASSUME NEW i \in 1 .. Len(q) - keep
        PROVE  i + keep \in keep + 1 .. Len(q) /\ batch[i] = q[i + keep]
    <3>1. i \in Int /\ Len(q) + 1 - (keep + 1) = Len(q) - keep /\ i + (keep + 1) - 1 = i + keep
      BY <2>1
    <3>2. batch[i] = q[i + keep]
      BY <2>3, <3>1
    <3> QED BY <2>1, <3>1, <3>2
  <2> QED BY <2>2, <2>3, <2>4, <2>5
<1>5. \A i \in 1 .. Len(q) - keep :
         /\ batch[i] = q[i + keep] /\ batch[i] \in Candidate /\ batch[i].app \in apps
         /\ Category(batch[i].inst) = s.targetCategory
  <2> SUFFICES ASSUME NEW i \in 1 .. Len(q) - keep
               PROVE  /\ batch[i] = q[i + keep] /\ batch[i] \in Candidate /\ batch[i].app \in apps
                      /\ Category(batch[i].inst) = s.targetCategory
    OBVIOUS
  <2>1. ~Kept(i + keep) /\ batch[i] = q[i + keep]
    <3> HIDE DEF Kept, batch, q
    <3> QED BY <1>2, <1>4
  <2>2. batch[i] \in Candidate
    <3> HIDE DEF batch
    <3> QED BY <1>4
  <2> QED BY <2>1, <2>2
<1>7. r = [s EXCEPT !.candidateInsts = SubSeq(q, 1, keep)]
  OBVIOUS
<1>8. BatchIs(s, apps, keep, r, batch)
  <2> HIDE DEF r, batch
  <2> QED BY <1>2, <1>3, <1>4, <1>5, <1>7 DEF BatchIs, h
<1> HIDE DEF r, batch
<1> QED BY <1>8

\* what a scheduler that pops candidates from r can be
Popping(r) == {u \in SchedRecord : /\ Good(u) /\ Works(r, u)
                                   /\ u.candidateInsts = r.candidateInsts}

\* the first part of the candidates changes nothing else
LEMMA FirstPartGood ==
  ASSUME NEW s, Good(s), NEW k, NEW r, r = [s EXCEPT !.candidateInsts = k], k \in Seq(Candidate)
  PROVE  /\ Good(r) /\ Works(s, r) /\ r \in Popping(r) /\ r.candidateInsts = k
         /\ r.pv2Tokens = s.pv2Tokens /\ r.finalSchedule = s.finalSchedule
         /\ r.maxRB = s.maxRB /\ r.maxCU = s.maxCU /\ r.reductionRsu = s.reductionRsu
<1>1. /\ r \in SchedRecord /\ r.candidateInsts = k
      /\ r.pv2Tokens = s.pv2Tokens /\ r.finalSchedule = s.finalSchedule
      /\ r.maxRB = s.maxRB /\ r.maxCU = s.maxCU /\ r.reductionRsu = s.reductionRsu
  BY DEF Good, SchedRecord
<1>2. Works(s, r)
  <2>1. Carried(s.pv2Tokens, r.pv2Tokens)
    BY <1>1, CarriedReflexive
  <2> QED BY <2>1 DEF Works, Good, SchedRecord
<1>3. Good(r)
  BY <1>1 DEF Good, Feasible
<1>4. r \in Popping(r)
  BY <1>1, <1>3, WorksReflexive DEF Popping
<1> QED BY <1>1, <1>2, <1>3, <1>4

\* Select pops
LEMMA SelectPops ==
  ASSUME NEW r, Good(r), NEW u \in Popping(r), NEW c \in Candidate,
         c.app \in {t.app : t \in r.pv2Tokens}
  PROVE  Select(u, c) \in Popping(r)
<1> DEFINE g == Select(u, c)
<1>1. Good(u) /\ Works(r, u) /\ u.candidateInsts = r.candidateInsts
  BY DEF Popping
<1>2. PICK t \in r.pv2Tokens : t.app = c.app
  OBVIOUS
<1>3. PICK v \in u.pv2Tokens : Worked(t, v)
  BY <1>1, <1>2 DEF Works, Carried
<1>4. c.app = v.app
  BY <1>2, <1>3 DEF Worked
<1>5. Good(g) /\ Works(u, g) /\ g.candidateInsts = u.candidateInsts
  BY <1>1, <1>4, SelectGood
<1> HIDE DEF g
<1>6. Works(r, g)
  BY <1>1, <1>5, WorksTransitive DEF Good
<1> QED BY <1>1, <1>5, <1>6 DEF Good, g, Popping

\* the solutions of a batch
LEMMA SolutionSelectionGood ==
  ASSUME NEW s, Good(s), NEW apps, apps \subseteq {t.app : t \in s.pv2Tokens}
  PROVE  LET h == SolutionSelection(s, apps)
         IN  Good(h) /\ Works(s, h) /\ Pops(s, h, apps)
<1> DEFINE h == SolutionSelection(s, apps)
           q == s.candidateInsts
<1>1. PICK keep, r, batch : BatchIs(s, apps, keep, r, batch)
  BY BatchAtEnd DEF Good
<1> HIDE DEF q, h
<1>2. /\ keep \in 0 .. Len(q) /\ SubSeq(q, 1, keep) \in Seq(Candidate)
      /\ r = [s EXCEPT !.candidateInsts = SubSeq(q, 1, keep)] /\ h = SelectAll(batch, r)
      /\ batch \in Seq(Candidate)
      /\ \A i \in DOMAIN batch : batch[i] \in Candidate /\ batch[i].app \in apps
  <2>1. DOMAIN batch = 1 .. Len(q) - keep
    BY <1>1 DEF BatchIs, q
  <2>2. \A i \in 1 .. Len(q) - keep : batch[i] \in Candidate /\ batch[i].app \in apps
    BY <1>1 DEF BatchIs, q
  <2> QED BY <1>1, <2>1, <2>2 DEF BatchIs, q, h
<1>3. /\ Good(r) /\ Works(s, r) /\ r \in Popping(r) /\ r.pv2Tokens = s.pv2Tokens
      /\ r.candidateInsts = SubSeq(q, 1, keep)
  <2> DEFINE k == SubSeq(q, 1, keep)
  <2>1. k \in Seq(Candidate) /\ r = [s EXCEPT !.candidateInsts = k]
    BY <1>2
  <2> HIDE DEF k
  <2>2. /\ Good(r) /\ Works(s, r) /\ r \in Popping(r) /\ r.pv2Tokens = s.pv2Tokens
        /\ r.candidateInsts = k
    BY <2>1, FirstPartGood
  <2> QED BY <2>2 DEF k
<1>4. \A u \in Popping(r) : \A k \in DOMAIN batch : Select(u, batch[k]) \in Popping(r)
  BY <1>2, <1>3, SelectPops
<1>5. h \in Popping(r)
  BY <1>2, <1>3, <1>4, SelectsInside
<1>6. Good(h) /\ Works(r, h) /\ h.candidateInsts = SubSeq(q, 1, keep)
  BY <1>3, <1>5 DEF Popping
<1>7. Works(s, h)
  BY <1>3, <1>6, WorksTransitive DEF Good
<1>8. Pops(s, h, apps)
  BY <1>1, <1>6 DEF Pops, BatchIs, q
<1> QED BY <1>6, <1>7, <1>8 DEF h

-----------------------------------------------------------------------------
(* The inductive invariant.                                                 *)
(*                                                                          *)
(* Its parts take what they are about as parameters, because a handler goes *)
(* through states between its steps: A for air, S for sched, R for pv2Rsu.  *)

Reach(R, a) == R[UeOf[a]]

\* token t is with gNB w, or on its way to w (NoGnb: to its vehicle)
Located(A, S, w, t) ==
    \/ [to |-> w, token |-> t] \in A
    \/ w \in Gnbs /\ t \in S[w].pv2Tokens

Typed(A, S, R) ==
    /\ A \subseteq [to : Gnbs \cup {NoGnb}, token : Token]
    /\ S \in [Gnbs -> SchedRecord]
    /\ R \in [Ues -> Orders \cup {<<>>}]

\* an application has at most one token
OneToken(A, S) ==
    /\ \A w, v \in Gnbs \cup {NoGnb} : \A t, u \in Token :
          Located(A, S, w, t) /\ Located(A, S, v, u) /\ t.app = u.app => w = v /\ t = u
    /\ \A g \in Gnbs : \A t \in S[g].pv2Tokens : [to |-> g, token |-> t] \notin A

\* the token of a scheduled application remembers it, and no two gNBs schedule the same
Remembered(A, S) ==
    /\ \A g \in Gnbs : \A x \in S[g].finalSchedule :
          \A w \in Gnbs \cup {NoGnb} : \A t \in Token :
              Located(A, S, w, t) /\ t.app = x.app => t.isScheduled
    /\ \A g, h \in Gnbs : g # h =>
          \A x \in S[g].finalSchedule, y \in S[h].finalSchedule : x.app # y.app

\* the four times a token goes through the gNBs, in their order
Phase(stage, category) ==
    IF stage = "CandiSel" THEN IF category = "LI" THEN 1 ELSE 2
    ELSE IF category = "HI" THEN 3 ELSE 4

\* the visit to number p in phase f comes before that to q in phase e
Before(f, p, e, q) == f < e \/ (f = e /\ IF f <= 2 THEN p < q ELSE p > q)

PhaseOf(s) == Phase(s.distStage, s.targetCategory)
TokenPhase(t) == Phase(t.stage, t.category)

\* token t, located at w, has made the visit to number p in phase f
Passed(w, t, f, p) ==
    Before(f, p, TokenPhase(t), t.pv) \/ (w = NoGnb /\ f = TokenPhase(t) /\ p = t.pv)

\* scheduler s has worked on the tokens of application a, of number p, in phase f
Beyond(s, a, f, p) == a \notin s.pendingApps \/ Before(f, p, PhaseOf(s), s.targetPV)

\* a token is on its route, and every gNB on it is as far as the token
OnRoute(R, w, t) ==
    /\ t.pv \in DOMAIN Reach(R, t.app)
    /\ w # NoGnb => Reach(R, t.app)[t.pv] = w
InStep(S, R, w, t) ==
    \A p \in DOMAIN Reach(R, t.app) : \A f \in 1 .. 4 :
        Passed(w, t, f, p) <=> Beyond(S[Reach(R, t.app)[p]], t.app, f, p)
TokensFine(A, S, R) ==
    \A w \in Gnbs \cup {NoGnb} : \A t \in Token :
        Located(A, S, w, t) => OnRoute(R, w, t) /\ InStep(S, R, w, t)

\* gNB g has number p for application a
HasNumber(R, g, a, p) == p \in DOMAIN Reach(R, a) /\ Reach(R, a)[p] = g
Announcers(R, g, s, p) == {a \in s.pendingApps : HasNumber(R, g, a, p)}
BatchApps(s) == {t.app : t \in Batch(s)}

\* the counters count the applications that announced a number
Counted(R, g, s) ==
    /\ \A a \in s.pendingApps : \E p \in PVs : HasNumber(R, g, a, p)
    /\ \A p \in PVs : s.pvCounter[p] = Cardinality(Announcers(R, g, s, p))
    /\ s.started => s.targetPV \in Announced(s)

\* between a batch and its end all tokens of its number are here
Batches(R, g, s) ==
    /\ s.postBatch => /\ s.started /\ s.batchOngoing
                      /\ BatchApps(s) = Announcers(R, g, s, s.targetPV)
    /\ s.instGenTimer => s.started /\ s.batchOngoing /\ ~s.postBatch

Rank(category) == IF category = "LI" THEN 1 ELSE 2
RankOf(c) == Rank(Category(c.inst))

\* the candidates are in the order of their categories and numbers, none is beyond the
\* batch in turn, and in the second half that batch has left none
Ordered(R, g, s) ==
    LET q == s.candidateInsts
    IN  /\ ~s.started => q = <<>>
        /\ \A i \in DOMAIN q : q[i].app \in s.pendingApps
        /\ \A i, j \in DOMAIN q : \A m, n \in PVs :
              i < j /\ HasNumber(R, g, q[i].app, m) /\ HasNumber(R, g, q[j].app, n)
              => RankOf(q[i]) < RankOf(q[j]) \/ (RankOf(q[i]) = RankOf(q[j]) /\ m <= n)
        /\ \A i \in DOMAIN q : \A m \in PVs :
              HasNumber(R, g, q[i].app, m)
              => \/ RankOf(q[i]) < Rank(s.targetCategory)
                 \/ /\ RankOf(q[i]) = Rank(s.targetCategory)
                    /\ \/ m < s.targetPV
                       \/ m = s.targetPV /\ (s.distStage = "CandiSel" <=> s.postBatch)

SchedFine(R, g, s) ==
    Good(s) /\ Counted(R, g, s) /\ Batches(R, g, s) /\ Ordered(R, g, s)

\* what holds of the handlers' intermediate states too
Core(A, S, R) ==
    /\ Typed(A, S, R) /\ OneToken(A, S) /\ Remembered(A, S) /\ TokensFine(A, S, R)
    /\ \A g \in Gnbs : SchedFine(R, g, S[g])

\* between two periods nothing is scheduled and every token waits for the start
Quiet(A, S, R, ready) ==
    /\ \A g \in Gnbs : /\ S[g].finalSchedule = {}
                       /\ ~S[g].started /\ ~S[g].postBatch /\ ~S[g].instGenTimer
                       /\ PhaseOf(S[g]) = 1 /\ S[g].targetPV = 1
    /\ \A w \in Gnbs \cup {NoGnb} : \A t \in Token :
          Located(A, S, w, t) => w # NoGnb /\ TokenPhase(t) = 1 /\ t.pv = 1
    /\ \A u \in ready : R[u] = <<>>

IInv ==
    /\ distTokens \subseteq Apps
    /\ distReady \subseteq Ues
    /\ period \in {"prepare", "schedule"}
    /\ Core(air, sched, pv2Rsu)
    /\ period = "prepare" => Quiet(air, sched, pv2Rsu, distReady)

-----------------------------------------------------------------------------
(* A batch.                                                                 *)

\* a batch works on the tokens of its number, and pushes or pops their candidates
LEMMA PerformBatchGood ==
  ASSUME NEW s, Good(s)
  PROVE  LET h == PerformBatchScheduling(s)
         IN  /\ Good(h) /\ Works(s, h) /\ h.postBatch /\ h.batchOngoing
             /\ s.distStage = "CandiSel" => Pushes(s, h, BatchApps(s))
             /\ s.distStage # "CandiSel" => Pops(s, h, BatchApps(s))
<1> DEFINE apps == {t.app : t \in Batch(s)}
           done == IF s.distStage = "CandiSel" THEN CandidateSelection(s, apps)
                   ELSE SolutionSelection(s, apps)
           h    == PerformBatchScheduling(s)
<1> SUFFICES /\ Good(h) /\ Works(s, h) /\ h.postBatch /\ h.batchOngoing
             /\ s.distStage = "CandiSel" => Pushes(s, h, apps)
             /\ s.distStage # "CandiSel" => Pops(s, h, apps)
  BY DEF BatchApps
<1>1. apps \subseteq {t.app : t \in s.pv2Tokens}
  BY DEF Batch
<1>2. h = [done EXCEPT !.batchOngoing = TRUE, !.postBatch = TRUE]
  BY Zenon DEF PerformBatchScheduling
<1> HIDE DEF apps, h
<1>3. /\ Good(done) /\ Works(s, done)
      /\ s.distStage = "CandiSel" => Pushes(s, done, apps)
      /\ s.distStage # "CandiSel" => Pops(s, done, apps)
  <2>1. CASE s.distStage = "CandiSel"
    <3>1. done = CandidateSelection(s, apps)
      BY <2>1
    <3> HIDE DEF done
    <3> QED BY <1>1, <2>1, <3>1, CandidateSelectionGood
  <2>2. CASE s.distStage # "CandiSel"
    <3>1. done = SolutionSelection(s, apps)
      BY <2>2
    <3> HIDE DEF done
    <3> QED BY <1>1, <2>2, <3>1, SolutionSelectionGood
  <2> QED BY <2>1, <2>2
<1> HIDE DEF done
<1>4. /\ h \in SchedRecord /\ h.batchOngoing = TRUE /\ h.postBatch = TRUE
      /\ h.pv2Tokens = done.pv2Tokens /\ h.finalSchedule = done.finalSchedule
      /\ h.maxRB = done.maxRB /\ h.maxCU = done.maxCU
      /\ h.candidateInsts = done.candidateInsts
      /\ h.pvCounter = done.pvCounter /\ h.pendingApps = done.pendingApps
      /\ h.insts = done.insts
      /\ h.distStage = done.distStage /\ h.targetPV = done.targetPV
      /\ h.targetCategory = done.targetCategory /\ h.started = done.started
      /\ h.instGenTimer = done.instGenTimer /\ h.out = done.out
  BY <1>2, <1>3 DEF Good, SchedRecord
<1>5. Good(h)
  BY <1>3, <1>4 DEF Good, Feasible
<1>6. Works(s, h)
  BY <1>3, <1>4 DEF Works
<1>7. Pushes(s, done, apps) => Pushes(s, h, apps)
  BY <1>4 DEF Pushes
<1>8. Pops(s, done, apps) => Pops(s, h, apps)
  BY <1>4 DEF Pops
<1> QED BY <1>3, <1>4, <1>5, <1>6, <1>7, <1>8

\* work changes no token's visit
LEMMA BatchWorked ==
  ASSUME NEW s, NEW h, Works(s, h)
  PROVE  BatchApps(h) = BatchApps(s)
<1>1. ASSUME NEW t \in Batch(s) PROVE \E v \in Batch(h) : v.app = t.app
  <2>1. PICK v \in h.pv2Tokens : Worked(t, v)
    BY DEF Batch, Works, Carried
  <2> QED BY <2>1 DEF Batch, Works, Worked
<1>2. ASSUME NEW v \in Batch(h) PROVE \E t \in Batch(s) : v.app = t.app
  <2>1. PICK t \in s.pv2Tokens : Worked(t, v)
    BY DEF Batch, Works, Carried
  <2> QED BY <2>1 DEF Batch, Works, Worked
<1> QED BY <1>1, <1>2 DEF BatchApps

\* a gNB has one number for an application
LEMMA OneNumber ==
  ASSUME NEW R, R \in [Ues -> Orders \cup {<<>>}], NEW a \in Apps, NEW g
  PROVE  /\ Reach(R, a) \in Orders \cup {<<>>}
         /\ DOMAIN Reach(R, a) \subseteq PVs
         /\ \A p \in DOMAIN Reach(R, a) : Reach(R, a)[p] \in Gnbs
         /\ \A p, q : HasNumber(R, g, a, p) /\ HasNumber(R, g, a, q) => p = q
<1> DEFINE o == Reach(R, a)
<1>1. o \in Orders \cup {<<>>}
  BY MecTypesAssumption DEF Reach
<1>2. CASE o = <<>>
  BY <1>1, <1>2 DEF HasNumber
<1>3. CASE o \in Orders
  <2>1. PICK n \in PVs : o \in [1 .. n -> Gnbs]
    BY <1>3 DEF Orders
  <2>2. \A p, q \in DOMAIN o : o[p] = o[q] => p = q
    BY <1>3 DEF Orders, IsInjective
  <2>3. Cardinality(Gnbs) \in Nat
    BY DistSchedulingAssumption, FS_CardinalityType
  <2>4. DOMAIN o \subseteq PVs
    <3> HIDE DEF o
    <3> QED BY <2>1, <2>3 DEF PVs
  <2> QED BY <1>1, <2>1, <2>2, <2>4 DEF HasNumber
<1> QED BY <1>1, <1>2, <1>3

\* the candidates stay in order when a batch pushes its own
LEMMA PushedOrdered ==
  ASSUME NEW R, R \in [Ues -> Orders \cup {<<>>}], NEW g, NEW s, NEW h,
         s \in SchedRecord, h \in SchedRecord, Ordered(R, g, s),
         s.started, ~s.postBatch, s.distStage = "CandiSel",
         Works(s, h), h.postBatch, Pushes(s, h, Announcers(R, g, s, s.targetPV))
  PROVE  Ordered(R, g, h)
<1> DEFINE q   == s.candidateInsts
           r   == h.candidateInsts
           rk  == Rank(s.targetCategory)
           tp  == s.targetPV
<1>1. /\ q \in Seq(Candidate) /\ r \in Seq(Candidate) /\ Len(q) \in Nat /\ Len(r) \in Nat
      /\ DOMAIN q = 1 .. Len(q) /\ DOMAIN r = 1 .. Len(r) /\ Len(q) <= Len(r)
  BY DEF SchedRecord, Pushes
<1>2. /\ h.started /\ h.pendingApps = s.pendingApps /\ h.distStage = s.distStage
      /\ h.targetCategory = s.targetCategory /\ h.targetPV = s.targetPV
  BY DEF Works
<1>3. \A p \in PVs : p \in Int
  BY DEF PVs
<1>4. tp \in PVs /\ rk \in Int /\ \A i \in DOMAIN r : RankOf(r[i]) \in Int
  BY DEF SchedRecord, Rank, RankOf
<1>5. ASSUME NEW i \in DOMAIN r, i <= Len(q)
      PROVE  /\ i \in DOMAIN q /\ r[i] = q[i] /\ r[i].app \in s.pendingApps
             /\ \A m \in PVs : HasNumber(R, g, r[i].app, m)
                   => RankOf(r[i]) < rk \/ (RankOf(r[i]) = rk /\ m < tp)
  <2>1. i \in DOMAIN q
    <3> HIDE DEF q, r
    <3> QED BY <1>1, <1>5
  <2>2. r[i] = q[i]
    BY <1>5 DEF Pushes
  <2>3. r[i].app \in s.pendingApps
    BY <2>1, <2>2 DEF Ordered
  <2>4. \A m \in PVs : HasNumber(R, g, r[i].app, m)
          => RankOf(r[i]) < rk \/ (RankOf(r[i]) = rk /\ m < tp)
    BY <2>1, <2>2 DEF Ordered
  <2> QED BY <2>1, <2>2, <2>3, <2>4
<1>6. ASSUME NEW i \in DOMAIN r, ~(i <= Len(q))
      PROVE  /\ r[i].app \in s.pendingApps /\ RankOf(r[i]) = rk
             /\ \A m \in PVs : HasNumber(R, g, r[i].app, m) => m = tp
  <2>1. r[i].app \in Announcers(R, g, s, tp) /\ Category(r[i].inst) = s.targetCategory
    BY <1>6 DEF Pushes
  <2>2. r[i].app \in s.pendingApps /\ HasNumber(R, g, r[i].app, tp)
    BY <2>1 DEF Announcers
  <2>3. r[i].app \in Apps
    BY <2>2 DEF SchedRecord
  <2>4. \A m \in PVs : HasNumber(R, g, r[i].app, m) => m = tp
    BY <2>2, <2>3, OneNumber
  <2> QED BY <2>1, <2>2, <2>4 DEF RankOf
<1> HIDE DEF q, r, rk, tp
<1>7. \A i \in DOMAIN r : r[i].app \in s.pendingApps
  BY <1>5, <1>6
<1>8. ASSUME NEW i \in DOMAIN r, NEW j \in DOMAIN r, NEW m \in PVs, NEW n \in PVs,
             i < j, HasNumber(R, g, r[i].app, m), HasNumber(R, g, r[j].app, n)
      PROVE  RankOf(r[i]) < RankOf(r[j]) \/ (RankOf(r[i]) = RankOf(r[j]) /\ m <= n)
  <2>1. i \in Int /\ j \in Int /\ (j <= Len(q) => i <= Len(q))
    BY <1>1, <1>8
  <2>2. CASE j <= Len(q)
    <3>1. i \in DOMAIN q /\ j \in DOMAIN q /\ r[i] = q[i] /\ r[j] = q[j]
      BY <1>5, <2>1, <2>2
    <3> QED BY <1>8, <3>1 DEF Ordered, q
  <2>3. CASE ~(j <= Len(q))
    <3>1. RankOf(r[j]) = rk /\ n = tp
      BY <1>6, <1>8, <2>3
    <3>2. CASE i <= Len(q)
      <4>1. RankOf(r[i]) < rk \/ (RankOf(r[i]) = rk /\ m < tp)
        BY <1>5, <1>8, <3>2
      <4> QED BY <1>3, <1>4, <3>1, <4>1
    <3>3. CASE ~(i <= Len(q))
      <4>1. RankOf(r[i]) = rk /\ m = tp
        BY <1>6, <1>8, <3>3
      <4> QED BY <1>3, <1>4, <3>1, <4>1
    <3> QED BY <3>2, <3>3
  <2> QED BY <2>2, <2>3
<1>9. ASSUME NEW i \in DOMAIN r, NEW m \in PVs, HasNumber(R, g, r[i].app, m)
      PROVE  \/ RankOf(r[i]) < rk
             \/ RankOf(r[i]) = rk /\ (m < tp \/ m = tp)
  BY <1>5, <1>6, <1>9
<1>10. h.distStage = "CandiSel" <=> h.postBatch
  BY <1>2
<1> QED BY <1>2, <1>7, <1>8, <1>9, <1>10 DEF Ordered, r, rk, tp

\* and when a batch pops its own, of which none is left
LEMMA PoppedOrdered ==
  ASSUME NEW R, R \in [Ues -> Orders \cup {<<>>}], NEW g, NEW s, NEW h,
         s \in SchedRecord, h \in SchedRecord, Counted(R, g, s), Ordered(R, g, s),
         s.started, ~s.postBatch, s.distStage # "CandiSel",
         Works(s, h), h.postBatch, Pops(s, h, Announcers(R, g, s, s.targetPV))
  PROVE  Ordered(R, g, h)
<1> DEFINE q   == s.candidateInsts
           r   == h.candidateInsts
           rk  == Rank(s.targetCategory)
           tp  == s.targetPV
           B   == Announcers(R, g, s, tp)
           Kept(i) == Category(q[i].inst) # s.targetCategory \/ q[i].app \notin B
<1>1. /\ q \in Seq(Candidate) /\ r \in Seq(Candidate) /\ Len(q) \in Nat
      /\ DOMAIN q = 1 .. Len(q)
  BY DEF SchedRecord
<1>2. /\ h.started /\ h.pendingApps = s.pendingApps /\ h.distStage = s.distStage
      /\ h.targetCategory = s.targetCategory /\ h.targetPV = s.targetPV
  BY DEF Works
<1>3. \A p \in PVs : p \in Int
  BY DEF PVs
<1>4. tp \in PVs /\ rk \in Int /\ \A i \in DOMAIN q : RankOf(q[i]) \in Int
  BY DEF SchedRecord, Rank, RankOf
<1>5. PICK z \in 0 .. Len(q) : r = SubSeq(q, 1, z) /\ (z # 0 => Kept(z))
  BY DEF Pops
<1> HIDE DEF Kept, r
<1>6. DOMAIN r = 1 .. z /\ \A i \in 1 .. z : i \in DOMAIN q /\ r[i] = q[i]
  <2>1. 1 \in 1 .. Len(q) + 1 /\ 1 <= z + 1 /\ z \in Int /\ z + 1 - 1 = z /\ z <= Len(q)
    <3> HIDE DEF q
    <3> QED BY <1>1, <1>5
  <2>2. /\ Len(r) = z /\ \A i \in 1 .. z : r[i] = q[i + 1 - 1]
    <3> HIDE DEF q
    <3> QED BY <1>1, <1>5, <2>1, PartOfSequence
  <2>3. DOMAIN r = 1 .. z
    BY <1>1, <2>2
  <2>4. ASSUME NEW i \in 1 .. z PROVE i \in DOMAIN q /\ r[i] = q[i]
    <3>1. i + 1 - 1 = i /\ i \in 1 .. Len(q)
      <4> HIDE DEF q
      <4> QED BY <1>1, <2>1
    <3> QED BY <1>1, <2>2, <3>1
  <2> QED BY <2>3, <2>4
<1>7. \A i \in DOMAIN q : q[i].app \in s.pendingApps /\ q[i] \in Candidate
  BY <1>1 DEF Ordered
<1>8. ASSUME NEW i \in DOMAIN q, NEW j \in DOMAIN q, NEW m \in PVs, NEW n \in PVs,
             i < j, HasNumber(R, g, q[i].app, m), HasNumber(R, g, q[j].app, n)
      PROVE  RankOf(q[i]) < RankOf(q[j]) \/ (RankOf(q[i]) = RankOf(q[j]) /\ m <= n)
  BY <1>8 DEF Ordered
<1>9. ASSUME NEW i \in DOMAIN q, NEW m \in PVs, HasNumber(R, g, q[i].app, m)
      PROVE  RankOf(q[i]) < rk \/ (RankOf(q[i]) = rk /\ m <= tp)
  <2>1. RankOf(q[i]) < rk \/ (RankOf(q[i]) = rk /\ (m < tp \/ m = tp))
    BY <1>9 DEF Ordered
  <2> HIDE DEF q, tp, rk
  <2> QED BY <1>3, <1>4, <2>1
<1>10. ASSUME NEW m \in PVs, z # 0, HasNumber(R, g, q[z].app, m)
       PROVE  RankOf(q[z]) < rk \/ (RankOf(q[z]) = rk /\ m < tp)
  <2>1. z \in DOMAIN q
    <3> HIDE DEF q
    <3> QED BY <1>1, <1>5, <1>10
  <2>2. CASE Category(q[z].inst) # s.targetCategory
    <3>1. q[z].inst \in Inst
      BY <1>7, <2>1 DEF Candidate
    <3>2. Category(q[z].inst) \in Categories /\ s.targetCategory \in Categories
      BY <3>1, InstNumbers DEF SchedRecord
    <3>3. RankOf(q[z]) # rk
      BY <2>2, <3>2 DEF RankOf, Rank, Categories
    <3> QED BY <1>9, <1>10, <2>1, <3>3
  <2>3. CASE q[z].app \notin B
    <3>1. ~HasNumber(R, g, q[z].app, tp)
      BY <1>7, <2>1, <2>3 DEF Announcers
    <3>2. m # tp
      BY <1>10, <3>1
    <3> HIDE DEF q, tp, rk
    <3> QED BY <1>3, <1>4, <1>9, <1>10, <2>1, <3>2
  <2> QED BY <1>5, <1>10, <2>2, <2>3 DEF Kept
<1>11. ASSUME NEW i \in 1 .. z, NEW m \in PVs, HasNumber(R, g, q[i].app, m)
       PROVE  RankOf(q[i]) < rk \/ (RankOf(q[i]) = rk /\ m < tp)
  <2>1. z # 0 /\ z \in DOMAIN q /\ i \in DOMAIN q /\ i \in Int /\ z \in Int /\ i <= z
    <3>1. z # 0 /\ i \in Int /\ z \in Int /\ i <= z /\ z \in 1 .. z
      <4> HIDE DEF q
      <4> QED BY <1>1, <1>5
    <3> QED BY <1>6, <3>1
  <2>2. CASE i = z
    BY <1>10, <1>11, <2>1, <2>2
  <2>3. CASE i # z
    <3>1. PICK n \in PVs : HasNumber(R, g, q[z].app, n)
      BY <1>7, <2>1 DEF Counted
    <3>2. i < z
      <4> HIDE DEF q
      <4> QED BY <2>1, <2>3
    <3>3. RankOf(q[i]) < RankOf(q[z]) \/ (RankOf(q[i]) = RankOf(q[z]) /\ m <= n)
      BY <1>8, <1>11, <2>1, <3>1, <3>2
    <3>4. RankOf(q[z]) < rk \/ (RankOf(q[z]) = rk /\ n < tp)
      BY <1>10, <2>1, <3>1
    <3>5. RankOf(q[i]) \in Int /\ RankOf(q[z]) \in Int
      BY <1>4, <2>1
    <3> HIDE DEF q, tp, rk
    <3> QED BY <1>3, <1>4, <3>3, <3>4, <3>5
  <2> QED BY <2>2, <2>3
<1> HIDE DEF q, rk, tp, B
<1>12. \A i \in DOMAIN r : r[i].app \in h.pendingApps
  BY <1>2, <1>6, <1>7
<1>13. \A i, j \in DOMAIN r : \A m, n \in PVs :
          i < j /\ HasNumber(R, g, r[i].app, m) /\ HasNumber(R, g, r[j].app, n)
          => RankOf(r[i]) < RankOf(r[j]) \/ (RankOf(r[i]) = RankOf(r[j]) /\ m <= n)
  BY <1>6, <1>8
<1>14. \A i \in DOMAIN r : \A m \in PVs : HasNumber(R, g, r[i].app, m)
          => \/ RankOf(r[i]) < rk
             \/ RankOf(r[i]) = rk /\ m < tp
  BY <1>6, <1>11
<1> QED BY <1>2, <1>12, <1>13, <1>14 DEF Ordered, r, rk, tp

\* a batch that is complete has the tokens of all applications that announced its number
LEMMA BatchComplete ==
  ASSUME NEW R, R \in [Ues -> Orders \cup {<<>>}], NEW g \in Gnbs, NEW s,
         s \in SchedRecord, OnePerApp(s.pv2Tokens), Counted(R, g, s),
         \A t \in Batch(s) : t.app \in Announcers(R, g, s, s.targetPV),
         Cardinality(Batch(s)) = s.pvCounter[s.targetPV]
  PROVE  BatchApps(s) = Announcers(R, g, s, s.targetPV)
<1> DEFINE B == Batch(s)
           N == Announcers(R, g, s, s.targetPV)
           f == [a \in BatchApps(s) |-> CHOOSE t \in B : t.app = a]
<1>1. IsFiniteSet(N) /\ N \subseteq Apps
  <2>1. N \subseteq Apps
    BY DEF Announcers, SchedRecord
  <2>2. IsFiniteSet(Apps)
    BY FS_Interval, MecTypesAssumption, SMTT(60) DEF Apps
  <2> HIDE DEF N
  <2> QED BY <2>1, <2>2, FS_Subset
<1>2. BatchApps(s) \subseteq N
  BY DEF BatchApps
<1>3. IsFiniteSet(BatchApps(s))
  <2> HIDE DEF N
  <2> QED BY <1>1, <1>2, FS_Subset
<1>4. \A a \in BatchApps(s) : f[a] \in B /\ f[a].app = a
  BY DEF BatchApps
<1>5. f \in Bijection(BatchApps(s), B)
  <2>1. f \in [BatchApps(s) -> B]
    BY <1>4
  <2>2. \A a, b \in BatchApps(s) : f[a] = f[b] => a = b
    BY <1>4
  <2>3. \A t \in B : \E a \in BatchApps(s) : f[a] = t
    <3> SUFFICES ASSUME NEW t \in B PROVE f[t.app] = t /\ t.app \in BatchApps(s)
      OBVIOUS
    <3>1. t.app \in BatchApps(s)
      BY DEF BatchApps
    <3>2. f[t.app] \in B /\ f[t.app].app = t.app
      BY <1>4, <3>1
    <3>3. B \subseteq s.pv2Tokens
      BY DEF Batch
    <3> HIDE DEF f, B
    <3> QED BY <3>1, <3>2, <3>3 DEF OnePerApp
  <2> HIDE DEF f, B
  <2>4. \A a, b \in DOMAIN f : f[a] = f[b] => a = b
    BY <2>1, <2>2
  <2> QED BY <2>1, <2>3, <2>4 DEF Bijection, Injection, Surjection, IsInjective
<1>6. Cardinality(BatchApps(s)) = Cardinality(B)
  <2>1. ExistsBijection(BatchApps(s), B)
    BY <1>5 DEF ExistsBijection
  <2> HIDE DEF f, B
  <2> QED BY <1>3, <2>1, FS_Bijection
<1>7. Cardinality(N) = s.pvCounter[s.targetPV]
  BY DEF Counted, SchedRecord
<1>8. BatchApps(s) \in SUBSET N
  BY <1>2
<1>9. Cardinality(BatchApps(s)) = Cardinality(N)
  BY <1>6, <1>7
<1>10. BatchApps(s) = N
  <2> HIDE DEF N
  <2> QED BY <1>1, <1>8, <1>9, FS_Subset
<1> QED BY <1>10

\* h has the tokens of s after some work and is where s is with the others
Stays(s, h) ==
    /\ Carried(s.pv2Tokens, h.pv2Tokens)
    /\ \A x \in h.finalSchedule :
          x \in s.finalSchedule \/ \E t \in s.pv2Tokens : t.app = x.app /\ ~t.isScheduled
    /\ h.pendingApps = s.pendingApps /\ h.distStage = s.distStage
    /\ h.targetPV = s.targetPV /\ h.targetCategory = s.targetCategory

\* work at one gNB keeps what relates the gNBs and the tokens
LEMMA WorkKeeps ==
  ASSUME NEW A, NEW S, NEW R, NEW g \in Gnbs, NEW h,
         Typed(A, S, R), OneToken(A, S), Remembered(A, S), TokensFine(A, S, R),
         Good(h), Stays(S[g], h)
  PROVE  LET Z == [S EXCEPT ![g] = h]
         IN  /\ Typed(A, Z, R) /\ OneToken(A, Z) /\ Remembered(A, Z) /\ TokensFine(A, Z, R)
<1> DEFINE Z == [S EXCEPT ![g] = h]
           W == Gnbs \cup {NoGnb}
<1> SUFFICES /\ Typed(A, Z, R) /\ OneToken(A, Z) /\ Remembered(A, Z) /\ TokensFine(A, Z, R)
  OBVIOUS
<1>1. /\ S \in [Gnbs -> SchedRecord] /\ h \in SchedRecord /\ Z[g] = h
      /\ \A k \in Gnbs : k # g => Z[k] = S[k]
  BY DEF Typed, Good
<1>2. Typed(A, Z, R)
  BY <1>1 DEF Typed
<1> HIDE DEF Z
<1>3. \A k \in Gnbs : S[k].pv2Tokens \subseteq Token /\ Z[k].pv2Tokens \subseteq Token
  BY <1>1, <1>2 DEF Typed, SchedRecord
\* where a token is and was
<1>4. ASSUME NEW w \in W, NEW t \in Token, Located(A, Z, w, t)
      PROVE  \/ [to |-> w, token |-> t] \in A /\ Located(A, S, w, t)
             \/ /\ w = g /\ t \in h.pv2Tokens
                /\ \E u \in S[g].pv2Tokens : Worked(u, t) /\ u \in Token /\ Located(A, S, g, u)
             \/ w \in Gnbs /\ w # g /\ t \in S[w].pv2Tokens /\ Located(A, S, w, t)
  <2>1. CASE [to |-> w, token |-> t] \in A
    BY <2>1 DEF Located
  <2>2. CASE w \in Gnbs /\ t \in Z[w].pv2Tokens
    <3>1. CASE w = g
      <4>1. t \in h.pv2Tokens
        BY <1>1, <2>2, <3>1
      <4>2. PICK u \in S[g].pv2Tokens : Worked(u, t)
        BY <4>1 DEF Stays, Carried
      <4> QED BY <1>3, <3>1, <4>1, <4>2 DEF Located
    <3>2. CASE w # g
      BY <1>1, <2>2, <3>2 DEF Located
    <3> QED BY <3>1, <3>2
  <2> QED BY <1>4, <2>1, <2>2 DEF Located
<1>5. ASSUME NEW w \in W, NEW t \in Token, Located(A, Z, w, t)
      PROVE  \E u \in Token : Worked(u, t) /\ Located(A, S, w, u)
  <2>1. Worked(t, t)
    BY DEF Worked
  <2> QED BY <1>4, <1>5, <2>1
\* two tokens of one application are at one place
<1>6. ASSUME NEW w \in W, NEW v \in W, NEW t \in Token, NEW u \in Token,
             Located(A, Z, w, t), Located(A, Z, v, u), t.app = u.app
      PROVE  w = v
  <2>1. PICK i \in Token : Worked(i, t) /\ Located(A, S, w, i)
    BY <1>5, <1>6
  <2>2. PICK j \in Token : Worked(j, u) /\ Located(A, S, v, j)
    BY <1>5, <1>6
  <2>3. i.app = j.app
    BY <1>6, <2>1, <2>2 DEF Worked
  <2> QED BY <2>1, <2>2, <2>3 DEF OneToken
\* what is at g is not in the air
<1>7. ASSUME NEW t \in h.pv2Tokens, NEW u \in Token, [to |-> g, token |-> u] \in A,
             u.app = t.app
      PROVE  FALSE
  <2>1. PICK i \in S[g].pv2Tokens : Worked(i, t)
    BY DEF Stays, Carried
  <2>2. i \in Token /\ Located(A, S, g, i) /\ Located(A, S, g, u) /\ i.app = u.app
    BY <1>3, <1>7, <2>1 DEF Located, Worked
  <2>3. i = u
    BY <2>2 DEF OneToken
  <2> QED BY <1>7, <2>1, <2>3 DEF OneToken
<1>8. OneToken(A, Z)
  <2>1. ASSUME NEW w \in W, NEW v \in W, NEW t \in Token, NEW u \in Token,
               Located(A, Z, w, t), Located(A, Z, v, u), t.app = u.app
        PROVE  w = v /\ t = u
    <3>1. w = v
      BY <1>6, <2>1
    <3>2. CASE Located(A, S, w, t) /\ Located(A, S, v, u)
      BY <2>1, <3>2 DEF OneToken
    <3>3. CASE w = g /\ t \in h.pv2Tokens
      <4>1. u \in h.pv2Tokens
        <5>1. [to |-> g, token |-> u] \notin A
          BY <1>7, <2>1, <3>3
        <5> QED BY <1>4, <2>1, <3>1, <3>3, <5>1
      <4> QED BY <2>1, <3>1, <3>3, <4>1 DEF Good, OnePerApp
    <3>4. CASE v = g /\ u \in h.pv2Tokens
      <4>1. t \in h.pv2Tokens
        <5>1. [to |-> g, token |-> t] \notin A
          BY <1>7, <2>1, <3>4
        <5> QED BY <1>4, <2>1, <3>1, <3>4, <5>1
      <4> QED BY <2>1, <3>1, <3>4, <4>1 DEF Good, OnePerApp
    <3> QED
      <4>1. Located(A, S, w, t) \/ (w = g /\ t \in h.pv2Tokens)
        BY <1>4, <2>1
      <4>2. Located(A, S, v, u) \/ (v = g /\ u \in h.pv2Tokens)
        BY <1>4, <2>1
      <4> QED BY <3>2, <3>3, <3>4, <4>1, <4>2
  <2>2. ASSUME NEW k \in Gnbs, NEW t \in Z[k].pv2Tokens
        PROVE  [to |-> k, token |-> t] \notin A
    <3>1. CASE k = g
      BY <1>1, <1>3, <1>7, <2>2, <3>1
    <3>2. CASE k # g
      BY <1>1, <2>2, <3>2 DEF OneToken
    <3> QED BY <3>1, <3>2
  <2> QED BY <2>1, <2>2 DEF OneToken
<1>9. Remembered(A, Z)
  <2>1. ASSUME NEW k \in Gnbs, NEW x \in S[k].finalSchedule, NEW w \in W, NEW t \in Token,
               Located(A, Z, w, t), t.app = x.app
        PROVE  t.isScheduled
    <3>1. PICK u \in Token : Worked(u, t) /\ Located(A, S, w, u)
      BY <1>5, <2>1
    <3>2. u.app = x.app
      BY <2>1, <3>1 DEF Worked
    <3>3. u.isScheduled
      BY <3>1, <3>2 DEF Remembered
    <3> QED BY <3>1, <3>3 DEF Worked
  <2>2. ASSUME NEW x \in h.finalSchedule, x \notin S[g].finalSchedule
        PROVE  \E v \in S[g].pv2Tokens : /\ v.app = x.app /\ ~v.isScheduled
                                         /\ v \in Token /\ Located(A, S, g, v)
    <3>1. PICK v \in S[g].pv2Tokens : v.app = x.app /\ ~v.isScheduled
      BY <2>2 DEF Stays
    <3> QED BY <1>3, <3>1 DEF Located
  <2>3. ASSUME NEW x \in h.finalSchedule, x \notin S[g].finalSchedule,
               NEW w \in W, NEW t \in Token, Located(A, Z, w, t), t.app = x.app
        PROVE  t.isScheduled
    <3>1. PICK v \in S[g].pv2Tokens : /\ v.app = x.app /\ ~v.isScheduled
                                      /\ v \in Token /\ Located(A, S, g, v)
      BY <2>2, <2>3
    <3>2. PICK u \in Token : Worked(u, t) /\ Located(A, S, w, u)
      BY <1>5, <2>3
    <3>3. w = g
      BY <2>3, <3>1, <3>2 DEF OneToken, Worked
    <3>4. [to |-> g, token |-> t] \notin A
      <4> SUFFICES ASSUME [to |-> g, token |-> t] \in A PROVE FALSE
        OBVIOUS
      <4>1. t = v
        BY <2>3, <3>1 DEF OneToken, Located
      <4> QED BY <3>1, <4>1 DEF OneToken
    <3>5. t \in h.pv2Tokens
      BY <1>4, <2>3, <3>3, <3>4
    <3> QED BY <2>3, <3>5 DEF Good, Feasible
  <2>4. ASSUME NEW k \in Gnbs, k # g, NEW x \in h.finalSchedule, NEW y \in S[k].finalSchedule,
               x.app = y.app
        PROVE  FALSE
    <3>1. CASE x \in S[g].finalSchedule
      BY <2>4, <3>1 DEF Remembered
    <3>2. CASE x \notin S[g].finalSchedule
      <4>1. PICK v \in S[g].pv2Tokens : /\ v.app = x.app /\ ~v.isScheduled
                                        /\ v \in Token /\ Located(A, S, g, v)
        BY <2>2, <2>4, <3>2
      <4> QED BY <2>4, <4>1 DEF Remembered
    <3> QED BY <3>1, <3>2
  <2>5. ASSUME NEW k \in Gnbs, NEW x \in Z[k].finalSchedule, NEW w \in W, NEW t \in Token,
               Located(A, Z, w, t), t.app = x.app
        PROVE  t.isScheduled
    <3>1. CASE x \in S[k].finalSchedule
      BY <2>1, <2>5, <3>1
    <3>2. CASE x \notin S[k].finalSchedule
      <4>1. k = g /\ x \in h.finalSchedule
        BY <1>1, <2>5, <3>2
      <4> QED BY <2>3, <2>5, <3>2, <4>1
    <3> QED BY <3>1, <3>2
  <2>6. ASSUME NEW k \in Gnbs, NEW m \in Gnbs, k # m,
               NEW x \in Z[k].finalSchedule, NEW y \in Z[m].finalSchedule
        PROVE  x.app # y.app
    <3>1. CASE k = g
      BY <1>1, <2>4, <2>6, <3>1
    <3>2. CASE m = g
      BY <1>1, <2>4, <2>6, <3>2
    <3>3. CASE k # g /\ m # g
      BY <1>1, <2>6, <3>3 DEF Remembered
    <3> QED BY <3>1, <3>2, <3>3
  <2> QED BY <2>5, <2>6 DEF Remembered
<1>10. TokensFine(A, Z, R)
  <2> SUFFICES ASSUME NEW w \in W, NEW t \in Token, Located(A, Z, w, t)
               PROVE  OnRoute(R, w, t) /\ InStep(Z, R, w, t)
    BY DEF TokensFine
  <2>1. PICK u \in Token : Worked(u, t) /\ Located(A, S, w, u)
    BY <1>5
  <2>2. OnRoute(R, w, u) /\ InStep(S, R, w, u)
    BY <2>1 DEF TokensFine
  <2>3. t.app = u.app /\ t.pv = u.pv /\ TokenPhase(t) = TokenPhase(u)
    BY <2>1 DEF Worked, TokenPhase
  <2>4. OnRoute(R, w, t)
    BY <2>2, <2>3 DEF OnRoute
  <2>5. ASSUME NEW k \in Gnbs, NEW f, NEW p
        PROVE  Beyond(Z[k], t.app, f, p) <=> Beyond(S[k], t.app, f, p)
    <3>1. CASE k = g
      BY <1>1, <3>1 DEF Stays, Beyond, PhaseOf
    <3>2. CASE k # g
      BY <1>1, <3>2
    <3> QED BY <3>1, <3>2
  <2>6. ASSUME NEW f, NEW p PROVE Passed(w, t, f, p) <=> Passed(w, u, f, p)
    BY <2>3 DEF Passed
  <2>7. \A p \in DOMAIN Reach(R, t.app) : Reach(R, t.app)[p] \in Gnbs
    BY OneNumber DEF Typed, Token
  <2>8. InStep(Z, R, w, t)
    <3> SUFFICES ASSUME NEW p \in DOMAIN Reach(R, t.app), NEW f \in 1 .. 4
                 PROVE  Passed(w, t, f, p) <=> Beyond(Z[Reach(R, t.app)[p]], t.app, f, p)
      BY DEF InStep
    <3>1. Passed(w, u, f, p) <=> Beyond(S[Reach(R, u.app)[p]], u.app, f, p)
      BY <2>2, <2>3 DEF InStep
    <3>2. Reach(R, t.app)[p] \in Gnbs /\ Reach(R, u.app) = Reach(R, t.app)
      BY <2>3, <2>7
    <3> QED BY <2>3, <2>5, <2>6, <3>1, <3>2
  <2> QED BY <2>4, <2>8
<1> QED BY <1>2, <1>8, <1>9, <1>10

\* a token at a gNB is one that announced its number there
LEMMA TokenAnnounced ==
  ASSUME NEW A, NEW S, NEW R, Typed(A, S, R), TokensFine(A, S, R), NEW g \in Gnbs,
         NEW t \in Token, Located(A, S, g, t)
  PROVE  /\ HasNumber(R, g, t.app, t.pv) /\ t.app \in S[g].pendingApps
         /\ ~Before(TokenPhase(t), t.pv, PhaseOf(S[g]), S[g].targetPV)
<1>1. OnRoute(R, g, t) /\ InStep(S, R, g, t) /\ g # NoGnb
  BY MecTypesAssumption DEF TokensFine
<1>2. HasNumber(R, g, t.app, t.pv)
  BY <1>1 DEF OnRoute, HasNumber
<1>3. TokenPhase(t) \in 1 .. 4 /\ t.pv \in Int
  BY DEF TokenPhase, Phase, Token, PVs
<1>4. ~Passed(g, t, TokenPhase(t), t.pv)
  BY <1>1, <1>3 DEF Passed, Before
<1>5. ~Beyond(S[g], t.app, TokenPhase(t), t.pv)
  BY <1>1, <1>2, <1>3, <1>4 DEF InStep, HasNumber
<1> QED BY <1>2, <1>5 DEF Beyond

\* the attempt to start a batch keeps the core
LEMMA TryBatchKeeps ==
  ASSUME NEW A, NEW S, NEW R, Core(A, S, R), NEW g \in Gnbs
  PROVE  LET h == TryBatch(S[g])
         IN  /\ Core(A, [S EXCEPT ![g] = h], R) /\ Works(S[g], h)
             /\ ~S[g].started => h = S[g]
<1> DEFINE s == S[g]
           h == TryBatch(s)
           Z == [S EXCEPT ![g] = h]
<1> SUFFICES Core(A, Z, R) /\ Works(s, h) /\ (~s.started => h = s)
  OBVIOUS
<1>1. /\ Typed(A, S, R) /\ OneToken(A, S) /\ Remembered(A, S) /\ TokensFine(A, S, R)
      /\ SchedFine(R, g, s) /\ S \in [Gnbs -> SchedRecord]
      /\ R \in [Ues -> Orders \cup {<<>>}] /\ s \in SchedRecord
      /\ \A k \in Gnbs : SchedFine(R, k, S[k])
  BY DEF Core, Typed
<1>2. CASE ~(s.started /\ ~s.batchOngoing /\ Cardinality(Batch(s)) = s.pvCounter[s.targetPV])
  <2>1. h = s
    BY <1>2 DEF TryBatch
  <2>2. Z = S
    BY <1>1, <2>1
  <2> QED BY <2>1, <2>2, WorksReflexive
<1>3. CASE s.started /\ ~s.batchOngoing /\ Cardinality(Batch(s)) = s.pvCounter[s.targetPV]
  <2>1. h = PerformBatchScheduling(s)
    BY <1>3 DEF TryBatch
  <2> HIDE DEF h, s
  <2>2. /\ Good(h) /\ Works(s, h) /\ h.postBatch /\ h.batchOngoing
        /\ s.distStage = "CandiSel" => Pushes(s, h, BatchApps(s))
        /\ s.distStage # "CandiSel" => Pops(s, h, BatchApps(s))
    BY <1>1, <2>1, PerformBatchGood DEF SchedFine
  <2>3. \A t \in Batch(s) : t.app \in Announcers(R, g, s, s.targetPV)
    <3> SUFFICES ASSUME NEW t \in Batch(s) PROVE t.app \in Announcers(R, g, s, s.targetPV)
      OBVIOUS
    <3>1. t \in s.pv2Tokens /\ t.pv = s.targetPV /\ t \in Token
      BY <1>1 DEF Batch, SchedRecord
    <3>2. Located(A, S, g, t)
      BY <3>1 DEF Located, s
    <3>3. HasNumber(R, g, t.app, t.pv) /\ t.app \in s.pendingApps
      BY <1>1, <3>1, <3>2, TokenAnnounced DEF s
    <3> QED BY <3>1, <3>3 DEF Announcers
  <2>4. BatchApps(s) = Announcers(R, g, s, s.targetPV)
    BY <1>1, <1>3, <2>3, BatchComplete DEF SchedFine, Good
  <2>5. ~s.postBatch /\ ~s.instGenTimer
    BY <1>1, <1>3 DEF SchedFine, Batches
  <2>6. Counted(R, g, h)
    <3>1. h.pendingApps = s.pendingApps /\ h.pvCounter = s.pvCounter /\ h.targetPV = s.targetPV
          /\ h.started = s.started
      BY <2>2 DEF Works
    <3> QED BY <1>1, <3>1 DEF SchedFine, Counted, Announcers, Announced
  <2>7. Batches(R, g, h)
    <3>1. h.pendingApps = s.pendingApps /\ h.targetPV = s.targetPV
          /\ h.started = s.started /\ h.instGenTimer = s.instGenTimer
      BY <2>2 DEF Works
    <3>2. BatchApps(h) = BatchApps(s)
      BY <2>2, BatchWorked
    <3> QED BY <1>3, <2>2, <2>4, <2>5, <3>1, <3>2 DEF Batches, Announcers
  <2>8. Ordered(R, g, h)
    <3>1. s \in SchedRecord /\ h \in SchedRecord /\ Ordered(R, g, s) /\ Counted(R, g, s)
      BY <1>1, <2>2 DEF SchedFine, Good
    <3>2. CASE s.distStage = "CandiSel"
      <4>1. Pushes(s, h, Announcers(R, g, s, s.targetPV))
        BY <2>2, <2>4, <3>2
      <4> QED BY <1>1, <1>3, <2>2, <2>5, <3>1, <3>2, <4>1, PushedOrdered
    <3>3. CASE s.distStage # "CandiSel"
      <4>1. Pops(s, h, Announcers(R, g, s, s.targetPV))
        BY <2>2, <2>4, <3>3
      <4> QED BY <1>1, <1>3, <2>2, <2>5, <3>1, <3>3, <4>1, PoppedOrdered
    <3> QED BY <3>2, <3>3
  <2>9. SchedFine(R, g, h)
    BY <2>2, <2>6, <2>7, <2>8 DEF SchedFine
  <2>10. /\ Typed(A, Z, R) /\ OneToken(A, Z) /\ Remembered(A, Z) /\ TokensFine(A, Z, R)
    <3>1. Stays(s, h)
      BY <2>2 DEF Works, Stays
    <3> QED BY <1>1, <2>2, <3>1, WorkKeeps DEF s
  <2>11. \A k \in Gnbs : SchedFine(R, k, Z[k])
    <3> SUFFICES ASSUME NEW k \in Gnbs PROVE SchedFine(R, k, Z[k])
      OBVIOUS
    <3>1. CASE k = g
      BY <1>1, <2>9, <3>1
    <3>2. CASE k # g
      BY <1>1, <3>2
    <3> QED BY <3>1, <3>2
  <2> QED BY <1>3, <2>2, <2>10, <2>11 DEF Core
<1> HIDE DEF h, s
<1> QED BY <1>2, <1>3

-----------------------------------------------------------------------------
(* The handlers of a gNB.                                                   *)

\* what a gNB forgets or notes beside its tokens, its schedule and its place in the round
LEMMA NoteKeeps ==
  ASSUME NEW A, NEW S, NEW R, Core(A, S, R), NEW g \in Gnbs, NEW h \in SchedRecord,
         h.pv2Tokens = S[g].pv2Tokens, h.finalSchedule = S[g].finalSchedule,
         h.maxRB = S[g].maxRB, h.maxCU = S[g].maxCU,
         h.pendingApps = S[g].pendingApps, h.distStage = S[g].distStage,
         h.targetPV = S[g].targetPV, h.targetCategory = S[g].targetCategory,
         h.pvCounter = S[g].pvCounter, h.candidateInsts = S[g].candidateInsts,
         h.started = S[g].started, h.postBatch = S[g].postBatch, Batches(R, g, h)
  PROVE  Core(A, [S EXCEPT ![g] = h], R)
<1> DEFINE Z == [S EXCEPT ![g] = h]
<1>1. /\ Typed(A, S, R) /\ OneToken(A, S) /\ Remembered(A, S) /\ TokensFine(A, S, R)
      /\ S \in [Gnbs -> SchedRecord] /\ SchedFine(R, g, S[g])
      /\ \A k \in Gnbs : SchedFine(R, k, S[k])
  BY DEF Core, Typed
<1>2. Stays(S[g], h)
  BY CarriedReflexive DEF Stays
<1>3. Good(h)
  BY <1>1 DEF SchedFine, Good, Feasible
<1>4. SchedFine(R, g, h)
  <2>1. Counted(R, g, h)
    BY <1>1 DEF SchedFine, Counted, Announcers, Announced
  <2>2. Ordered(R, g, h)
    BY <1>1 DEF SchedFine, Ordered
  <2> QED BY <1>3, <2>1, <2>2 DEF SchedFine
<1>5. Typed(A, Z, R) /\ OneToken(A, Z) /\ Remembered(A, Z) /\ TokensFine(A, Z, R)
  BY <1>1, <1>2, <1>3, WorkKeeps
<1>6. \A k \in Gnbs : SchedFine(R, k, Z[k])
  <2> SUFFICES ASSUME NEW k \in Gnbs PROVE SchedFine(R, k, Z[k])
    OBVIOUS
  <2>1. CASE k = g
    BY <1>1, <1>4, <2>1
  <2>2. CASE k # g
    BY <1>1, <2>2
  <2> QED BY <2>1, <2>2
<1> QED BY <1>5, <1>6 DEF Core

\* the tokens a handler has sent are forgotten
LEMMA OutCleared ==
  ASSUME NEW A, NEW S, NEW R, NEW g \in Gnbs, NEW h, Core(A, [S EXCEPT ![g] = h], R),
         S \in [Gnbs -> SchedRecord]
  PROVE  Core(A, [S EXCEPT ![g] = [h EXCEPT !.out = {}]], R)
<1> DEFINE Z == [S EXCEPT ![g] = h]
           k == [h EXCEPT !.out = {}]
<1>1. Z[g] = h /\ h \in SchedRecord /\ SchedFine(R, g, h)
  BY DEF Core, Typed
<1>2. /\ k \in SchedRecord
      /\ k.pv2Tokens = h.pv2Tokens /\ k.finalSchedule = h.finalSchedule
      /\ k.maxRB = h.maxRB /\ k.maxCU = h.maxCU
      /\ k.pendingApps = h.pendingApps /\ k.distStage = h.distStage
      /\ k.targetPV = h.targetPV /\ k.targetCategory = h.targetCategory
      /\ k.pvCounter = h.pvCounter /\ k.candidateInsts = h.candidateInsts
      /\ k.started = h.started /\ k.postBatch = h.postBatch
      /\ k.instGenTimer = h.instGenTimer /\ k.batchOngoing = h.batchOngoing
  BY <1>1 DEF SchedRecord
<1> HIDE DEF k
<1>3. Batches(R, g, k)
  BY <1>1, <1>2 DEF SchedFine, Batches, Announcers, BatchApps, Batch
<1>4. Core(A, [Z EXCEPT ![g] = k], R)
  <2>1. Core(A, Z, R)
    OBVIOUS
  <2> HIDE DEF Z
  <2>2. \A s \in {Z[g]} : s = h
    BY <1>1
  <2> QED BY <2>1, <2>2, <1>1, <1>2, <1>3, NoteKeeps
<1>5. [Z EXCEPT ![g] = k] = [S EXCEPT ![g] = k]
  OBVIOUS
<1> QED BY <1>4, <1>5 DEF k

\* a change of one entry and then another of the same is the second
LEMMA ChangedTwice ==
  ASSUME NEW S, NEW T, S \in [Gnbs -> T], NEW g \in Gnbs, NEW k, NEW h
  PROVE  /\ [[S EXCEPT ![g] = k] EXCEPT ![g] = h] = [S EXCEPT ![g] = h]
         /\ [S EXCEPT ![g] = k][g] = k
OBVIOUS

\* the end of instance generation
LEMMA InstancesNoted ==
  ASSUME NEW A, NEW S, NEW R, Core(A, S, R), NEW g \in Gnbs, S[g].instGenTimer,
         NEW k, k = [S[g] EXCEPT !.instGenTimer = FALSE, !.batchOngoing = FALSE]
  PROVE  Core(A, [S EXCEPT ![g] = k], R)
<1> DEFINE s == S[g]
           Z == [S EXCEPT ![g] = k]
<1>1. S \in [Gnbs -> SchedRecord] /\ s \in SchedRecord /\ SchedFine(R, g, s)
  BY DEF Core, Typed
<1>2. /\ k \in SchedRecord
      /\ k.pv2Tokens = s.pv2Tokens /\ k.finalSchedule = s.finalSchedule
      /\ k.maxRB = s.maxRB /\ k.maxCU = s.maxCU
      /\ k.pendingApps = s.pendingApps /\ k.distStage = s.distStage
      /\ k.targetPV = s.targetPV /\ k.targetCategory = s.targetCategory
      /\ k.pvCounter = s.pvCounter /\ k.candidateInsts = s.candidateInsts
      /\ k.started = s.started /\ k.postBatch = s.postBatch
      /\ k.instGenTimer = FALSE
  BY <1>1 DEF SchedRecord
<1>3. Batches(R, g, k)
  BY <1>1, <1>2 DEF SchedFine, Batches
<1>4. Core(A, Z, R)
  BY <1>2, <1>3, NoteKeeps
<1> QED BY <1>4

\* what a token's place in the round depends on at the gNBs
LEMMA SameStep ==
  ASSUME NEW S, NEW Z, NEW R \in [Ues -> Orders \cup {<<>>}], NEW w, NEW t \in Token,
         \A k \in Gnbs : /\ Z[k].pendingApps = S[k].pendingApps
                         /\ Z[k].distStage = S[k].distStage
                         /\ Z[k].targetCategory = S[k].targetCategory
                         /\ Z[k].targetPV = S[k].targetPV,
         InStep(S, R, w, t)
  PROVE  InStep(Z, R, w, t)
<1>1. \A p \in DOMAIN Reach(R, t.app) : Reach(R, t.app)[p] \in Gnbs
  BY OneNumber DEF Token
<1> SUFFICES ASSUME NEW p \in DOMAIN Reach(R, t.app), NEW f \in 1 .. 4
             PROVE  Passed(w, t, f, p) <=> Beyond(Z[Reach(R, t.app)[p]], t.app, f, p)
  BY DEF InStep
<1>2. Passed(w, t, f, p) <=> Beyond(S[Reach(R, t.app)[p]], t.app, f, p)
  BY DEF InStep
<1>3. \A k \in Gnbs : Beyond(Z[k], t.app, f, p) <=> Beyond(S[k], t.app, f, p)
  BY DEF Beyond, PhaseOf
<1> QED BY <1>1, <1>2, <1>3

\* a token that arrives joins those that wait
LEMMA TokenJoins ==
  ASSUME NEW A, NEW S, NEW R, Core(A, S, R), NEW g \in Gnbs, NEW m \in A, m.to = g
  PROVE  Core(A \ {m}, [S EXCEPT ![g].pv2Tokens = @ \cup {m.token}], R)
<1> DEFINE W == Gnbs \cup {NoGnb}
           s == S[g]
           t == m.token
           k == [s EXCEPT !.pv2Tokens = @ \cup {t}]
           B == A \ {m}
           Z == [S EXCEPT ![g] = k]
<1>1. /\ Typed(A, S, R) /\ OneToken(A, S) /\ Remembered(A, S) /\ TokensFine(A, S, R)
      /\ S \in [Gnbs -> SchedRecord] /\ SchedFine(R, g, s) /\ s \in SchedRecord
      /\ \A h \in Gnbs : SchedFine(R, h, S[h])
      /\ R \in [Ues -> Orders \cup {<<>>}]
  BY DEF Core, Typed
<1>2. t \in Token /\ m = [to |-> g, token |-> t]
  BY <1>1 DEF Typed
<1>3. /\ k \in SchedRecord /\ k.pv2Tokens = s.pv2Tokens \cup {t}
      /\ k.finalSchedule = s.finalSchedule /\ k.maxRB = s.maxRB /\ k.maxCU = s.maxCU
      /\ k.pendingApps = s.pendingApps /\ k.distStage = s.distStage
      /\ k.targetPV = s.targetPV /\ k.targetCategory = s.targetCategory
      /\ k.pvCounter = s.pvCounter /\ k.candidateInsts = s.candidateInsts
      /\ k.started = s.started /\ k.postBatch = s.postBatch
      /\ k.instGenTimer = s.instGenTimer /\ k.batchOngoing = s.batchOngoing
  BY <1>1, <1>2, ZenonT(60) DEF SchedRecord
<1> HIDE DEF k
<1>4. Z \in [Gnbs -> SchedRecord] /\ Z[g] = k /\ \A h \in Gnbs : h # g => Z[h] = S[h]
  BY <1>1, <1>3
<1> HIDE DEF Z
<1>5. Located(A, S, g, t)
  BY <1>2 DEF Located
<1>6. ASSUME NEW w \in W, NEW u \in Token
      PROVE  Located(B, Z, w, u) <=> Located(A, S, w, u)
  <2>1. CASE w = g
    <3>1. [to |-> w, token |-> u] = m <=> u = t
      BY <1>2, <2>1
    <3>2. u \in Z[w].pv2Tokens <=> u \in S[w].pv2Tokens \/ u = t
      BY <1>3, <1>4, <2>1
    <3> QED BY <1>5, <2>1, <3>1, <3>2 DEF Located
  <2>2. CASE w # g
    <3>1. [to |-> w, token |-> u] # m
      BY <1>2, <2>2
    <3> QED BY <1>4, <2>2, <3>1 DEF Located
  <2> QED BY <2>1, <2>2
<1>7. Typed(B, Z, R)
  BY <1>1, <1>4 DEF Typed
<1>8. OneToken(B, Z)
  <2>1. ASSUME NEW h \in Gnbs, NEW u \in Z[h].pv2Tokens
        PROVE  [to |-> h, token |-> u] \notin B
    <3>1. CASE u \in S[h].pv2Tokens
      BY <1>1, <3>1 DEF OneToken
    <3>2. CASE u \notin S[h].pv2Tokens
      BY <1>2, <1>3, <1>4, <2>1, <3>2
    <3> QED BY <3>1, <3>2
  <2> QED BY <1>1, <1>6, <2>1, Zenon DEF OneToken
<1>9. \A h \in Gnbs : Z[h].finalSchedule = S[h].finalSchedule
  BY <1>3, <1>4
<1>10. Remembered(B, Z)
  BY <1>1, <1>6, <1>9, Zenon DEF Remembered
<1>11. TokensFine(B, Z, R)
  <2> SUFFICES ASSUME NEW w \in W, NEW u \in Token, Located(B, Z, w, u)
               PROVE  OnRoute(R, w, u) /\ InStep(Z, R, w, u)
    BY DEF TokensFine
  <2>1. OnRoute(R, w, u) /\ InStep(S, R, w, u)
    BY <1>1, <1>6 DEF TokensFine
  <2>2. \A h \in Gnbs : /\ Z[h].pendingApps = S[h].pendingApps
                        /\ Z[h].distStage = S[h].distStage
                        /\ Z[h].targetCategory = S[h].targetCategory
                        /\ Z[h].targetPV = S[h].targetPV
    BY <1>3, <1>4
  <2> QED BY <1>1, <2>1, <2>2, SameStep
<1>12. Good(k)
  <2>1. \A u \in k.pv2Tokens : u \in Token /\ Located(B, Z, g, u)
    BY <1>3, <1>4 DEF SchedRecord, Located
  <2>2. OnePerApp(k.pv2Tokens)
    BY <1>8, <2>1 DEF OnePerApp, OneToken
  <2>3. \A x \in k.finalSchedule : \A u \in k.pv2Tokens : u.app = x.app => u.isScheduled
    BY <1>4, <1>10, <2>1, SMTT(60) DEF Remembered
  <2>4. Feasible(k)
    BY <1>1, <1>3, <2>3 DEF SchedFine, Good, Feasible
  <2> QED BY <1>3, <2>2, <2>4 DEF Good
<1>13. SchedFine(R, g, k)
  <2>1. Counted(R, g, k)
    BY <1>1, <1>3 DEF SchedFine, Counted, Announcers, Announced
  <2>2. Ordered(R, g, k)
    BY <1>1, <1>3 DEF SchedFine, Ordered
  <2>3. Announcers(R, g, k, k.targetPV) = Announcers(R, g, s, s.targetPV)
    BY <1>3 DEF Announcers
  <2>4. k.postBatch => BatchApps(k) = Announcers(R, g, k, k.targetPV)
    <3> SUFFICES ASSUME k.postBatch
                 PROVE  BatchApps(k) = Announcers(R, g, s, s.targetPV)
      BY <2>3
    <3>1. BatchApps(s) = Announcers(R, g, s, s.targetPV)
      BY <1>1, <1>3 DEF SchedFine, Batches
    <3>2. BatchApps(s) \subseteq BatchApps(k)
      BY <1>3 DEF BatchApps, Batch
    <3>3. ASSUME NEW u \in Batch(k), u = t PROVE u.app \in Announcers(R, g, s, s.targetPV)
      <4>1. t.pv = s.targetPV
        BY <1>3, <3>3 DEF Batch
      <4>2. HasNumber(R, g, t.app, t.pv) /\ t.app \in s.pendingApps
        BY <1>1, <1>2, <1>5, TokenAnnounced
      <4> QED BY <3>3, <4>1, <4>2 DEF Announcers
    <3>4. ASSUME NEW u \in Batch(k), u # t PROVE u.app \in BatchApps(s)
      BY <1>3, <3>4 DEF BatchApps, Batch
    <3>5. BatchApps(k) \subseteq Announcers(R, g, s, s.targetPV)
      BY <3>1, <3>3, <3>4 DEF BatchApps
    <3> QED BY <3>1, <3>2, <3>5
  <2>5. Batches(R, g, k)
    BY <1>1, <1>3, <2>4 DEF SchedFine, Batches
  <2> QED BY <1>12, <2>1, <2>2, <2>5 DEF SchedFine
<1>14. \A h \in Gnbs : SchedFine(R, h, Z[h])
  <2> SUFFICES ASSUME NEW h \in Gnbs PROVE SchedFine(R, h, Z[h])
    OBVIOUS
  <2>1. CASE h = g
    BY <1>4, <1>13, <2>1
  <2>2. CASE h # g
    BY <1>1, <1>4, <2>2
  <2> QED BY <2>1, <2>2
<1>15. Core(B, Z, R)
  BY <1>7, <1>8, <1>10, <1>11, <1>14 DEF Core
<1>16. [S EXCEPT ![g].pv2Tokens = @ \cup {t}] = Z
  BY DEF Z, k
<1> QED BY <1>15, <1>16

\* the attempt to start a batch, after a handler's own changes
LEMMA ThenTryBatch ==
  ASSUME NEW A, NEW S, NEW R, NEW g \in Gnbs, NEW k, S \in [Gnbs -> SchedRecord],
         Core(A, [S EXCEPT ![g] = k], R)
  PROVE  /\ Core(A, [S EXCEPT ![g] = [TryBatch(k) EXCEPT !.out = {}]], R)
         /\ Works(k, TryBatch(k))
<1> DEFINE Z == [S EXCEPT ![g] = k]
           h == TryBatch(k)
<1>1. Z[g] = k /\ Core(A, Z, R)
  OBVIOUS
<1>2. Core(A, [Z EXCEPT ![g] = TryBatch(Z[g])], R) /\ Works(Z[g], TryBatch(Z[g]))
  <2> HIDE DEF Z
  <2> QED BY <1>1, TryBatchKeeps
<1>3. Core(A, [Z EXCEPT ![g] = h], R) /\ Works(k, h)
  <2> HIDE DEF Z
  <2> QED BY <1>1, <1>2
<1> HIDE DEF h
<1>4. Core(A, [S EXCEPT ![g] = h], R)
  BY <1>3
<1>5. Core(A, [S EXCEPT ![g] = [h EXCEPT !.out = {}]], R)
  BY <1>4, OutCleared
<1>6. Works(k, h)
  BY <1>3
<1> QED BY <1>5, <1>6 DEF h

\* and the first batch
LEMMA HandleInstGenTimerKeeps ==
  ASSUME NEW A, NEW S, NEW R, Core(A, S, R), NEW g \in Gnbs, S[g].instGenTimer
  PROVE  Core(A, [S EXCEPT ![g] = [HandleInstGenTimer(S[g]) EXCEPT !.out = {}]], R)
<1> DEFINE k == [S[g] EXCEPT !.instGenTimer = FALSE, !.batchOngoing = FALSE]
<1>1. S \in [Gnbs -> SchedRecord]
  BY DEF Core, Typed
<1>2. k = [S[g] EXCEPT !.instGenTimer = FALSE, !.batchOngoing = FALSE]
  OBVIOUS
<1>3. HandleInstGenTimer(S[g]) = TryBatch(k)
  BY DEF HandleInstGenTimer
<1> HIDE DEF k
<1>4. Core(A, [S EXCEPT ![g] = k], R)
  BY <1>2, InstancesNoted, Zenon
<1> QED BY <1>1, <1>3, <1>4, ThenTryBatch

\* the arrival of a token
LEMMA RecordDistTokenKeeps ==
  ASSUME NEW A, NEW S, NEW R, Core(A, S, R), NEW g \in Gnbs, NEW m \in A, m.to = g
  PROVE  Core(A \ {m}, [S EXCEPT ![g] = [RecordDistToken(S[g], m.token) EXCEPT !.out = {}]], R)
<1> DEFINE k == [S[g] EXCEPT !.pv2Tokens = @ \cup {m.token}]
<1>1. S \in [Gnbs -> SchedRecord]
  BY DEF Core, Typed
<1>2. Core(A \ {m}, [S EXCEPT ![g] = k], R)
  BY TokenJoins
<1>3. RecordDistToken(S[g], m.token) = TryBatch(k)
  BY DEF RecordDistToken
<1> HIDE DEF k
<1> QED BY <1>1, <1>2, <1>3, ThenTryBatch

-----------------------------------------------------------------------------
(* The ends of a batch and of a visit.                                      *)

\* the preference values are numbers
LEMMA PVsAre == Cardinality(Gnbs) \in Nat /\ PVs = 1 .. Cardinality(Gnbs) /\ PVs \subseteq Nat
BY DistSchedulingAssumption, FS_CardinalityType DEF PVs

\* the next visit of a token is that after the one it has made
LEMMA NextVisitStep ==
  ASSUME NEW t \in Token, NEW N \in PVs, t.pv \in 1 .. N, ~IsLastVisit(t)
  PROVE  LET n == NextVisit(t, N)
         IN  /\ n \in Token /\ n.app = t.app /\ n.isScheduled = t.isScheduled
             /\ n.pv \in 1 .. N
             /\ \A p \in 1 .. N : \A f \in 1 .. 4 :
                   Before(f, p, TokenPhase(n), n.pv)
                   <=> Before(f, p, TokenPhase(t), t.pv) \/ (f = TokenPhase(t) /\ p = t.pv)
<1> DEFINE n == NextVisit(t, N)
<1> SUFFICES /\ n \in Token /\ n.app = t.app /\ n.isScheduled = t.isScheduled
             /\ n.pv \in 1 .. N
             /\ \A p \in 1 .. N : \A f \in 1 .. 4 :
                   Before(f, p, TokenPhase(n), n.pv)
                   <=> Before(f, p, TokenPhase(t), t.pv) \/ (f = TokenPhase(t) /\ p = t.pv)
  OBVIOUS
<1>1. /\ N \in Nat /\ N >= 1 /\ N <= Cardinality(Gnbs) /\ Cardinality(Gnbs) \in Nat
      /\ t.pv \in Nat /\ t.pv >= 1 /\ t.pv <= N
      /\ t.stage \in Stages /\ t.category \in Categories
  BY PVsAre DEF Token
<1>2. CASE t.stage = "CandiSel" /\ t.pv < N
  <2>1. n = [t EXCEPT !.pv = @ + 1]
    BY <1>1, <1>2 DEF NextVisit
  <2>2. /\ n \in Token /\ n.app = t.app /\ n.isScheduled = t.isScheduled
        /\ n.pv = t.pv + 1 /\ n.stage = t.stage /\ n.category = t.category
    <3> HIDE DEF n
    <3> QED BY <1>1, <1>2, <2>1, PVsAre DEF Token
  <2>3. TokenPhase(n) = TokenPhase(t) /\ TokenPhase(t) \in 1 .. 2
    BY <1>2, <2>2 DEF TokenPhase, Phase
  <2> HIDE DEF n
  <2> QED BY <1>1, <1>2, <2>2, <2>3 DEF Before
<1>3. CASE t.stage = "CandiSel" /\ t.pv = N /\ t.category = "LI"
  <2>1. n = [t EXCEPT !.pv = 1, !.category = "HI"]
    BY <1>1, <1>3 DEF NextVisit
  <2>2. /\ n \in Token /\ n.app = t.app /\ n.isScheduled = t.isScheduled
        /\ n.pv = 1 /\ n.stage = t.stage /\ n.category = "HI"
    <3> HIDE DEF n
    <3>1. 1 \in PVs
      BY <1>1, PVsAre
    <3> QED BY <1>3, <2>1, <3>1 DEF Token, Categories
  <2>3. TokenPhase(n) = 2 /\ TokenPhase(t) = 1
    BY <1>3, <2>2 DEF TokenPhase, Phase
  <2> HIDE DEF n
  <2> QED BY <1>1, <1>3, <2>2, <2>3 DEF Before
<1>4. CASE t.stage = "CandiSel" /\ t.pv = N /\ t.category # "LI"
  <2>1. n = [t EXCEPT !.stage = "SolSel"]
    BY <1>1, <1>4 DEF NextVisit
  <2>2. /\ n \in Token /\ n.app = t.app /\ n.isScheduled = t.isScheduled
        /\ n.pv = t.pv /\ n.stage = "SolSel" /\ n.category = "HI" /\ t.category = "HI"
    <3> HIDE DEF n
    <3> QED BY <1>1, <1>4, <2>1 DEF Token, Stages, Categories
  <2>3. TokenPhase(n) = 3 /\ TokenPhase(t) = 2
    BY <1>4, <2>2 DEF TokenPhase, Phase
  <2> HIDE DEF n
  <2> QED BY <1>1, <1>4, <2>2, <2>3 DEF Before
<1>5. CASE t.stage # "CandiSel" /\ t.pv > 1
  <2>1. n = [t EXCEPT !.pv = @ - 1]
    BY <1>5 DEF NextVisit
  <2>2. /\ n \in Token /\ n.app = t.app /\ n.isScheduled = t.isScheduled
        /\ n.pv = t.pv - 1 /\ n.stage = t.stage /\ n.category = t.category
    <3> HIDE DEF n
    <3> QED BY <1>1, <1>5, <2>1, PVsAre DEF Token
  <2>3. TokenPhase(n) = TokenPhase(t) /\ TokenPhase(t) \in 3 .. 4
    BY <1>5, <2>2 DEF TokenPhase, Phase
  <2> HIDE DEF n
  <2> QED BY <1>1, <1>5, <2>2, <2>3 DEF Before
<1>6. CASE t.stage # "CandiSel" /\ t.pv = 1
  <2>1. n = [t EXCEPT !.pv = N, !.category = "LI"]
    BY <1>6 DEF NextVisit
  <2>2. t.stage = "SolSel" /\ t.category = "HI"
    BY <1>1, <1>6 DEF IsLastVisit, Stages, Categories
  <2>3. /\ n \in Token /\ n.app = t.app /\ n.isScheduled = t.isScheduled
        /\ n.pv = N /\ n.stage = "SolSel" /\ n.category = "LI"
    <3> HIDE DEF n
    <3> QED BY <1>1, <1>6, <2>1, <2>2, PVsAre DEF Token, Categories
  <2>4. TokenPhase(n) = 4 /\ TokenPhase(t) = 3
    BY <2>2, <2>3 DEF TokenPhase, Phase
  <2> HIDE DEF n
  <2> QED BY <1>1, <1>6, <2>3, <2>4 DEF Before
<1> QED BY <1>1, <1>2, <1>3, <1>4, <1>5, <1>6

\* the least and the greatest of some preference values
LEMMA LeastAndGreatest ==
  ASSUME NEW S, S \subseteq PVs, S # {}
  PROVE  /\ Min(S) \in S /\ \A p \in S : Min(S) <= p
         /\ Max(S) \in S /\ \A p \in S : p <= Max(S)
<1>1. S \subseteq Nat /\ IsFiniteSet(S)
  <2>1. IsFiniteSet(PVs)
    BY PVsAre, FS_Interval
  <2> QED BY <2>1, PVsAre, FS_Subset
<1>2. \E n \in S : \A p \in S : n <= p
  BY <1>1, LeastNatural
<1>3. Min(S) \in S /\ \A p \in S : Min(S) <= p
  BY <1>2 DEF Min
<1>4. \E n \in S : \A p \in S : n >= p
  BY <1>1, GreatestNatural
<1>5. Max(S) \in S /\ \A p \in S : Max(S) >= p
  BY <1>4 DEF Max
<1>6. \A p \in S : Max(S) >= p => p <= Max(S)
  BY <1>1, <1>5
<1> QED BY <1>3, <1>5, <1>6

\* where a scheduler goes from a batch that is not its last
Target(k, stage, pv, category) ==
    k.distStage = stage /\ k.targetPV = pv /\ k.targetCategory = category
MovesOn(s, k) ==
    \/ /\ s.distStage = "CandiSel" /\ Target(k, "CandiSel", k.targetPV, s.targetCategory)
       /\ s.targetPV < k.targetPV
       /\ \A p \in Announced(s) : p > s.targetPV => k.targetPV <= p
    \/ /\ Target(s, "CandiSel", s.targetPV, "LI") /\ Target(k, "CandiSel", k.targetPV, "HI")
       /\ \A p \in Announced(s) : p <= s.targetPV /\ k.targetPV <= p
    \/ /\ Target(s, "CandiSel", s.targetPV, "HI") /\ Target(k, "SolSel", s.targetPV, "HI")
       /\ \A p \in Announced(s) : p <= s.targetPV
    \/ /\ s.distStage = "SolSel" /\ Target(k, "SolSel", k.targetPV, s.targetCategory)
       /\ k.targetPV < s.targetPV
       /\ \A p \in Announced(s) : p < s.targetPV => p <= k.targetPV
    \/ /\ Target(s, "SolSel", s.targetPV, "HI") /\ Target(k, "SolSel", k.targetPV, "LI")
       /\ \A p \in Announced(s) : s.targetPV <= p /\ p <= k.targetPV

\* NextTarget moves on through the announced numbers
LEMMA NextTargetMoves ==
  ASSUME NEW s \in SchedRecord, s.targetPV \in Announced(s),
         ~(s.distStage = "SolSel" /\ s.targetPV = PvMin(s) /\ s.targetCategory = "LI")
  PROVE  LET k == NextTarget(s)
         IN  /\ k = [s EXCEPT !.distStage = k.distStage, !.targetPV = k.targetPV,
                              !.targetCategory = k.targetCategory]
             /\ k \in SchedRecord /\ k.targetPV \in Announced(s)
             /\ MovesOn(s, k)
<1> DEFINE k     == NextTarget(s)
           N     == Announced(s)
           above == {p \in N : p > s.targetPV}
           below == {p \in N : p < s.targetPV}
           new(stage, pv, category) ==
              [s EXCEPT !.distStage = stage, !.targetPV = pv, !.targetCategory = category]
<1> SUFFICES /\ k = new(k.distStage, k.targetPV, k.targetCategory)
             /\ k \in SchedRecord /\ k.targetPV \in N /\ MovesOn(s, k)
  OBVIOUS
<1>1. N \subseteq PVs /\ N \subseteq Nat /\ s.targetPV \in N
  BY PVsAre DEF Announced
<1>2. /\ \A p \in N : PvMin(s) <= p /\ p <= PvMax(s)
      /\ PvMin(s) \in N /\ PvMax(s) \in N
  BY <1>1, LeastAndGreatest DEF PvMin, PvMax
<1>3. ASSUME NEW stage \in Stages, NEW pv \in N, NEW category \in Categories,
             k = new(stage, pv, category)
      PROVE  /\ k = new(k.distStage, k.targetPV, k.targetCategory)
             /\ k \in SchedRecord /\ Target(k, stage, pv, category)
  <2>1. new(stage, pv, category) \in SchedRecord
    BY <1>1, <1>3 DEF SchedRecord
  <2>2. Target(new(stage, pv, category), stage, pv, category)
    BY DEF Target, SchedRecord
  <2> HIDE DEF k, new
  <2> QED BY <1>3, <2>1, <2>2 DEF Target
<1>4. s = new(s.distStage, s.targetPV, s.targetCategory)
  BY DEF SchedRecord
<1>5. s.distStage \in Stages /\ s.targetCategory \in Categories
  BY DEF SchedRecord
<1>6. CASE s.distStage = "CandiSel" /\ above # {}
  <2>1. Min(above) \in above /\ \A p \in above : Min(above) <= p
    BY <1>1, <1>6, LeastAndGreatest
  <2>2. k = new(s.distStage, Min(above), s.targetCategory)
    BY <1>6 DEF NextTarget, SchedRecord
  <2>3. Min(above) \in N
    BY <2>1
  <2>4. /\ k = new(k.distStage, k.targetPV, k.targetCategory)
        /\ k \in SchedRecord /\ Target(k, s.distStage, Min(above), s.targetCategory)
    BY <1>3, <1>5, <2>2, <2>3
  <2>5. \A p \in N : p > s.targetPV => Min(above) <= p
    BY <2>1
  <2>6. s.targetPV < Min(above)
    BY <1>1, <2>1
  <2> HIDE DEF k, new
  <2> QED BY <1>6, <2>3, <2>4, <2>5, <2>6 DEF MovesOn, Target
<1>7. CASE s.distStage = "CandiSel" /\ above = {} /\ s.targetCategory = "LI"
  <2>1. k = new(s.distStage, PvMin(s), "HI")
    BY <1>7 DEF NextTarget, SchedRecord
  <2>2. /\ k = new(k.distStage, k.targetPV, k.targetCategory)
        /\ k \in SchedRecord /\ Target(k, s.distStage, PvMin(s), "HI")
    BY <1>2, <1>3, <1>5, <2>1 DEF Categories
  <2>3. \A p \in N : p <= s.targetPV
    BY <1>1, <1>7
  <2> HIDE DEF k, new
  <2> QED BY <1>2, <1>7, <2>2, <2>3 DEF MovesOn, Target
<1>8. CASE s.distStage = "CandiSel" /\ above = {} /\ s.targetCategory # "LI"
  <2>1. k = new("SolSel", s.targetPV, s.targetCategory)
    BY <1>8 DEF NextTarget, SchedRecord
  <2>2. /\ k = new(k.distStage, k.targetPV, k.targetCategory)
        /\ k \in SchedRecord /\ Target(k, "SolSel", s.targetPV, s.targetCategory)
    BY <1>1, <1>3, <1>5, <2>1 DEF Stages
  <2>3. \A p \in N : p <= s.targetPV
    BY <1>1, <1>8
  <2>4. s.targetCategory = "HI"
    BY <1>5, <1>8 DEF Categories
  <2> HIDE DEF k, new
  <2> QED BY <1>1, <1>8, <2>2, <2>3, <2>4 DEF MovesOn, Target
<1>9. CASE s.distStage # "CandiSel" /\ below # {}
  <2>1. Max(below) \in below /\ \A p \in below : p <= Max(below)
    BY <1>1, <1>9, LeastAndGreatest
  <2>2. k = new(s.distStage, Max(below), s.targetCategory)
    BY <1>9 DEF NextTarget, SchedRecord
  <2>3. Max(below) \in N /\ Max(below) < s.targetPV
    BY <2>1
  <2>4. /\ k = new(k.distStage, k.targetPV, k.targetCategory)
        /\ k \in SchedRecord /\ Target(k, s.distStage, Max(below), s.targetCategory)
    BY <1>3, <1>5, <2>2, <2>3
  <2>5. \A p \in N : p < s.targetPV => p <= Max(below)
    BY <2>1
  <2>6. s.distStage = "SolSel"
    BY <1>5, <1>9 DEF Stages
  <2> HIDE DEF k, new
  <2> QED BY <2>3, <2>4, <2>5, <2>6 DEF MovesOn, Target
<1>10. CASE s.distStage # "CandiSel" /\ below = {}
  <2>1. k = new(s.distStage, PvMax(s), "LI")
    BY <1>10 DEF NextTarget, SchedRecord
  <2>2. /\ k = new(k.distStage, k.targetPV, k.targetCategory)
        /\ k \in SchedRecord /\ Target(k, s.distStage, PvMax(s), "LI")
    BY <1>2, <1>3, <1>5, <2>1 DEF Categories
  <2>3. \A p \in N : s.targetPV <= p
    BY <1>1, <1>10
  <2>4. s.distStage = "SolSel"
    BY <1>5, <1>10 DEF Stages
  <2>5. s.targetPV = PvMin(s)
    BY <1>1, <1>2, <2>3
  <2>6. s.targetCategory = "HI"
    BY <1>5, <2>4, <2>5 DEF Categories
  <2> HIDE DEF k, new
  <2> QED BY <1>2, <2>2, <2>3, <2>4, <2>6 DEF MovesOn, Target
<1> QED BY <1>6, <1>7, <1>8, <1>9, <1>10

\* the next batch of an announced number is that after the last one
LEMMA MovesOnStep ==
  ASSUME NEW s \in SchedRecord, NEW k \in SchedRecord, s.targetPV \in Announced(s),
         k.targetPV \in Announced(s), MovesOn(s, k),
         NEW p \in Announced(s), NEW f \in 1 .. 4
  PROVE  Before(f, p, PhaseOf(k), k.targetPV)
         <=> Before(f, p, PhaseOf(s), s.targetPV) \/ (f = PhaseOf(s) /\ p = s.targetPV)
<1>1. p \in Nat /\ s.targetPV \in Nat /\ k.targetPV \in Nat
  BY PVsAre DEF Announced
<1>2. s.distStage \in Stages /\ s.targetCategory \in Categories
  BY DEF SchedRecord
<1>3. CASE /\ s.distStage = "CandiSel" /\ Target(k, "CandiSel", k.targetPV, s.targetCategory)
           /\ s.targetPV < k.targetPV
           /\ \A i \in Announced(s) : i > s.targetPV => k.targetPV <= i
  <2>1. PhaseOf(k) = PhaseOf(s) /\ PhaseOf(s) \in 1 .. 2
    BY <1>3 DEF PhaseOf, Phase, Target
  <2> QED BY <1>1, <1>3, <2>1 DEF Before
<1>4. CASE /\ Target(s, "CandiSel", s.targetPV, "LI") /\ Target(k, "CandiSel", k.targetPV, "HI")
           /\ \A i \in Announced(s) : i <= s.targetPV /\ k.targetPV <= i
  <2>1. PhaseOf(k) = 2 /\ PhaseOf(s) = 1
    BY <1>4 DEF PhaseOf, Phase, Target
  <2> QED BY <1>1, <1>4, <2>1 DEF Before
<1>5. CASE /\ Target(s, "CandiSel", s.targetPV, "HI") /\ Target(k, "SolSel", s.targetPV, "HI")
           /\ \A i \in Announced(s) : i <= s.targetPV
  <2>1. PhaseOf(k) = 3 /\ PhaseOf(s) = 2 /\ k.targetPV = s.targetPV
    BY <1>5 DEF PhaseOf, Phase, Target
  <2> QED BY <1>1, <1>5, <2>1 DEF Before
<1>6. CASE /\ s.distStage = "SolSel" /\ Target(k, "SolSel", k.targetPV, s.targetCategory)
           /\ k.targetPV < s.targetPV
           /\ \A i \in Announced(s) : i < s.targetPV => i <= k.targetPV
  <2>1. PhaseOf(k) = PhaseOf(s) /\ PhaseOf(s) \in 3 .. 4
    BY <1>6 DEF PhaseOf, Phase, Target
  <2> QED BY <1>1, <1>6, <2>1 DEF Before
<1>7. CASE /\ Target(s, "SolSel", s.targetPV, "HI") /\ Target(k, "SolSel", k.targetPV, "LI")
           /\ \A i \in Announced(s) : s.targetPV <= i /\ i <= k.targetPV
  <2>1. PhaseOf(k) = 4 /\ PhaseOf(s) = 3
    BY <1>7 DEF PhaseOf, Phase, Target
  <2> QED BY <1>1, <1>7, <2>1 DEF Before
<1> QED BY <1>3, <1>4, <1>5, <1>6, <1>7 DEF MovesOn

\* the number of an application that waits for the schedule is announced
LEMMA NumberAnnounced ==
  ASSUME NEW R, NEW g, NEW s \in SchedRecord, Counted(R, g, s),
         NEW a \in s.pendingApps, NEW p \in PVs, HasNumber(R, g, a, p)
  PROVE  p \in Announced(s)
<1>1. a \in Announcers(R, g, s, p)
  BY DEF Announcers
<1>2. IsFiniteSet(Announcers(R, g, s, p))
  <2>1. IsFiniteSet(Apps) /\ Announcers(R, g, s, p) \subseteq Apps
    BY MecTypesAssumption, FS_Interval DEF Apps, Announcers, SchedRecord
  <2> QED BY <2>1, FS_Subset
<1>3. Cardinality(Announcers(R, g, s, p)) # 0
  BY <1>1, <1>2, FS_EmptySet
<1>4. s.pvCounter[p] # 0 /\ s.pvCounter[p] \in Nat
  BY <1>3 DEF Counted, SchedRecord
<1> QED BY <1>4 DEF Announced

\* the candidates stay in order as the scheduler moves on
LEMMA MovesOnOrdered ==
  ASSUME NEW R, R \in [Ues -> Orders \cup {<<>>}], NEW g,
         NEW s \in SchedRecord, NEW k \in SchedRecord, Counted(R, g, s), Ordered(R, g, s),
         s.postBatch, s.started, MovesOn(s, k), ~k.postBatch, k.started,
         k.candidateInsts = s.candidateInsts, k.pendingApps = s.pendingApps
  PROVE  Ordered(R, g, k)
<1> DEFINE q == s.candidateInsts
<1>1. /\ \A i \in DOMAIN q : q[i].app \in s.pendingApps
      /\ \A i, j \in DOMAIN q : \A m, n \in PVs :
            i < j /\ HasNumber(R, g, q[i].app, m) /\ HasNumber(R, g, q[j].app, n)
            => RankOf(q[i]) < RankOf(q[j]) \/ (RankOf(q[i]) = RankOf(q[j]) /\ m <= n)
  BY DEF Ordered
<1>2. ASSUME NEW i \in DOMAIN q, NEW m \in PVs, HasNumber(R, g, q[i].app, m)
      PROVE  \/ RankOf(q[i]) < Rank(k.targetCategory)
             \/ /\ RankOf(q[i]) = Rank(k.targetCategory)
                /\ m < k.targetPV \/ (m = k.targetPV /\ k.distStage # "CandiSel")
  <2>1. \/ RankOf(q[i]) < Rank(s.targetCategory)
        \/ /\ RankOf(q[i]) = Rank(s.targetCategory)
           /\ m < s.targetPV \/ (m = s.targetPV /\ s.distStage = "CandiSel")
    BY <1>2 DEF Ordered
  <2>2. m \in Announced(s)
    BY <1>1, <1>2, NumberAnnounced
  <2>3. m \in Nat /\ s.targetPV \in Nat /\ k.targetPV \in Nat /\ RankOf(q[i]) \in 1 .. 2
    BY PVsAre DEF SchedRecord, RankOf, Rank
  <2>4. Rank("LI") = 1 /\ Rank("HI") = 2
    BY DEF Rank
  <2> HIDE DEF q
  <2> QED BY <2>1, <2>2, <2>3, <2>4 DEF MovesOn, Target
<1> QED BY <1>1, <1>2 DEF Ordered

\* after the last batch no candidate is left
LEMMA LastBatchOrdered ==
  ASSUME NEW R, R \in [Ues -> Orders \cup {<<>>}], NEW g, NEW s \in SchedRecord,
         Counted(R, g, s), Ordered(R, g, s), s.postBatch,
         s.distStage = "SolSel", s.targetCategory = "LI", s.targetPV = PvMin(s)
  PROVE  s.candidateInsts = <<>>
<1> DEFINE q == s.candidateInsts
<1> SUFFICES ASSUME q # <<>> PROVE FALSE
  OBVIOUS
<1>1. 1 \in DOMAIN q
  BY DEF SchedRecord
<1>2. PICK m \in PVs : HasNumber(R, g, q[1].app, m)
  BY <1>1 DEF Ordered, Counted
<1>3. q[1].app \in s.pendingApps
  BY <1>1 DEF Ordered
<1>4. m \in Announced(s) /\ Announced(s) \subseteq PVs
  BY <1>2, <1>3, NumberAnnounced DEF Announced
<1>5. s.targetPV <= m
  BY <1>4, LeastAndGreatest DEF PvMin
<1>6. RankOf(q[1]) < 1 \/ m < s.targetPV
  BY <1>1, <1>2 DEF Ordered, Rank
<1>7. RankOf(q[1]) \in 1 .. 2 /\ m \in Nat /\ s.targetPV \in Nat
  BY PVsAre DEF RankOf, Rank, SchedRecord
<1> QED BY <1>5, <1>6, <1>7

\* k is as s, past its batch, for every application that has a number here
PastBatch(R, g, s, k) ==
    \A a \in Apps : \A p \in PVs : \A f \in 1 .. 4 :
        HasNumber(R, g, a, p)
        => (Beyond(k, a, f, p) <=> Beyond(s, a, f, p) \/ (f = PhaseOf(s) /\ p = s.targetPV))

\* the tokens of a batch return to their vehicles
LEMMA BatchLeaves ==
  ASSUME NEW A, NEW S, NEW R, Core(A, S, R), NEW g \in Gnbs, S[g].postBatch,
         NEW k \in SchedRecord, k.pv2Tokens = S[g].pv2Tokens \ Batch(S[g]),
         k.finalSchedule = S[g].finalSchedule, k.maxRB = S[g].maxRB, k.maxCU = S[g].maxCU,
         PastBatch(R, g, S[g], k), Counted(R, g, k), Batches(R, g, k), Ordered(R, g, k)
  PROVE  Core(A \cup {[to |-> NoGnb, token |-> t] : t \in Batch(S[g])}, [S EXCEPT ![g] = k], R)
<1> DEFINE W == Gnbs \cup {NoGnb}
           s == S[g]
           D == Batch(s)
           B == A \cup {[to |-> NoGnb, token |-> t] : t \in D}
           Z == [S EXCEPT ![g] = k]
<1>1. /\ Typed(A, S, R) /\ OneToken(A, S) /\ Remembered(A, S) /\ TokensFine(A, S, R)
      /\ S \in [Gnbs -> SchedRecord] /\ SchedFine(R, g, s) /\ s \in SchedRecord
      /\ \A h \in Gnbs : SchedFine(R, h, S[h])
      /\ R \in [Ues -> Orders \cup {<<>>}] /\ NoGnb \notin Gnbs
  BY MecTypesAssumption DEF Core, Typed
<1>2. D \subseteq s.pv2Tokens /\ D \subseteq Token
  BY <1>1 DEF Batch, SchedRecord
<1>3. Z \in [Gnbs -> SchedRecord] /\ Z[g] = k /\ \A h \in Gnbs : h # g => Z[h] = S[h]
  BY <1>1
<1> HIDE DEF Z, D
<1>4. \A u \in D : Located(A, S, g, u) /\ u \in Token
  BY <1>2 DEF Located
<1>5. ASSUME NEW w \in W, NEW u \in Token, Located(B, Z, w, u)
      PROVE  \/ u \in D /\ w = NoGnb
             \/ u \notin D /\ Located(A, S, w, u)
  <2>1. CASE [to |-> w, token |-> u] \in A
    <3>1. Located(A, S, w, u)
      BY <2>1 DEF Located
    <3>2. u \notin D
      <4> SUFFICES ASSUME u \in D PROVE FALSE
        OBVIOUS
      <4>1. w = g
        BY <1>1, <1>4, <3>1 DEF OneToken
      <4> QED BY <1>1, <1>2, <2>1, <4>1 DEF OneToken
    <3> QED BY <3>1, <3>2
  <2>2. CASE [to |-> w, token |-> u] \notin A /\ [to |-> w, token |-> u] \in B
    BY <2>2
  <2>3. CASE w = g /\ u \in Z[w].pv2Tokens
    <3>1. u \in s.pv2Tokens /\ u \notin D
      BY <1>3, <2>3 DEF D
    <3> QED BY <2>3, <3>1 DEF Located
  <2>4. CASE w \in Gnbs /\ w # g /\ u \in Z[w].pv2Tokens
    <3>1. Located(A, S, w, u)
      BY <1>3, <2>4 DEF Located
    <3>2. u \notin D
      BY <1>1, <1>4, <2>4, <3>1 DEF OneToken
    <3> QED BY <3>1, <3>2
  <2> QED BY <1>5, <2>1, <2>2, <2>3, <2>4 DEF Located
<1>6. Typed(B, Z, R)
  BY <1>1, <1>2, <1>3 DEF Typed
<1>7. OneToken(B, Z)
  <2>1. ASSUME NEW w \in W, NEW v \in W, NEW t \in Token, NEW u \in Token,
               Located(B, Z, w, t), Located(B, Z, v, u), t.app = u.app
        PROVE  w = v /\ t = u
    <3>1. CASE t \in D /\ u \in D
      <4>1. w = NoGnb /\ v = NoGnb
        BY <1>5, <2>1, <3>1
      <4>2. t = u
        BY <1>1, <1>4, <2>1, <3>1 DEF OneToken
      <4> QED BY <4>1, <4>2
    <3>2. CASE t \notin D /\ u \notin D
      <4>1. Located(A, S, w, t) /\ Located(A, S, v, u)
        BY <1>5, <2>1, <3>2
      <4> QED BY <1>1, <2>1, <4>1 DEF OneToken
    <3>3. CASE t \in D /\ u \notin D
      <4>1. Located(A, S, g, t) /\ Located(A, S, v, u)
        BY <1>4, <1>5, <2>1, <3>3
      <4> QED BY <1>1, <2>1, <3>3, <4>1 DEF OneToken
    <3>4. CASE t \notin D /\ u \in D
      <4>1. Located(A, S, w, t) /\ Located(A, S, g, u)
        BY <1>4, <1>5, <2>1, <3>4
      <4> QED BY <1>1, <2>1, <3>4, <4>1 DEF OneToken
    <3> QED BY <3>1, <3>2, <3>3, <3>4
  <2>2. ASSUME NEW h \in Gnbs, NEW t \in Z[h].pv2Tokens
        PROVE  [to |-> h, token |-> t] \notin B
    <3>1. t \in S[h].pv2Tokens
      BY <1>3, <2>2
    <3>2. [to |-> h, token |-> t] \notin A
      BY <1>1, <3>1 DEF OneToken
    <3> QED BY <1>1, <3>2
  <2> QED BY <2>1, <2>2 DEF OneToken
<1>8. \A h \in Gnbs : Z[h].finalSchedule = S[h].finalSchedule
  BY <1>3
<1>9. Remembered(B, Z)
  <2>1. ASSUME NEW h \in Gnbs, NEW x \in Z[h].finalSchedule, NEW w \in W, NEW t \in Token,
               Located(B, Z, w, t), t.app = x.app
        PROVE  t.isScheduled
    <3>1. x \in S[h].finalSchedule
      BY <1>8, <2>1
    <3>2. \E v \in W : Located(A, S, v, t)
      BY <1>4, <1>5, <2>1
    <3> QED BY <1>1, <2>1, <3>1, <3>2 DEF Remembered
  <2> QED BY <1>1, <1>8, <2>1 DEF Remembered
<1>10. ASSUME NEW w \in W, NEW u \in Token, Located(B, Z, w, u)
       PROVE  OnRoute(R, w, u) /\ InStep(Z, R, w, u)
  <2> DEFINE o == Reach(R, u.app)
  <2>1. /\ u.app \in Apps /\ DOMAIN o \subseteq PVs
        /\ \A p \in DOMAIN o : o[p] \in Gnbs /\ HasNumber(R, o[p], u.app, p)
        /\ \A p, q : HasNumber(R, g, u.app, p) /\ HasNumber(R, g, u.app, q) => p = q
    BY <1>1, OneNumber DEF Token, HasNumber
  <2>2. CASE u \in D /\ w = NoGnb
    <3>1. OnRoute(R, g, u) /\ InStep(S, R, g, u)
      BY <1>1, <1>4, <2>2 DEF TokensFine
    <3>2. OnRoute(R, w, u) /\ HasNumber(R, g, u.app, u.pv)
      BY <1>1, <2>2, <3>1 DEF OnRoute, HasNumber
    <3>3. TokenPhase(u) = PhaseOf(s) /\ u.pv = s.targetPV
      BY <2>2 DEF D, Batch, TokenPhase, PhaseOf
    <3>4. ASSUME NEW p \in DOMAIN o, NEW f \in 1 .. 4
          PROVE  Passed(w, u, f, p) <=> Beyond(Z[o[p]], u.app, f, p)
      <4>1. Before(f, p, TokenPhase(u), u.pv) <=> Beyond(S[o[p]], u.app, f, p)
        BY <1>1, <3>1, <3>4 DEF InStep, Passed
      <4>2. CASE o[p] = g
        <5>1. Beyond(k, u.app, f, p) <=> Beyond(s, u.app, f, p) \/ (f = PhaseOf(s) /\ p = s.targetPV)
          BY <2>1, <3>4, <4>2 DEF PastBatch
        <5> QED BY <1>3, <2>2, <3>3, <4>1, <4>2, <5>1 DEF Passed
      <4>3. CASE o[p] # g
        <5>1. p # u.pv
          BY <3>2, <4>3 DEF HasNumber
        <5> QED BY <1>3, <2>1, <2>2, <4>1, <4>3, <5>1 DEF Passed
      <4> QED BY <4>2, <4>3
    <3>5. InStep(Z, R, w, u)
      BY <3>4 DEF InStep
    <3> QED BY <3>2, <3>5
  <2>3. CASE u \notin D /\ Located(A, S, w, u)
    <3>1. OnRoute(R, w, u) /\ InStep(S, R, w, u)
      BY <1>1, <2>3 DEF TokensFine
    <3>2. ASSUME NEW p \in DOMAIN o, NEW f \in 1 .. 4
          PROVE  Passed(w, u, f, p) <=> Beyond(Z[o[p]], u.app, f, p)
      <4>1. Passed(w, u, f, p) <=> Beyond(S[o[p]], u.app, f, p)
        BY <3>1, <3>2 DEF InStep
      <4>2. CASE o[p] = g
        <5>1. Beyond(k, u.app, f, p) <=> Beyond(s, u.app, f, p) \/ (f = PhaseOf(s) /\ p = s.targetPV)
          BY <2>1, <3>2, <4>2 DEF PastBatch
        <5>2. ASSUME p = s.targetPV PROVE u.app \notin s.pendingApps
          <6> SUFFICES ASSUME u.app \in s.pendingApps PROVE FALSE
            OBVIOUS
          <6>1. u.app \in Announcers(R, g, s, s.targetPV)
            BY <2>1, <3>2, <4>2, <5>2 DEF Announcers
          <6>2. u.app \in BatchApps(s)
            BY <1>1, <6>1 DEF SchedFine, Batches
          <6>3. PICK v \in D : v.app = u.app
            BY <6>2 DEF BatchApps, D
          <6> QED BY <1>1, <1>4, <2>3, <6>3 DEF OneToken
        <5>3. p = s.targetPV => Beyond(s, u.app, f, p)
          BY <5>2 DEF Beyond
        <5> QED BY <1>3, <4>1, <4>2, <5>1, <5>3
      <4>3. CASE o[p] # g
        BY <1>3, <2>1, <4>1, <4>3
      <4> QED BY <4>2, <4>3
    <3>3. InStep(Z, R, w, u)
      BY <3>2 DEF InStep
    <3> QED BY <3>1, <3>3
  <2> QED BY <1>5, <1>10, <2>2, <2>3
<1>11. TokensFine(B, Z, R)
  BY <1>10 DEF TokensFine
<1>12. SchedFine(R, g, k)
  <2>1. Good(k)
    BY <1>1 DEF SchedFine, Good, OnePerApp, Feasible
  <2> QED BY <2>1 DEF SchedFine
<1>13. \A h \in Gnbs : SchedFine(R, h, Z[h])
  <2> SUFFICES ASSUME NEW h \in Gnbs PROVE SchedFine(R, h, Z[h])
    OBVIOUS
  <2>1. CASE h = g
    BY <1>3, <1>12, <2>1
  <2>2. CASE h # g
    BY <1>1, <1>3, <2>2
  <2> QED BY <2>1, <2>2
<1> QED BY <1>6, <1>7, <1>9, <1>11, <1>13 DEF Core, Z, D

\* what the end of a round leaves
LEMMA FinishRoundIs ==
  ASSUME NEW s \in SchedRecord, 1 \in PVs
  PROVE  LET k == FinishRound(s)
         IN  /\ k \in SchedRecord /\ k.pv2Tokens = {} /\ k.finalSchedule = s.finalSchedule
             /\ k.maxRB = s.maxRB /\ k.maxCU = s.maxCU /\ k.pendingApps = {}
             /\ k.pvCounter = [p \in PVs |-> 0] /\ ~k.started /\ k.postBatch = s.postBatch
             /\ k.instGenTimer = s.instGenTimer /\ k.candidateInsts = s.candidateInsts
<1>1. [p \in PVs |-> 0] \in [PVs -> Nat] /\ "LI" \in Categories
  BY DEF Categories
<1>2. FinishRound(s) \in SchedRecord
  BY <1>1 DEF FinishRound, SchedRecord
<1> QED BY <1>2 DEF FinishRound, SchedRecord

\* the last batch of a round ends it
LEMMA FinishRoundKeeps ==
  ASSUME NEW A, NEW S, NEW R, Core(A, S, R), NEW g \in Gnbs, S[g].postBatch,
         S[g].distStage = "SolSel", S[g].targetPV = PvMin(S[g]), S[g].targetCategory = "LI",
         NEW sent, sent = [S[g] EXCEPT !.postBatch = FALSE, !.out = Batch(S[g]),
                                       !.pv2Tokens = @ \ Batch(S[g])]
  PROVE  Core(A \cup {[to |-> NoGnb, token |-> t] : t \in Batch(S[g])},
              [S EXCEPT ![g] = FinishRound(sent)], R)
<1> DEFINE s == S[g]
           k == FinishRound(sent)
<1>1. /\ Typed(A, S, R) /\ TokensFine(A, S, R) /\ SchedFine(R, g, s) /\ s \in SchedRecord
      /\ R \in [Ues -> Orders \cup {<<>>}]
  BY DEF Core, Typed
<1>2. Batch(s) \subseteq Token /\ 1 \in PVs
  <2>1. s.targetPV \in PVs
    BY <1>1 DEF SchedRecord
  <2> QED BY <1>1, <2>1, PVsAre DEF Batch, SchedRecord
<1>3. /\ k \in SchedRecord /\ k.pv2Tokens = {} /\ k.finalSchedule = s.finalSchedule
      /\ k.maxRB = s.maxRB /\ k.maxCU = s.maxCU /\ k.pendingApps = {}
      /\ k.pvCounter = [p \in PVs |-> 0] /\ ~k.started /\ ~k.postBatch
      /\ k.instGenTimer = s.instGenTimer /\ k.candidateInsts = s.candidateInsts
  <2>1. /\ sent \in SchedRecord /\ sent.finalSchedule = s.finalSchedule /\ ~sent.postBatch
        /\ sent.maxRB = s.maxRB /\ sent.maxCU = s.maxCU
        /\ sent.instGenTimer = s.instGenTimer /\ sent.candidateInsts = s.candidateInsts
    BY <1>1, <1>2 DEF SchedRecord
  <2> QED BY <1>2, <2>1, FinishRoundIs
<1> HIDE DEF k
<1>4. \A p \in Announced(s) : s.targetPV <= p /\ p \in Nat /\ s.targetPV \in Nat
  <2>1. s.targetPV \in Announced(s) /\ Announced(s) \subseteq PVs
    BY <1>1 DEF SchedFine, Batches, Counted, Announced
  <2> QED BY <2>1, PVsAre, LeastAndGreatest DEF PvMin
<1>5. PhaseOf(s) = 4
  BY DEF PhaseOf, Phase
<1>6. s.pv2Tokens \ Batch(s) = {}
  <2> SUFFICES ASSUME NEW t \in s.pv2Tokens PROVE t \in Batch(s)
    OBVIOUS
  <2>1. t \in Token /\ Located(A, S, g, t)
    BY <1>1 DEF SchedRecord, Located
  <2>2. /\ HasNumber(R, g, t.app, t.pv) /\ t.app \in s.pendingApps
        /\ ~Before(TokenPhase(t), t.pv, 4, s.targetPV)
    BY <1>1, <1>5, <2>1, TokenAnnounced
  <2>3. t.pv \in Announced(s)
    BY <1>1, <2>1, <2>2, NumberAnnounced DEF SchedFine, Token
  <2>4. TokenPhase(t) = 4 /\ t.pv = s.targetPV
    <3>1. TokenPhase(t) \in 1 .. 4
      BY DEF TokenPhase, Phase
    <3> QED BY <1>4, <2>2, <2>3, <3>1 DEF Before
  <2>5. t.stage = "SolSel" /\ t.category = "LI"
    BY <2>1, <2>4 DEF TokenPhase, Phase, Token, Stages, Categories
  <2> QED BY <2>4, <2>5 DEF Batch
<1>7. PastBatch(R, g, s, k)
  <2> SUFFICES ASSUME NEW a \in s.pendingApps, NEW p \in PVs, NEW f \in 1 .. 4,
                      HasNumber(R, g, a, p)
               PROVE  Beyond(s, a, f, p) \/ (f = PhaseOf(s) /\ p = s.targetPV)
    BY <1>3 DEF PastBatch, Beyond
  <2>1. p \in Announced(s)
    BY <1>1, NumberAnnounced DEF SchedFine
  <2> QED BY <1>4, <1>5, <2>1 DEF Beyond, Before
<1>8. Counted(R, g, k)
  <2>1. \A p \in PVs : Announcers(R, g, k, p) = {}
    BY <1>3 DEF Announcers
  <2> QED BY <1>3, <2>1, FS_EmptySet DEF Counted
<1>9. Batches(R, g, k)
  BY <1>1, <1>3 DEF SchedFine, Batches
<1>10. Ordered(R, g, k)
  <2>1. k.candidateInsts = <<>>
    BY <1>1, <1>3, LastBatchOrdered DEF SchedFine
  <2> QED BY <2>1 DEF Ordered
<1>11. k.pv2Tokens = s.pv2Tokens \ Batch(s)
  BY <1>3, <1>6
<1> QED BY <1>3, <1>7, <1>8, <1>9, <1>10, <1>11, BatchLeaves DEF k

\* another batch of a round makes the next one possible
LEMMA NextTargetKeeps ==
  ASSUME NEW A, NEW S, NEW R, Core(A, S, R), NEW g \in Gnbs, S[g].postBatch,
         ~(/\ S[g].distStage = "SolSel" /\ S[g].targetPV = PvMin(S[g])
           /\ S[g].targetCategory = "LI"),
         NEW sent, sent = [S[g] EXCEPT !.postBatch = FALSE, !.out = Batch(S[g]),
                                       !.pv2Tokens = @ \ Batch(S[g])]
  PROVE  LET k == [NextTarget(sent) EXCEPT !.batchOngoing = FALSE]
         IN  /\ Core(A \cup {[to |-> NoGnb, token |-> t] : t \in Batch(S[g])},
                     [S EXCEPT ![g] = k], R)
             /\ k.out = Batch(S[g])
<1> DEFINE s == S[g]
           n == NextTarget(sent)
           k == [n EXCEPT !.batchOngoing = FALSE]
<1> SUFFICES /\ Core(A \cup {[to |-> NoGnb, token |-> t] : t \in Batch(s)},
                     [S EXCEPT ![g] = k], R)
             /\ k.out = Batch(s)
  OBVIOUS
<1>1. /\ Typed(A, S, R) /\ SchedFine(R, g, s) /\ s \in SchedRecord
      /\ R \in [Ues -> Orders \cup {<<>>}]
  BY DEF Core, Typed
<1>2. Batch(s) \subseteq Token
  BY <1>1 DEF Batch, SchedRecord
<1>3. /\ sent \in SchedRecord /\ sent.pv2Tokens = s.pv2Tokens \ Batch(s)
      /\ sent.out = Batch(s) /\ ~sent.postBatch
      /\ sent.finalSchedule = s.finalSchedule /\ sent.maxRB = s.maxRB /\ sent.maxCU = s.maxCU
      /\ sent.pendingApps = s.pendingApps /\ sent.distStage = s.distStage
      /\ sent.targetPV = s.targetPV /\ sent.targetCategory = s.targetCategory
      /\ sent.pvCounter = s.pvCounter /\ sent.candidateInsts = s.candidateInsts
      /\ sent.started = s.started /\ sent.instGenTimer = s.instGenTimer
  BY <1>1, <1>2 DEF SchedRecord
<1>4. Announced(sent) = Announced(s) /\ PvMin(sent) = PvMin(s)
  BY <1>3 DEF Announced, PvMin
<1>5. s.started /\ s.targetPV \in Announced(s) /\ ~s.instGenTimer
  BY <1>1 DEF SchedFine, Batches, Counted
<1>6. /\ n = [sent EXCEPT !.distStage = n.distStage, !.targetPV = n.targetPV,
                          !.targetCategory = n.targetCategory]
      /\ n \in SchedRecord /\ n.targetPV \in Announced(sent) /\ MovesOn(sent, n)
  <2> HIDE DEF n
  <2>1. ~(sent.distStage = "SolSel" /\ sent.targetPV = PvMin(sent) /\ sent.targetCategory = "LI")
    BY <1>3, <1>4
  <2>2. sent.targetPV \in Announced(sent)
    BY <1>3, <1>4, <1>5
  <2> QED BY <1>3, <2>1, <2>2, NextTargetMoves DEF n
<1> HIDE DEF n
<1>7. /\ n.pv2Tokens = sent.pv2Tokens /\ n.out = sent.out /\ n.postBatch = sent.postBatch
      /\ n.finalSchedule = sent.finalSchedule /\ n.maxRB = sent.maxRB /\ n.maxCU = sent.maxCU
      /\ n.pendingApps = sent.pendingApps /\ n.pvCounter = sent.pvCounter
      /\ n.candidateInsts = sent.candidateInsts /\ n.started = sent.started
      /\ n.instGenTimer = sent.instGenTimer
  <2> DEFINE new(stage, pv, category) ==
                [sent EXCEPT !.distStage = stage, !.targetPV = pv, !.targetCategory = category]
         Same(e) == /\ e.pv2Tokens = sent.pv2Tokens /\ e.out = sent.out
                    /\ e.postBatch = sent.postBatch /\ e.finalSchedule = sent.finalSchedule
                    /\ e.maxRB = sent.maxRB /\ e.maxCU = sent.maxCU
                    /\ e.pendingApps = sent.pendingApps /\ e.pvCounter = sent.pvCounter
                    /\ e.candidateInsts = sent.candidateInsts /\ e.started = sent.started
                    /\ e.instGenTimer = sent.instGenTimer
  <2>1. ASSUME NEW stage, NEW pv, NEW category PROVE Same(new(stage, pv, category))
    <3>1. sent \in SchedRecord
      BY <1>3
    <3> QED BY <3>1 DEF SchedRecord
  <2>2. n = new(n.distStage, n.targetPV, n.targetCategory)
    BY <1>6
  <2>3. Same(n)
    <3> HIDE DEF new, Same
    <3> QED BY <2>1, <2>2
  <2> QED BY <2>3
<1>8. /\ k \in SchedRecord
      /\ k.pv2Tokens = n.pv2Tokens /\ k.out = n.out /\ k.postBatch = n.postBatch
      /\ k.finalSchedule = n.finalSchedule /\ k.maxRB = n.maxRB /\ k.maxCU = n.maxCU
      /\ k.pendingApps = n.pendingApps /\ k.pvCounter = n.pvCounter
      /\ k.candidateInsts = n.candidateInsts /\ k.started = n.started
      /\ k.instGenTimer = n.instGenTimer /\ k.distStage = n.distStage
      /\ k.targetPV = n.targetPV /\ k.targetCategory = n.targetCategory
  BY <1>6 DEF SchedRecord
<1> HIDE DEF k
<1>9. MovesOn(s, k) /\ k.targetPV \in Announced(s)
  BY <1>3, <1>4, <1>6, <1>8 DEF MovesOn, Target
<1>10. PastBatch(R, g, s, k)
  <2> SUFFICES ASSUME NEW a \in Apps, NEW p \in PVs, NEW f \in 1 .. 4, HasNumber(R, g, a, p)
               PROVE  Beyond(k, a, f, p)
                      <=> Beyond(s, a, f, p) \/ (f = PhaseOf(s) /\ p = s.targetPV)
    BY DEF PastBatch
  <2>1. CASE a \notin s.pendingApps
    BY <1>3, <1>7, <1>8, <2>1 DEF Beyond
  <2>2. CASE a \in s.pendingApps
    <3>1. p \in Announced(s)
      BY <1>1, <2>2, NumberAnnounced DEF SchedFine
    <3>2. Before(f, p, PhaseOf(k), k.targetPV)
          <=> Before(f, p, PhaseOf(s), s.targetPV) \/ (f = PhaseOf(s) /\ p = s.targetPV)
      BY <1>1, <1>5, <1>8, <1>9, <3>1, MovesOnStep
    <3> QED BY <1>3, <1>7, <1>8, <2>2, <3>2 DEF Beyond
  <2> QED BY <2>1, <2>2
<1>11. Counted(R, g, k)
  <2>1. k.pendingApps = s.pendingApps /\ k.pvCounter = s.pvCounter
    BY <1>3, <1>7, <1>8
  <2>2. \A p \in PVs : Announcers(R, g, k, p) = Announcers(R, g, s, p)
    BY <2>1 DEF Announcers
  <2>3. Announced(k) = Announced(s)
    BY <2>1 DEF Announced
  <2> QED BY <1>1, <1>9, <2>1, <2>2, <2>3 DEF SchedFine, Counted
<1>12. Batches(R, g, k)
  BY <1>3, <1>5, <1>7, <1>8 DEF Batches
<1>13. Ordered(R, g, k)
  BY <1>1, <1>3, <1>5, <1>7, <1>8, <1>9, MovesOnOrdered, ZenonT(60) DEF SchedFine
<1>14. Core(A \cup {[to |-> NoGnb, token |-> t] : t \in Batch(s)}, [S EXCEPT ![g] = k], R)
  <2>1. /\ k.pv2Tokens = s.pv2Tokens \ Batch(s) /\ k.finalSchedule = s.finalSchedule
        /\ k.maxRB = s.maxRB /\ k.maxCU = s.maxCU
    BY <1>3, <1>7, <1>8
  <2> QED BY <1>8, <1>10, <1>11, <1>12, <1>13, <2>1, BatchLeaves
<1> QED BY <1>3, <1>7, <1>8, <1>14

\* the end of a batch
LEMMA PostBatchKeeps ==
  ASSUME NEW A, NEW S, NEW R, Core(A, S, R), NEW g \in Gnbs, S[g].postBatch
  PROVE  LET h == PostBatchScheduling(S[g])
         IN  Core(A \cup {[to |-> NoGnb, token |-> t] : t \in h.out},
                  [S EXCEPT ![g] = [h EXCEPT !.out = {}]], R)
<1> DEFINE s    == S[g]
           h    == PostBatchScheduling(s)
           sent == [s EXCEPT !.postBatch = FALSE, !.out = Batch(s), !.pv2Tokens = @ \ Batch(s)]
           B    == A \cup {[to |-> NoGnb, token |-> t] : t \in Batch(s)}
           last == s.distStage = "SolSel" /\ s.targetPV = PvMin(s) /\ s.targetCategory = "LI"
<1> SUFFICES Core(A \cup {[to |-> NoGnb, token |-> t] : t \in h.out},
                  [S EXCEPT ![g] = [h EXCEPT !.out = {}]], R)
  OBVIOUS
<1>1. S \in [Gnbs -> SchedRecord] /\ s \in SchedRecord
  BY DEF Core, Typed
<1>2. CASE last
  <2>1. h = FinishRound(sent)
    BY <1>2 DEF PostBatchScheduling
  <2>2. Core(B, [S EXCEPT ![g] = FinishRound(sent)], R)
    BY <1>2, FinishRoundKeeps
  <2>3. Core(B, [S EXCEPT ![g] = h], R)
    BY <2>1, <2>2
  <2>4. h.out = Batch(s)
    BY <1>1, <2>1 DEF FinishRound, SchedRecord
  <2> HIDE DEF h
  <2> QED BY <1>1, <2>3, <2>4, OutCleared
<1>3. CASE ~last
  <2> DEFINE k == [NextTarget(sent) EXCEPT !.batchOngoing = FALSE]
  <2>1. h = TryBatch(k)
    BY <1>3 DEF PostBatchScheduling
  <2>2. Core(B, [S EXCEPT ![g] = k], R) /\ k.out = Batch(s)
    BY <1>3, NextTargetKeeps
  <2> HIDE DEF h, k
  <2>3. Core(B, [S EXCEPT ![g] = [h EXCEPT !.out = {}]], R) /\ Works(k, h)
    <3> HIDE DEF B
    <3> QED BY <1>1, <2>1, <2>2, ThenTryBatch
  <2>4. h.out = Batch(s)
    BY <2>2, <2>3 DEF Works
  <2> QED BY <2>3, <2>4
<1> QED BY <1>2, <1>3

-----------------------------------------------------------------------------
(* The vehicles and the periods.                                            *)

\* the numbers a vehicle has given are those up to the number of gNBs it reaches
LEMMA RouteLength ==
  ASSUME NEW o \in Orders
  PROVE  Len(o) \in PVs /\ DOMAIN o = 1 .. Len(o) /\ 1 \in DOMAIN o
<1>1. PICK n \in PVs : o \in [1 .. n -> Gnbs]
  BY DEF Orders
<1>2. n \in Nat /\ n >= 1
  BY PVsAre
<1>3. o \in Seq(Gnbs) /\ DOMAIN o = 1 .. n
  BY <1>1, <1>2
<1>4. Len(o) = n
  BY <1>2, <1>3
<1> QED BY <1>1, <1>2, <1>3, <1>4

\* a token that has made its last visit is gone
LEMMA TokenGone ==
  ASSUME NEW A, NEW S, NEW R, Core(A, S, R), NEW B, B \subseteq A
  PROVE  Core(B, S, R)
<1>1. \A w \in Gnbs \cup {NoGnb} : \A t \in Token : Located(B, S, w, t) => Located(A, S, w, t)
  BY DEF Located
<1>2. Typed(B, S, R)
  BY DEF Core, Typed
<1>3. OneToken(B, S)
  <2>1. OneToken(A, S)
    BY DEF Core
  <2>2. ASSUME NEW w \in Gnbs \cup {NoGnb}, NEW v \in Gnbs \cup {NoGnb},
               NEW t \in Token, NEW u \in Token,
               Located(B, S, w, t), Located(B, S, v, u), t.app = u.app
        PROVE  w = v /\ t = u
    <3>1. Located(A, S, w, t) /\ Located(A, S, v, u)
      BY <1>1, <2>2
    <3> QED BY <2>1, <2>2, <3>1 DEF OneToken
  <2>3. \A g \in Gnbs : \A t \in S[g].pv2Tokens : [to |-> g, token |-> t] \notin B
    BY <2>1 DEF OneToken
  <2> QED BY <2>2, <2>3 DEF OneToken
<1>4. Remembered(B, S)
  BY <1>1 DEF Core, Remembered
<1>5. TokensFine(B, S, R)
  BY <1>1, SMTT(60) DEF Core, TokensFine
<1> QED BY <1>2, <1>3, <1>4, <1>5 DEF Core

\* a vehicle sends a token to the gNB it has to visit next
LEMMA ForwardKeeps ==
  ASSUME NEW A, NEW S, NEW R, Core(A, S, R), NEW m \in A, m.to = NoGnb,
         ~IsLastVisit(m.token), NEW o, o = Reach(R, m.token.app),
         NEW n, n = NextVisit(m.token, Len(o))
  PROVE  Core((A \ {m}) \cup {[to |-> o[n.pv], token |-> n]}, S, R)
<1> DEFINE W == Gnbs \cup {NoGnb}
           t == m.token
           d == [to |-> o[n.pv], token |-> n]
           B == (A \ {m}) \cup {d}
<1>1. /\ Typed(A, S, R) /\ OneToken(A, S) /\ Remembered(A, S) /\ TokensFine(A, S, R)
      /\ S \in [Gnbs -> SchedRecord] /\ R \in [Ues -> Orders \cup {<<>>}]
      /\ \A h \in Gnbs : SchedFine(R, h, S[h])
      /\ NoGnb \notin Gnbs
  BY MecTypesAssumption DEF Core, Typed
<1>2. t \in Token /\ m = [to |-> NoGnb, token |-> t]
  BY <1>1 DEF Typed
<1>3. Located(A, S, NoGnb, t)
  BY <1>2 DEF Located
<1>4. OnRoute(R, NoGnb, t) /\ InStep(S, R, NoGnb, t)
  BY <1>1, <1>2, <1>3 DEF TokensFine
<1>5. o \in Orders /\ t.pv \in DOMAIN o
  <2>1. o \in Orders \cup {<<>>}
    BY <1>1, <1>2, OneNumber DEF Token
  <2>2. t.pv \in DOMAIN o
    BY <1>4 DEF OnRoute
  <2> QED BY <2>1, <2>2
<1>6. /\ Len(o) \in PVs /\ DOMAIN o = 1 .. Len(o)
      /\ \A p \in DOMAIN o : o[p] \in Gnbs
  BY <1>1, <1>2, <1>5, RouteLength, OneNumber DEF Token
<1>7. /\ n \in Token /\ n.app = t.app /\ n.isScheduled = t.isScheduled
      /\ n.pv \in DOMAIN o
      /\ \A p \in DOMAIN o : \A f \in 1 .. 4 :
            Before(f, p, TokenPhase(n), n.pv)
            <=> Before(f, p, TokenPhase(t), t.pv) \/ (f = TokenPhase(t) /\ p = t.pv)
  BY <1>2, <1>5, <1>6, NextVisitStep
<1>8. o[n.pv] \in Gnbs
  BY <1>6, <1>7
\* the token is nowhere else
<1>9. ASSUME NEW w \in W, NEW v \in Token, Located(B, S, w, v)
      PROVE  \/ w = o[n.pv] /\ v = n
             \/ Located(A, S, w, v) /\ v.app # t.app
  <2>1. CASE [to |-> w, token |-> v] = d
    BY <2>1
  <2>2. CASE [to |-> w, token |-> v] \in A /\ [to |-> w, token |-> v] # m
    <3>1. Located(A, S, w, v)
      BY <2>2 DEF Located
    <3>2. v.app # t.app
      BY <1>1, <1>2, <1>3, <2>2, <3>1 DEF OneToken
    <3> QED BY <3>1, <3>2
  <2>3. CASE w \in Gnbs /\ v \in S[w].pv2Tokens
    <3>1. Located(A, S, w, v)
      BY <2>3 DEF Located
    <3>2. v.app # t.app
      BY <1>1, <1>2, <1>3, <2>3, <3>1 DEF OneToken
    <3> QED BY <3>1, <3>2
  <2> QED BY <1>9, <2>1, <2>2, <2>3 DEF Located
<1>10. Typed(B, S, R)
  BY <1>1, <1>7, <1>8 DEF Typed
<1>11. OneToken(B, S)
  <2>1. ASSUME NEW w \in W, NEW v \in W, NEW x \in Token, NEW y \in Token,
               Located(B, S, w, x), Located(B, S, v, y), x.app = y.app
        PROVE  w = v /\ x = y
    <3>1. \/ w = o[n.pv] /\ x = n
          \/ Located(A, S, w, x) /\ x.app # t.app
      BY <1>9, <2>1
    <3>2. \/ v = o[n.pv] /\ y = n
          \/ Located(A, S, v, y) /\ y.app # t.app
      BY <1>9, <2>1
    <3> QED BY <1>1, <1>7, <2>1, <3>1, <3>2 DEF OneToken
  <2>2. ASSUME NEW h \in Gnbs, NEW x \in S[h].pv2Tokens
        PROVE  [to |-> h, token |-> x] \notin B
    <3>1. [to |-> h, token |-> x] \notin A
      BY <1>1 DEF OneToken
    <3>2. x \in Token /\ Located(A, S, h, x)
      BY <1>1 DEF SchedRecord, Located
    <3>3. x # n
      BY <1>1, <1>2, <1>3, <1>7, <3>2 DEF OneToken
    <3> QED BY <3>1, <3>3
  <2> HIDE DEF B
  <2> QED BY <2>1, <2>2 DEF OneToken
<1>12. Remembered(B, S)
  <2>1. ASSUME NEW h \in Gnbs, NEW x \in S[h].finalSchedule, NEW w \in W, NEW v \in Token,
               Located(B, S, w, v), v.app = x.app
        PROVE  v.isScheduled
    <3>1. CASE v = n
      <4>1. t.isScheduled
        BY <1>1, <1>2, <1>3, <1>7, <2>1, <3>1 DEF Remembered
      <4> QED BY <1>7, <3>1, <4>1
    <3>2. CASE Located(A, S, w, v)
      BY <1>1, <2>1, <3>2, SMTT(60) DEF Remembered
    <3> QED BY <1>9, <2>1, <3>1, <3>2
  <2> QED BY <1>1, <2>1 DEF Remembered
<1>13. OnRoute(R, o[n.pv], n) /\ InStep(S, R, o[n.pv], n)
  <2>1. Reach(R, n.app) = o
    BY <1>7
  <2>2. OnRoute(R, o[n.pv], n)
    BY <1>7, <2>1 DEF OnRoute
  <2>3. ASSUME NEW p \in DOMAIN o, NEW f \in 1 .. 4
        PROVE  Passed(o[n.pv], n, f, p) <=> Beyond(S[o[p]], n.app, f, p)
    <3>1. Passed(NoGnb, t, f, p) <=> Beyond(S[o[p]], t.app, f, p)
      BY <1>4 DEF InStep
    <3>2. Passed(o[n.pv], n, f, p) <=> Passed(NoGnb, t, f, p)
      BY <1>1, <1>7, <1>8, SMTT(60) DEF Passed
    <3> QED BY <1>7, <3>1, <3>2
  <2> QED BY <2>1, <2>2, <2>3 DEF InStep
<1>14. TokensFine(B, S, R)
  BY <1>1, <1>9, <1>13 DEF TokensFine
<1> QED BY <1>1, <1>10, <1>11, <1>12, <1>14 DEF Core

\* before the first and between two periods
LEMMA FreshIsFine ==
  LET S == [g \in Gnbs |-> InitialSched]
      R == [u \in Ues |-> <<>>]
  IN  Core({}, S, R) /\ \A ready \in SUBSET Ues : Quiet({}, S, R, ready)
<1> DEFINE s == InitialSched
           S == [g \in Gnbs |-> s]
           R == [u \in Ues |-> <<>>]
<1> SUFFICES Core({}, S, R) /\ \A ready \in SUBSET Ues : Quiet({}, S, R, ready)
  OBVIOUS
<1>1. ASSUME NEW g \in Gnbs PROVE 1 \in PVs
  <2>1. Cardinality(Gnbs) # 0
    BY DistSchedulingAssumption, FS_EmptySet
  <2> QED BY <2>1, PVsAre
<1>2. ASSUME NEW g \in Gnbs PROVE s \in SchedRecord
  BY <1>1 DEF InitialSched, SchedRecord, Stages, Categories
<1>3. /\ s.finalSchedule = {} /\ ~s.started /\ ~s.postBatch /\ ~s.instGenTimer
      /\ s.distStage = "CandiSel" /\ s.targetCategory = "LI" /\ s.targetPV = 1
      /\ s.pv2Tokens = {} /\ s.pendingApps = {} /\ s.candidateInsts = <<>>
      /\ s.maxRB = 0 /\ s.maxCU = 0 /\ s.pvCounter = [p \in PVs |-> 0]
  BY DEF InitialSched
<1>4. ASSUME NEW g \in Gnbs PROVE SchedFine(R, g, s)
  <2>1. Good(s)
    BY <1>2, <1>3, <1>4, SumsOfNone, DistSchedulingAssumption, FS_EmptySet
       DEF Good, Feasible, OnePerApp
  <2>2. Counted(R, g, s)
    <3>1. \A p \in PVs : Announcers(R, g, s, p) = {}
      BY <1>3 DEF Announcers
    <3> QED BY <1>3, <3>1, FS_EmptySet DEF Counted
  <2>3. Batches(R, g, s)
    BY <1>3 DEF Batches
  <2>4. Ordered(R, g, s)
    BY <1>3 DEF Ordered
  <2> QED BY <2>1, <2>2, <2>3, <2>4 DEF SchedFine
<1> HIDE DEF s
<1>5. \A w : \A t : ~Located({}, S, w, t)
  BY <1>3 DEF Located
<1>6. Typed({}, S, R)
  BY <1>2 DEF Typed
<1>7. OneToken({}, S) /\ Remembered({}, S) /\ TokensFine({}, S, R)
  BY <1>3, <1>5 DEF OneToken, Remembered, TokensFine
<1>8. Core({}, S, R)
  BY <1>4, <1>6, <1>7 DEF Core
<1>9. \A ready \in SUBSET Ues : Quiet({}, S, R, ready)
  BY <1>3, <1>5 DEF Quiet, PhaseOf, Phase
<1> QED BY <1>8, <1>9

\* h is s with the announcement of the applications X, for which it has number p
Noted(s, h, X, p) ==
    /\ h \in SchedRecord
    /\ h.pv2Tokens = s.pv2Tokens /\ h.finalSchedule = s.finalSchedule
    /\ h.maxRB = s.maxRB /\ h.maxCU = s.maxCU /\ h.started = s.started
    /\ h.postBatch = s.postBatch /\ h.instGenTimer = s.instGenTimer
    /\ h.distStage = s.distStage /\ h.targetPV = s.targetPV
    /\ h.targetCategory = s.targetCategory /\ h.candidateInsts = s.candidateInsts
    /\ h.pendingApps = s.pendingApps \cup X
    /\ \A q \in PVs :
          h.pvCounter[q] = IF q = p THEN s.pvCounter[q] + Cardinality(X) ELSE s.pvCounter[q]

\* what a gNB notes of a vehicle that announces itself
LEMMA RecordPreferenceIs ==
  ASSUME NEW s \in SchedRecord, NEW X \in SUBSET Apps, NEW p \in PVs
  PROVE  Noted(s, RecordPreference(s, X, p), X, p)
<1> DEFINE d == [s.pvCounter EXCEPT ![p] = @ + Cardinality(X)]
           e == s.pendingApps \cup X
<1>1. Cardinality(X) \in Nat
  <2>1. IsFiniteSet(Apps)
    BY MecTypesAssumption, FS_Interval DEF Apps
  <2> QED BY <2>1, FS_Subset, FS_CardinalityType
<1>2. /\ s.pvCounter \in [PVs -> Nat] /\ d \in [PVs -> Nat]
      /\ e \in SUBSET Apps
      /\ \A q \in PVs : d[q] = IF q = p THEN s.pvCounter[q] + Cardinality(X) ELSE s.pvCounter[q]
  BY <1>1 DEF SchedRecord
<1>3. RecordPreference(s, X, p) = [s EXCEPT !.pvCounter = d, !.pendingApps = e]
  BY DEF RecordPreference
<1> HIDE DEF d, e
<1>4. [s EXCEPT !.pvCounter = d, !.pendingApps = e] \in SchedRecord
  BY <1>2 DEF SchedRecord
<1>5. \A h : h = [s EXCEPT !.pvCounter = d, !.pendingApps = e] => Noted(s, h, X, p)
  BY <1>2, <1>4, ZenonT(60) DEF SchedRecord, e, Noted
<1> QED BY <1>3, <1>5

\* no candidates are in order
LEMMA NoneOrdered ==
  ASSUME NEW R, NEW g, NEW s, s.candidateInsts = <<>>
  PROVE  Ordered(R, g, s)
BY DEF Ordered

\* a vehicle announces itself and sends the tokens of its applications
LEMMA BroadcastKeeps ==
  ASSUME NEW A, NEW S, NEW R, NEW ready \in SUBSET Ues, Core(A, S, R), Quiet(A, S, R, ready),
         NEW u \in ready, NEW o \in Orders, NEW X \in SUBSET Apps, \A a \in X : UeOf[a] = u,
         NEW Z, Z = [g \in Gnbs |-> IF g \in ToSet(o)
                                    THEN RecordPreference(S[g], X, CHOOSE p \in DOMAIN o : o[p] = g)
                                    ELSE S[g]],
         NEW B, B = A \cup {[to |-> o[1], token |-> InitialToken(a)] : a \in X}
  PROVE  Core(B, Z, [R EXCEPT ![u] = o]) /\ Quiet(B, Z, [R EXCEPT ![u] = o], ready \ {u})
<1> DEFINE W == Gnbs \cup {NoGnb}
           num(g) == CHOOSE p \in DOMAIN o : o[p] = g
           T == [R EXCEPT ![u] = o]
<1> SUFFICES Core(B, Z, T) /\ Quiet(B, Z, T, ready \ {u})
  OBVIOUS
<1>1. /\ Typed(A, S, R) /\ OneToken(A, S) /\ Remembered(A, S) /\ TokensFine(A, S, R)
      /\ S \in [Gnbs -> SchedRecord] /\ R \in [Ues -> Orders \cup {<<>>}]
      /\ \A g \in Gnbs : SchedFine(R, g, S[g])
      /\ NoGnb \notin Gnbs /\ u \in Ues /\ R[u] = <<>> /\ X \subseteq Apps
      /\ \A a \in Apps : UeOf[a] \in Ues
  BY MecTypesAssumption DEF Core, Typed, Quiet
<1>2. /\ \A g \in Gnbs : /\ S[g].finalSchedule = {}
                         /\ ~S[g].started /\ ~S[g].postBatch /\ ~S[g].instGenTimer
                         /\ PhaseOf(S[g]) = 1 /\ S[g].targetPV = 1
      /\ \A w \in W : \A t \in Token :
            Located(A, S, w, t) => w # NoGnb /\ TokenPhase(t) = 1 /\ t.pv = 1
      /\ \A v \in ready : R[v] = <<>>
  BY DEF Quiet
<1>3. /\ Len(o) \in PVs /\ DOMAIN o = 1 .. Len(o) /\ 1 \in DOMAIN o /\ DOMAIN o \subseteq PVs
      /\ ToSet(o) = {o[p] : p \in DOMAIN o} /\ ToSet(o) \subseteq Gnbs
      /\ \A p, q \in DOMAIN o : o[p] = o[q] => p = q
  <2>1. PICK n \in PVs : o \in [1 .. n -> Gnbs]
    BY DEF Orders
  <2>2. \A p, q \in DOMAIN o : o[p] = o[q] => p = q
    BY DEF Orders, IsInjective
  <2>3. Len(o) \in PVs /\ DOMAIN o = 1 .. Len(o) /\ 1 \in DOMAIN o
    BY RouteLength
  <2>4. DOMAIN o \subseteq PVs
    BY <2>3, PVsAre
  <2>5. ToSet(o) = {o[p] : p \in DOMAIN o}
    BY DEF ToSet
  <2>6. ToSet(o) \subseteq Gnbs
    <3>1. \A p \in DOMAIN o : o[p] \in Gnbs
      BY <2>1
    <3> QED BY <2>5, <3>1
  <2> QED BY <2>2, <2>3, <2>4, <2>5, <2>6
<1>4. T \in [Ues -> Orders \cup {<<>>}]
  BY <1>1
\* the routes
<1>5. ASSUME NEW a \in Apps
      PROVE  /\ UeOf[a] = u => Reach(T, a) = o /\ Reach(R, a) = <<>>
             /\ UeOf[a] # u => Reach(T, a) = Reach(R, a)
  BY <1>1 DEF Reach
<1> HIDE DEF T
\* the vehicle has no token yet, and no application that waits
<1>6. ASSUME NEW w \in W, NEW t \in Token, Located(A, S, w, t) PROVE UeOf[t.app] # u
  <2>1. t.pv \in DOMAIN Reach(R, t.app)
    BY <1>1, <1>6 DEF TokensFine, OnRoute
  <2> QED BY <1>5, <2>1 DEF Token
<1>7. ASSUME NEW g \in Gnbs, NEW a \in S[g].pendingApps PROVE a \in Apps /\ UeOf[a] # u
  <2>1. PICK p \in PVs : HasNumber(R, g, a, p)
    BY <1>1 DEF SchedFine, Counted
  <2>2. a \in Apps
    BY <1>1 DEF SchedRecord
  <2> QED BY <1>5, <2>1, <2>2 DEF HasNumber
\* what the gNBs note
<1>8. ASSUME NEW g \in Gnbs, g \in ToSet(o)
      PROVE  num(g) \in DOMAIN o /\ num(g) \in PVs /\ o[num(g)] = g
  <2>1. \E p \in DOMAIN o : o[p] = g
    BY <1>3, <1>8
  <2> QED BY <1>3, <2>1
<1>9. ASSUME NEW g \in Gnbs, g \in ToSet(o) PROVE Z[g] = RecordPreference(S[g], X, num(g))
  BY <1>9
<1>10. ASSUME NEW g \in Gnbs, g \notin ToSet(o) PROVE Z[g] = S[g]
  BY <1>10
<1> HIDE DEF num
<1>11. ASSUME NEW g \in Gnbs
       PROVE  /\ Z[g] \in SchedRecord
              /\ Z[g].pv2Tokens = S[g].pv2Tokens /\ Z[g].finalSchedule = S[g].finalSchedule
              /\ Z[g].maxRB = S[g].maxRB /\ Z[g].maxCU = S[g].maxCU
              /\ Z[g].started = S[g].started /\ Z[g].postBatch = S[g].postBatch
              /\ Z[g].instGenTimer = S[g].instGenTimer /\ Z[g].distStage = S[g].distStage
              /\ Z[g].targetPV = S[g].targetPV /\ Z[g].targetCategory = S[g].targetCategory
              /\ Z[g].candidateInsts = S[g].candidateInsts
  <2>1. CASE g \in ToSet(o)
    <3> DEFINE h == Z[g]
    <3>1. S[g] \in SchedRecord /\ num(g) \in PVs /\ h = RecordPreference(S[g], X, num(g))
      BY <1>1, <1>8, <1>9, <2>1
    <3> HIDE DEF h
    <3>2. Noted(S[g], h, X, num(g))
      BY <3>1, RecordPreferenceIs
    <3>3. /\ h \in SchedRecord
          /\ h.pv2Tokens = S[g].pv2Tokens /\ h.finalSchedule = S[g].finalSchedule
          /\ h.maxRB = S[g].maxRB /\ h.maxCU = S[g].maxCU
          /\ h.started = S[g].started /\ h.postBatch = S[g].postBatch
          /\ h.instGenTimer = S[g].instGenTimer /\ h.distStage = S[g].distStage
          /\ h.targetPV = S[g].targetPV /\ h.targetCategory = S[g].targetCategory
          /\ h.candidateInsts = S[g].candidateInsts
      BY <3>2 DEF Noted
    <3> QED BY <3>3 DEF h
  <2>2. CASE g \notin ToSet(o)
    <3>1. Z[g] = S[g] /\ S[g] \in SchedRecord
      BY <1>1, <1>10, <2>2
    <3> QED BY <3>1
  <2> QED BY <2>1, <2>2
<1>12. ASSUME NEW g \in Gnbs
       PROVE  Z[g].pendingApps = S[g].pendingApps \cup (IF g \in ToSet(o) THEN X ELSE {})
  <2>1. CASE g \in ToSet(o)
    <3>1. S[g] \in SchedRecord /\ num(g) \in PVs /\ Z[g] = RecordPreference(S[g], X, num(g))
      BY <1>1, <1>8, <1>9, <2>1
    <3>2. Noted(S[g], Z[g], X, num(g))
      BY <3>1, RecordPreferenceIs
    <3>3. Z[g].pendingApps = S[g].pendingApps \cup X
      BY <3>2 DEF Noted
    <3> QED BY <2>1, <3>3
  <2>2. CASE g \notin ToSet(o)
    <3>1. Z[g] = S[g]
      BY <1>10, <2>2
    <3> QED BY <2>2, <3>1
  <2> QED BY <2>1, <2>2
<1>13. Z \in [Gnbs -> SchedRecord]
  <2>1. Z = [g \in Gnbs |-> Z[g]]
    OBVIOUS
  <2> QED BY <1>11, <2>1
\* the new tokens
<1>14. ASSUME NEW a \in X
       PROVE  /\ InitialToken(a) \in Token /\ InitialToken(a).app = a
              /\ InitialToken(a).pv = 1 /\ TokenPhase(InitialToken(a)) = 1
              /\ a \in Apps /\ UeOf[a] = u
  BY <1>1, <1>3 DEF InitialToken, Token, TokenPhase, Phase, Categories, Stages
<1>15. ASSUME NEW w \in W, NEW t \in Token, Located(B, Z, w, t)
       PROVE  \/ w = o[1] /\ \E a \in X : t = InitialToken(a)
              \/ Located(A, S, w, t)
  <2>1. CASE [to |-> w, token |-> t] \in B
    BY <2>1 DEF Located
  <2>2. CASE w \in Gnbs /\ t \in Z[w].pv2Tokens
    BY <1>11, <2>2 DEF Located
  <2> QED BY <1>15, <2>1, <2>2 DEF Located
<1>16. o[1] \in Gnbs
  BY <1>3
<1>17. Typed(B, Z, T)
  <2>1. \A a \in X : [to |-> o[1], token |-> InitialToken(a)] \in [to : W, token : Token]
    BY <1>14, <1>16
  <2> QED BY <1>1, <1>4, <1>13, <2>1 DEF Typed
<1>18. OneToken(B, Z)
  <2>1. ASSUME NEW w \in W, NEW v \in W, NEW x \in Token, NEW y \in Token,
               Located(B, Z, w, x), Located(B, Z, v, y), x.app = y.app
        PROVE  w = v /\ x = y
    <3>1. CASE Located(A, S, w, x) /\ Located(A, S, v, y)
      BY <1>1, <2>1, <3>1 DEF OneToken
    <3>2. CASE UeOf[x.app] # u
      <4>1. \A a \in X : x # InitialToken(a) /\ y # InitialToken(a)
        BY <1>14, <2>1, <3>2
      <4> QED BY <1>15, <2>1, <3>1, <4>1
    <3>3. CASE UeOf[x.app] = u
      <4>1. ~Located(A, S, w, x) /\ ~Located(A, S, v, y)
        BY <1>6, <2>1, <3>3
      <4>2. PICK a \in X : x = InitialToken(a)
        BY <1>15, <2>1, <4>1
      <4>3. PICK b \in X : y = InitialToken(b)
        BY <1>15, <2>1, <4>1
      <4>4. a = b
        BY <1>14, <2>1, <4>2, <4>3
      <4>5. w = o[1] /\ v = o[1]
        BY <1>15, <2>1, <4>1
      <4> QED BY <4>2, <4>3, <4>4, <4>5
    <3> QED BY <3>2, <3>3
  <2>2. ASSUME NEW h \in Gnbs, NEW x \in Z[h].pv2Tokens
        PROVE  [to |-> h, token |-> x] \notin B
    <3>1. [to |-> h, token |-> x] \notin A
      BY <1>1, <1>11, <2>2 DEF OneToken
    <3>2. x \in Token /\ Located(A, S, h, x)
      BY <1>1, <1>11, <2>2 DEF SchedRecord, Located
    <3>3. \A a \in X : x # InitialToken(a)
      BY <1>6, <1>14, <3>2
    <3> QED BY <3>1, <3>3
  <2> QED BY <2>1, <2>2 DEF OneToken
<1>19. Remembered(B, Z)
  BY <1>2, <1>11 DEF Remembered
<1>20. ASSUME NEW w \in W, NEW t \in Token, Located(B, Z, w, t)
       PROVE  OnRoute(T, w, t) /\ InStep(Z, T, w, t)
  <2>1. CASE Located(A, S, w, t)
    <3>1. OnRoute(R, w, t) /\ InStep(S, R, w, t)
      BY <1>1, <2>1 DEF TokensFine
    <3>2. Reach(T, t.app) = Reach(R, t.app) /\ UeOf[t.app] # u /\ t.app \in Apps
      BY <1>5, <1>6, <2>1 DEF Token
    <3>3. OnRoute(T, w, t)
      BY <3>1, <3>2 DEF OnRoute
    <3>4. \A g \in Gnbs : t.app \in Z[g].pendingApps <=> t.app \in S[g].pendingApps
      BY <1>12, <3>2
    <3>5. \A g \in Gnbs : \A f, p : Beyond(Z[g], t.app, f, p) <=> Beyond(S[g], t.app, f, p)
      BY <1>11, <3>4 DEF Beyond, PhaseOf
    <3>6. \A p \in DOMAIN Reach(R, t.app) : Reach(R, t.app)[p] \in Gnbs
      BY <1>1, <3>2, OneNumber
    <3>7. InStep(Z, T, w, t)
      BY <3>1, <3>2, <3>5, <3>6 DEF InStep
    <3> QED BY <3>3, <3>7
  <2>2. CASE w = o[1] /\ \E a \in X : t = InitialToken(a)
    <3>1. PICK a \in X : t = InitialToken(a)
      BY <2>2
    <3>2. t.app = a /\ t.pv = 1 /\ TokenPhase(t) = 1 /\ Reach(T, t.app) = o
      BY <1>5, <1>14, <3>1
    <3>3. OnRoute(T, w, t)
      BY <1>3, <2>2, <3>2 DEF OnRoute
    <3>4. ASSUME NEW p \in DOMAIN o, NEW f \in 1 .. 4
          PROVE  ~Passed(w, t, f, p) /\ ~Beyond(Z[o[p]], t.app, f, p)
      <4>1. p \in Nat /\ p >= 1 /\ o[p] \in Gnbs /\ o[p] \in ToSet(o)
        BY <1>3, PVsAre
      <4>2. ~Before(f, p, 1, 1)
        BY <4>1 DEF Before
      <4>3. ~Passed(w, t, f, p)
        BY <1>1, <1>16, <2>2, <3>2, <4>2 DEF Passed
      <4>4. a \in Z[o[p]].pendingApps
        BY <1>12, <4>1
      <4>5. PhaseOf(Z[o[p]]) = 1 /\ Z[o[p]].targetPV = 1
        BY <1>2, <1>11, <4>1 DEF PhaseOf
      <4> QED BY <3>2, <4>2, <4>3, <4>4, <4>5 DEF Beyond
    <3>5. InStep(Z, T, w, t)
      BY <3>2, <3>4 DEF InStep
    <3> QED BY <3>3, <3>5
  <2> QED BY <1>15, <1>20, <2>1, <2>2
<1>21. TokensFine(B, Z, T)
  BY <1>20 DEF TokensFine
\* the counters
<1>22. ASSUME NEW g \in Gnbs, NEW a \in Apps, NEW p
       PROVE  /\ UeOf[a] # u => (HasNumber(T, g, a, p) <=> HasNumber(R, g, a, p))
              /\ UeOf[a] = u => (HasNumber(T, g, a, p) <=> p \in DOMAIN o /\ o[p] = g)
  BY <1>5 DEF HasNumber
<1>23. ASSUME NEW g \in Gnbs PROVE Counted(T, g, Z[g])
  <2>1. Counted(R, g, S[g]) /\ S[g].pendingApps \subseteq Apps /\ S[g].pvCounter \in [PVs -> Nat]
    BY <1>1 DEF SchedFine, SchedRecord
  <2>2. ASSUME NEW a \in Z[g].pendingApps PROVE \E p \in PVs : HasNumber(T, g, a, p)
    <3>1. CASE a \in S[g].pendingApps
      <4>1. a \in Apps /\ UeOf[a] # u
        BY <1>7, <3>1
      <4> QED BY <1>22, <2>1, <3>1, <4>1 DEF Counted
    <3>2. CASE g \in ToSet(o) /\ a \in X
      BY <1>8, <1>14, <1>22, <3>2
    <3> QED BY <1>12, <2>2, <3>1, <3>2
  <2>3. ASSUME NEW p \in PVs PROVE Z[g].pvCounter[p] = Cardinality(Announcers(T, g, Z[g], p))
    <3> DEFINE Old == Announcers(R, g, S[g], p)
    <3>1. IsFiniteSet(Old) /\ IsFiniteSet(X)
      <4>1. IsFiniteSet(Apps) /\ Old \subseteq Apps
        <5>1. IsFiniteSet(Apps)
          BY MecTypesAssumption, FS_Interval DEF Apps
        <5>2. Old \subseteq Apps
          BY <2>1 DEF Announcers
        <5> QED BY <5>1, <5>2
      <4> HIDE DEF Old
      <4> QED BY <1>1, <4>1, FS_Subset
    <3>2. S[g].pvCounter[p] = Cardinality(Old)
      BY <2>1 DEF Counted
    <3>3. Old \cap X = {}
      BY <1>7, <1>14 DEF Announcers
    <3>4. CASE g \in ToSet(o) /\ p = num(g)
      <4>1. Announcers(T, g, Z[g], p) = Old \cup X
        <5>1. ASSUME NEW a \in Z[g].pendingApps, HasNumber(T, g, a, p) PROVE a \in Old \cup X
          BY <1>7, <1>12, <1>22, <5>1 DEF Announcers
        <5>2. ASSUME NEW a \in Old PROVE a \in Z[g].pendingApps /\ HasNumber(T, g, a, p)
          BY <1>7, <1>12, <1>22, <5>2 DEF Announcers
        <5>3. ASSUME NEW a \in X PROVE a \in Z[g].pendingApps /\ HasNumber(T, g, a, p)
          BY <1>8, <1>12, <1>14, <1>22, <3>4
        <5> QED BY <5>1, <5>2, <5>3 DEF Announcers
      <4>2. Cardinality(Old \cup X) = Cardinality(Old) + Cardinality(X)
        <5>1. Cardinality(Old \cup X)
                = Cardinality(Old) + Cardinality(X) - Cardinality(Old \cap X)
          BY <3>1, FS_Union
        <5>2. Cardinality(Old \cap X) = 0
          BY <3>3, FS_EmptySet
        <5>3. Cardinality(Old) \in Nat /\ Cardinality(X) \in Nat
          BY <3>1, FS_CardinalityType
        <5> QED BY <5>1, <5>2, <5>3
      <4>3. Z[g].pvCounter[p] = S[g].pvCounter[p] + Cardinality(X)
        <5>1. Noted(S[g], Z[g], X, num(g))
          BY <1>1, <1>8, <1>9, <3>4, RecordPreferenceIs
        <5> QED BY <3>4, <5>1 DEF Noted
      <4> QED BY <3>2, <4>1, <4>2, <4>3
    <3>5. CASE ~(g \in ToSet(o) /\ p = num(g))
      <4>1. Announcers(T, g, Z[g], p) = Old
        <5>1. ASSUME NEW a \in X, g \in ToSet(o) PROVE ~HasNumber(T, g, a, p)
          BY <1>3, <1>8, <1>14, <1>22, <3>5, <5>1
        <5>2. ASSUME NEW a \in Z[g].pendingApps, HasNumber(T, g, a, p) PROVE a \in Old
          BY <1>7, <1>12, <1>22, <5>1, <5>2 DEF Announcers
        <5>3. ASSUME NEW a \in Old PROVE a \in Z[g].pendingApps /\ HasNumber(T, g, a, p)
          BY <1>7, <1>12, <1>22, <5>3 DEF Announcers
        <5> QED BY <5>2, <5>3 DEF Announcers
      <4>2. Z[g].pvCounter[p] = S[g].pvCounter[p]
        <5>1. CASE g \in ToSet(o)
          <6>1. S[g] \in SchedRecord /\ num(g) \in PVs
                /\ Z[g] = RecordPreference(S[g], X, num(g)) /\ p # num(g)
            BY <1>1, <1>8, <1>9, <3>5, <5>1
          <6>2. Z[g].pvCounter[p] = IF p = num(g) THEN S[g].pvCounter[p] + Cardinality(X)
                                    ELSE S[g].pvCounter[p]
            <7>1. Noted(S[g], Z[g], X, num(g))
              BY <6>1, RecordPreferenceIs
            <7> QED BY <7>1 DEF Noted
          <6> QED BY <6>1, <6>2
        <5>2. CASE g \notin ToSet(o)
          BY <1>10, <5>2
        <5> QED BY <5>1, <5>2
      <4> QED BY <3>2, <4>1, <4>2
    <3> QED BY <3>4, <3>5
  <2>4. ~Z[g].started
    BY <1>2, <1>11
  <2> QED BY <2>2, <2>3, <2>4 DEF Counted
<1>24. ASSUME NEW g \in Gnbs PROVE SchedFine(T, g, Z[g])
  <2>1. Good(Z[g])
    BY <1>1, <1>11 DEF SchedFine, Good, Feasible
  <2>2. Batches(T, g, Z[g])
    BY <1>2, <1>11 DEF Batches
  <2>3. Z[g].candidateInsts = <<>>
    BY <1>1, <1>2, <1>11 DEF SchedFine, Ordered
  <2>4. Ordered(T, g, Z[g])
    BY <2>3, NoneOrdered
  <2> QED BY <1>23, <2>1, <2>2, <2>4 DEF SchedFine
<1>25. Core(B, Z, T)
  BY <1>17, <1>18, <1>19, <1>21, <1>24 DEF Core
<1>26. Quiet(B, Z, T, ready \ {u})
  <2>1. \A g \in Gnbs : /\ Z[g].finalSchedule = {}
                        /\ ~Z[g].started /\ ~Z[g].postBatch /\ ~Z[g].instGenTimer
                        /\ PhaseOf(Z[g]) = 1 /\ Z[g].targetPV = 1
    BY <1>2, <1>11 DEF PhaseOf
  <2>2. \A w \in W : \A t \in Token :
           Located(B, Z, w, t) => w # NoGnb /\ TokenPhase(t) = 1 /\ t.pv = 1
    <3> SUFFICES ASSUME NEW w \in W, NEW t \in Token, Located(B, Z, w, t)
                 PROVE  w # NoGnb /\ TokenPhase(t) = 1 /\ t.pv = 1
      OBVIOUS
    <3>1. CASE Located(A, S, w, t)
      BY <1>2, <3>1
    <3>2. CASE w = o[1] /\ \E a \in X : t = InitialToken(a)
      BY <1>1, <1>14, <1>16, <3>2
    <3> QED BY <1>15, <3>1, <3>2
  <2>3. \A v \in ready \ {u} : T[v] = <<>>
    BY <1>1, <1>2 DEF T
  <2> QED BY <2>1, <2>2, <2>3 DEF Quiet
<1> QED BY <1>25, <1>26

\* h is s at the start of a period
Starts(s, h) ==
    /\ h \in SchedRecord
    /\ h.pv2Tokens = s.pv2Tokens /\ h.pendingApps = s.pendingApps /\ h.pvCounter = s.pvCounter
    /\ h.postBatch = s.postBatch
    /\ h.finalSchedule = {} /\ h.candidateInsts = <<>> /\ h.maxRB <= Bands /\ h.maxCU <= Units
    /\ IF s.pendingApps = {}
       THEN /\ h.started = s.started /\ h.instGenTimer = s.instGenTimer
            /\ h.reductionRsu = s.reductionRsu /\ h.reductAppInRsu = s.reductAppInRsu
       ELSE /\ h.started /\ h.batchOngoing /\ h.instGenTimer
            /\ PhaseOf(h) = 1 /\ h.targetPV = PvMin(s)
            /\ h.maxRB = Bands /\ h.maxCU = Units
            /\ h.reductionRsu = 0 /\ h.reductAppInRsu = [a \in Apps |-> 0]

\* what a scheduler begins with
LEMMA StartIs ==
  ASSUME NEW s \in SchedRecord, NEW menu \in [Apps -> Seq(Inst)],
         s.pendingApps # {} => PvMin(s) \in PVs, s.finalSchedule = {},
         s.candidateInsts = <<>>, s.maxRB <= Bands, s.maxCU <= Units
  PROVE  Starts(s, HandleDistributedScheduling(s, menu))
<1>1. CASE s.pendingApps = {}
  <2>1. HandleDistributedScheduling(s, menu) = [s EXCEPT !.vecSchedule = {}]
    BY <1>1 DEF HandleDistributedScheduling
  <2>2. Starts(s, [s EXCEPT !.vecSchedule = {}])
    BY <1>1 DEF Starts, SchedRecord
  <2> QED BY <2>1, <2>2
<1>2. CASE s.pendingApps # {}
  <2> DEFINE i == [a \in Apps |-> IF a \in s.pendingApps THEN menu[a] ELSE <<>>]
             z == [a \in Apps |-> 0]
             h == [s EXCEPT !.distStage = "CandiSel", !.targetPV = PvMin(s),
                            !.targetCategory = "LI", !.started = TRUE, !.batchOngoing = TRUE,
                            !.instGenTimer = TRUE, !.insts = i, !.maxRB = Bands, !.maxCU = Units,
                            !.reductionRsu = 0, !.reductAppInRsu = z,
                            !.candidateInsts = <<>>, !.finalSchedule = {}]
  <2>1. HandleDistributedScheduling(s, menu) = h
    BY <1>2 DEF HandleDistributedScheduling
  <2>2. /\ i \in [Apps -> Seq(Inst)] /\ z \in [Apps -> Int]
        /\ <<>> \in Seq(Candidate) /\ "CandiSel" \in Stages /\ "LI" \in Categories
        /\ Bands \in Nat /\ Units \in Nat /\ PvMin(s) \in PVs
    <3>1. <<>> \in Seq(Inst) /\ <<>> \in Seq(Candidate)
      OBVIOUS
    <3>2. i \in [Apps -> Seq(Inst)]
      BY <3>1
    <3> QED BY <1>2, <3>1, <3>2, DistSchedulingAssumption DEF Stages, Categories
  <2> DEFINE none  == <<>>
             empty == {}
             v  == PvMin(s)
             h1 == [s EXCEPT !.distStage = "CandiSel", !.targetPV = v, !.targetCategory = "LI",
                             !.started = TRUE, !.batchOngoing = TRUE, !.instGenTimer = TRUE]
             h2 == [h1 EXCEPT !.insts = i, !.maxRB = Bands, !.maxCU = Units,
                              !.reductionRsu = 0, !.reductAppInRsu = z,
                              !.candidateInsts = none, !.finalSchedule = empty]
  <2>3. none \in Seq(Candidate) /\ empty \in SUBSET Candidate /\ 0 \in Int
    BY <2>2
  <2> HIDE DEF i, z, v, none, empty
  <2>4. /\ h1 \in SchedRecord
        /\ h1.pv2Tokens = s.pv2Tokens /\ h1.pendingApps = s.pendingApps
        /\ h1.pvCounter = s.pvCounter /\ h1.postBatch = s.postBatch
        /\ h1.started /\ h1.batchOngoing /\ h1.instGenTimer
        /\ h1.distStage = "CandiSel" /\ h1.targetCategory = "LI" /\ h1.targetPV = v
    BY <2>2 DEF SchedRecord, v
  <2>5. h = h2
    BY DEF v, none, empty
  <2> HIDE DEF h1, h
  <2>6. /\ h2 \in SchedRecord
        /\ h2.pv2Tokens = h1.pv2Tokens /\ h2.pendingApps = h1.pendingApps
        /\ h2.pvCounter = h1.pvCounter /\ h2.postBatch = h1.postBatch
        /\ h2.finalSchedule = empty /\ h2.candidateInsts = none
        /\ h2.maxRB = Bands /\ h2.maxCU = Units
        /\ h2.reductionRsu = 0 /\ h2.reductAppInRsu = z
        /\ h2.started = h1.started /\ h2.batchOngoing = h1.batchOngoing
        /\ h2.instGenTimer = h1.instGenTimer /\ h2.distStage = h1.distStage
        /\ h2.targetCategory = h1.targetCategory /\ h2.targetPV = h1.targetPV
    BY <2>2, <2>3, <2>4 DEF SchedRecord
  <2> HIDE DEF h2
  <2>7. Phase("CandiSel", "LI") = 1
    BY DEF Phase
  <2>8. Starts(s, h)
    <3>1. PhaseOf(h2) = 1 /\ h2.targetPV = PvMin(s)
      BY <2>6, <2>7, <2>4 DEF PhaseOf, v
    <3>2. Bands <= Bands /\ Units <= Units
      BY <2>2
    <3>3. Starts(s, h2)
      BY <1>2, <2>6, <2>4, <3>1, <3>2 DEF Starts, none, empty, z
    <3> QED BY <2>5, <3>3
  <2> QED BY <2>1, <2>8
<1> QED BY <1>1, <1>2

\* the first number of a gNB, and what it begins with
LEMMA AllStart ==
  ASSUME NEW A, NEW S, NEW R, NEW ready, Core(A, S, R), Quiet(A, S, R, ready),
         NEW menu \in [Gnbs -> [Apps -> Seq(Inst)]],
         NEW Z, Z = [g \in Gnbs |-> HandleDistributedScheduling(S[g], menu[g])]
  PROVE  /\ \A g \in Gnbs : S[g].pendingApps # {}
               => /\ PvMin(S[g]) \in Announced(S[g]) /\ Announced(S[g]) \subseteq PVs
                  /\ \A p \in Announced(S[g]) : PvMin(S[g]) <= p
         /\ \A g \in Gnbs : Starts(S[g], Z[g])
<1>1. S \in [Gnbs -> SchedRecord] /\ \A g \in Gnbs : SchedFine(R, g, S[g])
  BY DEF Core, Typed
<1>2. \A g \in Gnbs : S[g].finalSchedule = {} /\ ~S[g].started
  BY DEF Quiet
<1>3. ASSUME NEW g \in Gnbs, S[g].pendingApps # {}
      PROVE  /\ PvMin(S[g]) \in Announced(S[g]) /\ Announced(S[g]) \subseteq PVs
             /\ \A p \in Announced(S[g]) : PvMin(S[g]) <= p
  <2>1. PICK a \in S[g].pendingApps : TRUE
    BY <1>3
  <2>2. PICK p \in PVs : HasNumber(R, g, a, p)
    BY <1>1, <2>1 DEF SchedFine, Counted
  <2>3. p \in Announced(S[g])
    BY <1>1, <2>1, <2>2, NumberAnnounced DEF SchedFine
  <2>4. Announced(S[g]) \subseteq PVs
    BY DEF Announced
  <2> QED BY <2>3, <2>4, LeastAndGreatest DEF PvMin
<1>4. ASSUME NEW g \in Gnbs PROVE Starts(S[g], Z[g])
  <2>1. S[g] \in SchedRecord /\ menu[g] \in [Apps -> Seq(Inst)]
    BY <1>1
  <2>2. S[g].pendingApps # {} => PvMin(S[g]) \in PVs
    BY <1>3
  <2>3. S[g].candidateInsts = <<>>
    BY <1>1, <1>2 DEF SchedFine, Ordered
  <2>4. S[g].maxRB <= Bands /\ S[g].maxCU <= Units
    <3>1. /\ Rbs(S[g].finalSchedule) + S[g].maxRB <= Bands
          /\ Cus(S[g].finalSchedule) + S[g].maxCU <= Units
      BY <1>1 DEF SchedFine, Good, Feasible
    <3>2. Rbs(S[g].finalSchedule) = 0 /\ Cus(S[g].finalSchedule) = 0
      BY <1>2, SumsOfNone
    <3>3. S[g].maxRB \in Nat /\ S[g].maxCU \in Nat
      BY <2>1 DEF SchedRecord
    <3> QED BY <3>1, <3>2, <3>3
  <2>5. Starts(S[g], HandleDistributedScheduling(S[g], menu[g]))
    BY <1>2, <2>1, <2>2, <2>3, <2>4, StartIs
  <2> QED BY <2>5
<1> QED BY <1>3, <1>4

\* all gNBs begin to schedule
LEMMA ScheduleStartKeeps ==
  ASSUME NEW A, NEW S, NEW R, NEW ready, Core(A, S, R), Quiet(A, S, R, ready),
         NEW menu \in [Gnbs -> [Apps -> Seq(Inst)]],
         NEW Z, Z = [g \in Gnbs |-> HandleDistributedScheduling(S[g], menu[g])]
  PROVE  Core(A, Z, R)
<1> DEFINE W == Gnbs \cup {NoGnb}
<1>1. /\ Typed(A, S, R) /\ OneToken(A, S) /\ Remembered(A, S) /\ TokensFine(A, S, R)
      /\ S \in [Gnbs -> SchedRecord] /\ R \in [Ues -> Orders \cup {<<>>}]
      /\ \A g \in Gnbs : SchedFine(R, g, S[g])
  BY DEF Core, Typed
<1>2. /\ \A g \in Gnbs : /\ S[g].finalSchedule = {}
                         /\ ~S[g].started /\ ~S[g].postBatch /\ ~S[g].instGenTimer
                         /\ PhaseOf(S[g]) = 1 /\ S[g].targetPV = 1
      /\ \A w \in W : \A t \in Token :
            Located(A, S, w, t) => w # NoGnb /\ TokenPhase(t) = 1 /\ t.pv = 1
  BY DEF Quiet
<1>3. ASSUME NEW g \in Gnbs, S[g].pendingApps # {}
      PROVE  /\ PvMin(S[g]) \in Announced(S[g]) /\ Announced(S[g]) \subseteq PVs
             /\ \A p \in Announced(S[g]) : PvMin(S[g]) <= p
  BY <1>3, AllStart
<1>4. ASSUME NEW g \in Gnbs PROVE Starts(S[g], Z[g])
  BY AllStart
<1>5. Z \in [Gnbs -> SchedRecord]
  <2>1. Z = [g \in Gnbs |-> Z[g]]
    OBVIOUS
  <2>2. \A g \in Gnbs : Z[g] \in SchedRecord
    BY <1>4 DEF Starts
  <2> QED BY <2>1, <2>2
<1>6. ASSUME NEW w \in W, NEW t PROVE Located(A, Z, w, t) <=> Located(A, S, w, t)
  BY <1>4 DEF Located, Starts
<1>7. Typed(A, Z, R)
  BY <1>1, <1>5 DEF Typed
<1>8. OneToken(A, Z)
  <2>1. ASSUME NEW w \in W, NEW v \in W, NEW x \in Token, NEW y \in Token,
               Located(A, Z, w, x), Located(A, Z, v, y), x.app = y.app
        PROVE  w = v /\ x = y
    BY <1>1, <1>6, <2>1 DEF OneToken
  <2>2. \A g \in Gnbs : \A t \in Z[g].pv2Tokens : [to |-> g, token |-> t] \notin A
    <3>1. \A g \in Gnbs : Z[g].pv2Tokens = S[g].pv2Tokens
      BY <1>4 DEF Starts
    <3>2. \A g \in Gnbs : \A t \in S[g].pv2Tokens : [to |-> g, token |-> t] \notin A
      BY <1>1 DEF OneToken
    <3> QED BY <3>1, <3>2
  <2> QED BY <2>1, <2>2 DEF OneToken
<1>9. Remembered(A, Z)
  BY <1>4 DEF Remembered, Starts
<1>10. TokensFine(A, Z, R)
  <2> SUFFICES ASSUME NEW w \in W, NEW t \in Token, Located(A, S, w, t)
               PROVE  OnRoute(R, w, t) /\ InStep(Z, R, w, t)
    BY <1>6 DEF TokensFine
  <2> DEFINE o == Reach(R, t.app)
  <2>1. OnRoute(R, w, t) /\ InStep(S, R, w, t)
    BY <1>1 DEF TokensFine
  <2>2. /\ t.app \in Apps /\ DOMAIN o \subseteq PVs
        /\ \A p \in DOMAIN o : o[p] \in Gnbs /\ HasNumber(R, o[p], t.app, p)
    BY <1>1, OneNumber DEF Token, HasNumber
  <2>3. ASSUME NEW p \in DOMAIN o, NEW f \in 1 .. 4
        PROVE  ~Passed(w, t, f, p) /\ ~Beyond(Z[o[p]], t.app, f, p)
    <3>1. p \in Nat /\ p >= 1 /\ o[p] \in Gnbs
      BY <2>2, PVsAre
    <3>2. ~Passed(w, t, f, p)
      <4>1. w # NoGnb /\ TokenPhase(t) = 1 /\ t.pv = 1
        BY <1>2
      <4> QED BY <3>1, <4>1 DEF Passed, Before
    <3>3. ~Beyond(S[o[p]], t.app, f, p)
      BY <2>1, <3>2 DEF InStep
    <3>4. t.app \in S[o[p]].pendingApps
      BY <3>3 DEF Beyond
    <3>5. p \in Announced(S[o[p]])
      BY <1>1, <2>2, <3>1, <3>4, NumberAnnounced DEF SchedFine
    <3>6. PvMin(S[o[p]]) <= p /\ PvMin(S[o[p]]) \in Nat
      BY <1>3, <3>1, <3>4, <3>5, PVsAre
    <3>7. /\ PhaseOf(Z[o[p]]) = 1 /\ Z[o[p]].targetPV = PvMin(S[o[p]])
          /\ t.app \in Z[o[p]].pendingApps
      BY <1>4, <3>1, <3>4 DEF Starts
    <3> QED BY <3>1, <3>2, <3>6, <3>7 DEF Beyond, Before
  <2>4. InStep(Z, R, w, t)
    BY <2>3 DEF InStep
  <2> QED BY <2>1, <2>4
<1>11. ASSUME NEW g \in Gnbs PROVE SchedFine(R, g, Z[g])
  <2> DEFINE s == S[g]
             h == Z[g]
  <2>1. Starts(s, h) /\ SchedFine(R, g, s) /\ ~s.started /\ ~s.postBatch /\ ~s.instGenTimer
    BY <1>1, <1>2, <1>4
  <2>2. s.pendingApps # {} => PvMin(s) \in Announced(s)
    BY <1>3
  <2> HIDE DEF s, h
  <2>3. Good(h)
    <3>1. Rbs({}) + h.maxRB <= Bands /\ Cus({}) + h.maxCU <= Units
      BY <2>1, SumsOfNone DEF Starts, SchedRecord
    <3>2. Feasible(h)
      BY <2>1, <3>1, FS_EmptySet DEF Feasible, Starts
    <3> QED BY <2>1, <3>2 DEF Good, Starts, SchedFine
  <2>4. Counted(R, g, h)
    <3>1. h.pendingApps = s.pendingApps /\ h.pvCounter = s.pvCounter
      BY <2>1 DEF Starts
    <3>2. \A p \in PVs : Announcers(R, g, h, p) = Announcers(R, g, s, p)
      BY <3>1 DEF Announcers
    <3>3. Announced(h) = Announced(s)
      BY <3>1 DEF Announced
    <3>4. h.started => h.targetPV \in Announced(h)
      BY <2>1, <2>2, <3>3 DEF Starts
    <3> QED BY <2>1, <3>1, <3>2, <3>4 DEF SchedFine, Counted
  <2>5. Batches(R, g, h)
    BY <2>1 DEF Batches, Starts
  <2>6. Ordered(R, g, h)
    BY <2>1, NoneOrdered DEF Starts
  <2> QED BY <2>3, <2>4, <2>5, <2>6 DEF SchedFine, h
<1> QED BY <1>7, <1>8, <1>9, <1>10, <1>11 DEF Core

-----------------------------------------------------------------------------
(* The theorems.                                                            *)

\* a token that arrives between two periods waits
LEMMA QuietStays ==
  ASSUME NEW A, NEW S, NEW R, NEW ready, Quiet(A, S, R, ready), NEW g \in Gnbs,
         S \in [Gnbs -> SchedRecord], NEW m \in A, m.to = g, m.token \in Token,
         m = [to |-> g, token |-> m.token]
  PROVE  Quiet(A \ {m}, [S EXCEPT ![g] = [RecordDistToken(S[g], m.token) EXCEPT !.out = {}]],
               R, ready)
<1> DEFINE s == S[g]
           t == m.token
           h == [RecordDistToken(s, t) EXCEPT !.out = {}]
           Z == [S EXCEPT ![g] = h]
           W == Gnbs \cup {NoGnb}
<1>1. /\ s.finalSchedule = {} /\ ~s.started /\ ~s.postBatch /\ ~s.instGenTimer
      /\ PhaseOf(s) = 1 /\ s.targetPV = 1 /\ s \in SchedRecord
  BY DEF Quiet
<1>2. h = [[s EXCEPT !.pv2Tokens = @ \cup {t}] EXCEPT !.out = {}]
  <2>1. ~[s EXCEPT !.pv2Tokens = @ \cup {t}].started
    BY <1>1 DEF SchedRecord
  <2> QED BY <2>1 DEF RecordDistToken, TryBatch
<1>3. /\ h.finalSchedule = {} /\ ~h.started /\ ~h.postBatch /\ ~h.instGenTimer
      /\ h.distStage = s.distStage /\ h.targetCategory = s.targetCategory
      /\ h.targetPV = 1 /\ h.pv2Tokens = s.pv2Tokens \cup {t}
  <2> HIDE DEF h
  <2> QED BY <1>1, <1>2 DEF SchedRecord
<1> HIDE DEF h
<1>4. Z[g] = h /\ \A k \in Gnbs : k # g => Z[k] = S[k]
  OBVIOUS
<1> HIDE DEF Z
<1>5. \A k \in Gnbs : /\ Z[k].finalSchedule = {}
                      /\ ~Z[k].started /\ ~Z[k].postBatch /\ ~Z[k].instGenTimer
                      /\ PhaseOf(Z[k]) = 1 /\ Z[k].targetPV = 1
  <2> SUFFICES ASSUME NEW k \in Gnbs
               PROVE  /\ Z[k].finalSchedule = {}
                      /\ ~Z[k].started /\ ~Z[k].postBatch /\ ~Z[k].instGenTimer
                      /\ PhaseOf(Z[k]) = 1 /\ Z[k].targetPV = 1
    OBVIOUS
  <2>1. CASE k = g
    BY <1>1, <1>3, <1>4, <2>1 DEF PhaseOf
  <2>2. CASE k # g
    BY <1>4, <2>2 DEF Quiet
  <2> QED BY <2>1, <2>2
<1>6. ASSUME NEW w \in W, NEW v \in Token, Located(A \ {m}, Z, w, v)
      PROVE  Located(A, S, w, v)
  <2>1. CASE [to |-> w, token |-> v] \in A
    BY <2>1 DEF Located
  <2>2. CASE w = g /\ v \in Z[w].pv2Tokens
    BY <1>3, <1>4, <2>2 DEF Located
  <2>3. CASE w \in Gnbs /\ w # g /\ v \in Z[w].pv2Tokens
    BY <1>4, <2>3 DEF Located
  <2> QED BY <1>6, <2>1, <2>2, <2>3 DEF Located
<1>7. \A w \in W : \A v \in Token :
         Located(A \ {m}, Z, w, v) => w # NoGnb /\ TokenPhase(v) = 1 /\ v.pv = 1
  BY <1>6 DEF Quiet
<1>8. \A u \in ready : R[u] = <<>>
  BY DEF Quiet
<1> QED BY <1>5, <1>7, <1>8 DEF Quiet, Z, h

\* The invariant holds initially.
LEMMA InitHolds == Init => IInv
<1> SUFFICES ASSUME Init PROVE IInv
  OBVIOUS
<1>1. /\ air = {} /\ sched = [g \in Gnbs |-> InitialSched] /\ pv2Rsu = [u \in Ues |-> <<>>]
      /\ distTokens = {} /\ period = "prepare" /\ distReady = Ues
  BY DEF Init
<1>2. Core(air, sched, pv2Rsu)
  BY <1>1, FreshIsFine
<1>3. Ues \in SUBSET Ues
  OBVIOUS
<1>4. Quiet(air, sched, pv2Rsu, distReady)
  BY <1>1, <1>3, FreshIsFine
<1> QED BY <1>1, <1>2, <1>4 DEF IInv

\* Every step keeps the invariant.
LEMMA StepHolds == IInv /\ [Next]_vars => IInv'
<1> SUFFICES ASSUME IInv, [Next]_vars PROVE IInv'
  OBVIOUS
<1>1. /\ distTokens \subseteq Apps /\ distReady \subseteq Ues /\ period \in {"prepare", "schedule"}
      /\ Core(air, sched, pv2Rsu)
      /\ period = "prepare" => Quiet(air, sched, pv2Rsu, distReady)
      /\ sched \in [Gnbs -> SchedRecord] /\ Typed(air, sched, pv2Rsu)
      /\ pv2Rsu \in [Ues -> Orders \cup {<<>>}]
  BY DEF IInv, Core, Typed
<1>2. ASSUME NEW a \in Apps, StartApp(a) PROVE IInv'
  BY <1>1, <1>2 DEF StartApp, IInv
<1>3. ASSUME NEW u \in Ues, Broadcast(u) PROVE IInv'
  <2>1. /\ period = "prepare" /\ u \in distReady /\ distReady' = distReady \ {u}
        /\ distTokens' = distTokens /\ period' = period
    BY <1>3 DEF Broadcast
  <2>2. PICK o \in Orders :
          /\ pv2Rsu' = [pv2Rsu EXCEPT ![u] = o]
          /\ sched' = [g \in Gnbs |->
                IF g \in ToSet(o)
                THEN RecordPreference(sched[g], AppsOf(u), CHOOSE p \in DOMAIN o : o[p] = g)
                ELSE sched[g]]
          /\ air' = air \cup {[to |-> o[1], token |-> InitialToken(a)] : a \in AppsOf(u)}
    BY <1>3 DEF Broadcast
  <2>3. AppsOf(u) \in SUBSET Apps /\ \A a \in AppsOf(u) : UeOf[a] = u
    BY <1>1 DEF AppsOf
  <2>4. distReady \in SUBSET Ues
    BY <1>1
  <2>5. /\ Core(air', sched', [pv2Rsu EXCEPT ![u] = o])
        /\ Quiet(air', sched', [pv2Rsu EXCEPT ![u] = o], distReady \ {u})
    BY <1>1, <2>1, <2>2, <2>3, <2>4, BroadcastKeeps, Zenon
  <2> QED BY <1>1, <2>1, <2>2, <2>5 DEF IInv
<1>4. ASSUME NEW u \in Ues, ForwardToken(u) PROVE IInv'
  <2>1. PICK m \in air :
          /\ m.to = NoGnb /\ UeOf[m.token.app] = u
          /\ IF IsLastVisit(m.token)
             THEN /\ air' = air \ {m}
                  /\ distReady' = distReady \cup {u}
             ELSE /\ LET t == NextVisit(m.token, Len(pv2Rsu[u]))
                     IN  air' = (air \ {m}) \cup {[to |-> pv2Rsu[u][t.pv], token |-> t]}
                  /\ UNCHANGED distReady
          /\ UNCHANGED <<distTokens, period, pv2Rsu, sched>>
    BY <1>4 DEF ForwardToken
  <2>2. period # "prepare"
    <3>1. m.token \in Token /\ m = [to |-> NoGnb, token |-> m.token]
      BY <1>1, <2>1 DEF Typed
    <3>2. Located(air, sched, NoGnb, m.token)
      BY <3>1 DEF Located
    <3> QED BY <1>1, <3>1, <3>2 DEF Quiet
  <2>3. Core(air', sched, pv2Rsu) /\ distReady' \subseteq Ues
    <3>1. CASE IsLastVisit(m.token)
      <4>1. air' \subseteq air /\ distReady' = distReady \cup {u}
        BY <2>1, <3>1
      <4> QED BY <1>1, <4>1, TokenGone
    <3>2. CASE ~IsLastVisit(m.token)
      <4> DEFINE o == pv2Rsu[u]
                 n == NextVisit(m.token, Len(o))
      <4>1. o = Reach(pv2Rsu, m.token.app)
        BY <2>1 DEF Reach
      <4>2. air' = (air \ {m}) \cup {[to |-> o[n.pv], token |-> n]} /\ distReady' = distReady
        BY <2>1, <3>2
      <4> HIDE DEF n
      <4>3. Core((air \ {m}) \cup {[to |-> o[n.pv], token |-> n]}, sched, pv2Rsu)
        BY <1>1, <2>1, <3>2, <4>1, ForwardKeeps DEF n
      <4> QED BY <1>1, <4>2, <4>3
    <3> QED BY <3>1, <3>2
  <2> QED BY <1>1, <2>1, <2>2, <2>3 DEF IInv
<1>5. CASE ScheduleStart
  <2>1. /\ period = "prepare" /\ period' = "schedule"
        /\ distTokens' = distTokens /\ pv2Rsu' = pv2Rsu /\ distReady' = distReady /\ air' = air
    BY <1>5 DEF ScheduleStart
  <2>2. PICK menu \in [Gnbs -> {m \in [Apps -> UNION Range(Menus)] : \A a \in Apps : m[a] \in Menus[a]}] :
          sched' = [g \in Gnbs |-> HandleDistributedScheduling(sched[g], menu[g])]
    BY <1>5 DEF ScheduleStart
  <2>3. menu \in [Gnbs -> [Apps -> Seq(Inst)]]
    <3>1. ASSUME NEW g \in Gnbs PROVE menu[g] \in [Apps -> Seq(Inst)]
      <4>1. menu[g] \in [Apps -> UNION Range(Menus)] /\ \A a \in Apps : menu[g][a] \in Menus[a]
        OBVIOUS
      <4>2. \A a \in Apps : menu[g][a] \in Seq(Inst)
        BY <4>1, DistSchedulingAssumption
      <4> QED BY <4>1, <4>2
    <3> QED BY <3>1
  <2>4. Core(air, sched', pv2Rsu)
    BY <1>1, <2>1, <2>2, <2>3, ScheduleStartKeeps
  <2> QED BY <1>1, <2>1, <2>4 DEF IInv
<1>6. ASSUME NEW g \in Gnbs, InstGenTimer(g) PROVE IInv'
  <2>1. /\ sched[g].instGenTimer
        /\ sched' = [sched EXCEPT ![g] = [HandleInstGenTimer(sched[g]) EXCEPT !.out = {}]]
        /\ UNCHANGED <<distTokens, period, pv2Rsu, distReady, air>>
    BY <1>6 DEF InstGenTimer, Perform
  <2>2. period # "prepare"
    BY <1>1, <2>1 DEF Quiet
  <2>3. Core(air, sched', pv2Rsu)
    BY <1>1, <2>1, HandleInstGenTimerKeeps
  <2> QED BY <1>1, <2>1, <2>2, <2>3 DEF IInv
<1>7. ASSUME NEW g \in Gnbs, ReceiveToken(g) PROVE IInv'
  <2>1. PICK m \in air :
          /\ m.to = g /\ air' = air \ {m}
          /\ sched' = [sched EXCEPT ![g] = [RecordDistToken(sched[g], m.token) EXCEPT !.out = {}]]
          /\ UNCHANGED <<distTokens, period, pv2Rsu, distReady>>
    BY <1>7 DEF ReceiveToken, Perform
  <2>2. Core(air', sched', pv2Rsu)
    BY <1>1, <2>1, RecordDistTokenKeeps
  <2>3. period = "prepare" => Quiet(air', sched', pv2Rsu, distReady)
    <3>1. m.token \in Token /\ m = [to |-> g, token |-> m.token]
      BY <1>1, <2>1 DEF Typed
    <3> QED BY <1>1, <2>1, <3>1, QuietStays
  <2> QED BY <1>1, <2>1, <2>2, <2>3 DEF IInv
<1>8. ASSUME NEW g \in Gnbs, PostBatch(g) PROVE IInv'
  <2> DEFINE h == PostBatchScheduling(sched[g])
  <2>1. /\ sched[g].postBatch
        /\ sched' = [sched EXCEPT ![g] = [h EXCEPT !.out = {}]]
        /\ air' = air \cup {[to |-> NoGnb, token |-> t] : t \in h.out}
        /\ UNCHANGED <<distTokens, period, pv2Rsu, distReady>>
    BY <1>8 DEF PostBatch, Perform
  <2> HIDE DEF h
  <2>2. period # "prepare"
    BY <1>1, <2>1 DEF Quiet
  <2>3. Core(air', sched', pv2Rsu)
    <3>1. Core(air \cup {[to |-> NoGnb, token |-> t] : t \in h.out},
               [sched EXCEPT ![g] = [h EXCEPT !.out = {}]], pv2Rsu)
      BY <1>1, <2>1, PostBatchKeeps DEF h
    <3> QED BY <2>1, <3>1
  <2> QED BY <1>1, <2>1, <2>2, <2>3 DEF IInv
<1>9. CASE NextPeriod
  <2>1. /\ air' = {} /\ sched' = [g \in Gnbs |-> InitialSched] /\ pv2Rsu' = [u \in Ues |-> <<>>]
        /\ distTokens' = distTokens /\ period' = "prepare" /\ distReady' = distReady
    BY <1>9 DEF NextPeriod, RoundIsOver
  <2>2. Core(air', sched', pv2Rsu')
    BY <2>1, FreshIsFine
  <2>3. distReady' \in SUBSET Ues
    BY <1>1, <2>1
  <2>4. Quiet(air', sched', pv2Rsu', distReady')
    BY <2>1, <2>3, FreshIsFine
  <2> QED BY <1>1, <2>1, <2>2, <2>4 DEF IInv
<1>10. CASE UNCHANGED vars
  BY <1>1, <1>10 DEF IInv, vars
<1> QED BY <1>2, <1>3, <1>4, <1>5, <1>6, <1>7, <1>8, <1>9, <1>10 DEF Next

\* The inductive invariant: of every application there is at most one token, the gNBs on
\* its route and the token agree on how far the round is, the counters count the
\* applications that announced a number, and the candidates are in the order in which
\* the second half of the round takes them.
THEOREM InductiveInvariant == Spec => []IInv
BY InitHolds, StepHolds, PTL DEF Spec

\* The schedules that the gNBs decide, each for itself, are feasible together
\* (Select, and the isScheduled of the token): every schedule fits its gNB, and no
\* application is scheduled twice.
THEOREM ScheduleStaysFeasible == Spec => []FeasibleSchedule
<1>1. IInv => FeasibleSchedule
  <2> SUFFICES ASSUME IInv PROVE FeasibleSchedule
    OBVIOUS
  <2>1. /\ Remembered(air, sched) /\ sched \in [Gnbs -> SchedRecord]
        /\ \A g \in Gnbs : Good(sched[g])
    BY DEF IInv, Core, Typed, SchedFine
  <2>2. ASSUME NEW g \in Gnbs
        PROVE  /\ Rbs(sched[g].finalSchedule) <= Bands
               /\ Cus(sched[g].finalSchedule) <= Units
    <3> DEFINE S == sched[g].finalSchedule
    <3>1. /\ IsFiniteSet(S) /\ S \subseteq Candidate
          /\ Rbs(S) + sched[g].maxRB <= Bands /\ Cus(S) + sched[g].maxCU <= Units
          /\ sched[g].maxRB \in Nat /\ sched[g].maxCU \in Nat
      BY <2>1 DEF Good, Feasible, SchedRecord
    <3>2. Rbs(S) \in Nat /\ Cus(S) \in Nat
      BY <3>1, SumsAreNatural
    <3>3. Bands \in Nat /\ Units \in Nat
      BY DistSchedulingAssumption
    <3> QED BY <3>1, <3>2, <3>3
  <2>3. ASSUME NEW g \in Gnbs, NEW h \in Gnbs,
               NEW x \in sched[g].finalSchedule, NEW y \in sched[h].finalSchedule, x.app = y.app
        PROVE  g = h /\ x = y
    <3>1. g = h
      BY <2>1, <2>3 DEF Remembered
    <3> QED BY <2>1, <2>3, <3>1 DEF Good, Feasible
  <2> QED BY <2>2, <2>3 DEF FeasibleSchedule
<1> QED BY <1>1, InductiveInvariant, PTL

\* solutionSelection stops at the first candidate of another category or application, and
\* stops too early for none: a gNB that has finished has no candidate left.
THEOREM CandidatesStayConsidered == Spec => []CandidatesAreConsidered
<1>1. IInv => CandidatesAreConsidered
  BY DEF IInv, Core, SchedFine, Ordered, CandidatesAreConsidered
<1> QED BY <1>1, InductiveInvariant, PTL

-----------------------------------------------------------------------------
(* The guarantee of the scheme.                                             *)

ValueOf(S) == [x \in S |-> x.inst.value]
WeightOf(S) == [x \in S |-> Weight(x.inst)]

\* the measures of a schedule as sums of weights
LEMMA MeasuresAreSums ==
  ASSUME NEW S, S \subseteq Candidate, IsFiniteSet(S)
  PROVE  /\ RbOf(S) \in [S -> Nat] /\ Rbs(S) = SumOver(RbOf(S), S)
         /\ CuOf(S) \in [S -> Nat] /\ Cus(S) = SumOver(CuOf(S), S)
         /\ ValueOf(S) \in [S -> Nat] /\ Value(S) = SumOver(ValueOf(S), S)
         /\ WeightOf(S) \in [S -> Nat]
<1>1. \A x \in S : /\ x.inst.rb \in Nat /\ x.inst.cu \in Nat /\ x.inst.value \in Nat
                   /\ Weight(x.inst) \in Nat
  <2>1. \A x \in S : x.inst \in Inst
    BY DEF Candidate
  <2> QED BY <2>1, InstNumbers
<1>2. ValueOf(S) \in [S -> Nat] /\ WeightOf(S) \in [S -> Nat]
  BY <1>1 DEF ValueOf, WeightOf
<1>3. RbOf(S) \in [S -> Nat] /\ CuOf(S) \in [S -> Nat]
  BY <1>1 DEF RbOf, CuOf
<1>4. Rbs(S) = SumOver(RbOf(S), S)
  <2>1. PICK f : SumsUp(f, S, RbOf(S)) /\ Rbs(S) = f[S]
    BY SumsOfCandidates
  <2>2. PICK g : SumsUp(g, S, RbOf(S)) /\ SumOver(RbOf(S), S) = g[S]
    BY <1>3, SumOverIs
  <2> QED BY <2>1, <2>2, SumsAgree
<1>5. Cus(S) = SumOver(CuOf(S), S)
  <2>1. PICK f : SumsUp(f, S, CuOf(S)) /\ Cus(S) = f[S]
    BY SumsOfCandidates
  <2>2. PICK g : SumsUp(g, S, CuOf(S)) /\ SumOver(CuOf(S), S) = g[S]
    BY <1>3, SumOverIs
  <2> QED BY <2>1, <2>2, SumsAgree
<1>6. Value(S) = SumOver(ValueOf(S), S)
  <2> DEFINE iter[T \in SUBSET S] ==
               IF T = {} THEN 0
               ELSE LET x == CHOOSE x \in T : TRUE IN x.inst.value + iter[T \ {x}]
  <2>1. PICK f : SumsUp(f, S, ValueOf(S)) /\ SumOver(ValueOf(S), S) = f[S]
    <3> HIDE DEF iter
    <3> QED BY <1>2, SumOverIs
  <2>2. f = [T \in SUBSET S |->
               IF T = {} THEN 0
               ELSE LET x == CHOOSE x \in T : TRUE IN x.inst.value + f[T \ {x}]]
    <3> HIDE DEF iter
    <3> QED BY <2>1 DEF SumsUp, ValueOf
  <2>3. iter = [T \in SUBSET S |->
               IF T = {} THEN 0
               ELSE LET x == CHOOSE x \in T : TRUE IN x.inst.value + iter[T \ {x}]]
    BY <2>2, Zenon
  <2>4. Value(S) = iter[S]
    BY DEF Value, MapThenSumSet, MapThenFoldSet
  <2> HIDE DEF iter
  <2>5. SumsUp(iter, S, ValueOf(S))
    BY <2>3 DEF SumsUp, ValueOf
  <2>6. iter[S] = f[S]
    BY <2>1, <2>5, SumsAgree
  <2> QED BY <2>1, <2>4, <2>6
<1> QED BY <1>2, <1>3, <1>4, <1>5, <1>6

\* a schedule is worth what its members are
LEMMA ValueOfMore ==
  ASSUME NEW S, S \subseteq Candidate, IsFiniteSet(S), NEW x \in Candidate, x \notin S
  PROVE  /\ Value(S) \in Nat /\ Value(S \cup {x}) = Value(S) + x.inst.value
         /\ Value({}) = 0
<1>1. S \cup {x} \subseteq Candidate /\ IsFiniteSet(S \cup {x}) /\ IsFiniteSet({})
  BY FS_AddElement, FS_EmptySet
<1>2. ValueOf(S) \in [S -> Nat] /\ Value(S) = SumOver(ValueOf(S), S)
  BY MeasuresAreSums
<1>3. /\ ValueOf(S \cup {x}) \in [S \cup {x} -> Nat]
      /\ Value(S \cup {x}) = SumOver(ValueOf(S \cup {x}), S \cup {x})
  BY <1>1, MeasuresAreSums
<1>4. \A y \in S : ValueOf(S \cup {x})[y] = ValueOf(S)[y]
  BY DEF ValueOf
<1>5. SumOver(ValueOf(S \cup {x}), S \cup {x}) = SumOver(ValueOf(S), S) + ValueOf(S \cup {x})[x]
  <2> DEFINE v == ValueOf(S)
             w == ValueOf(S \cup {x})
  <2>1. v \in [S -> Nat] /\ w \in [S \cup {x} -> Nat] /\ \A y \in S : w[y] = v[y]
    BY <1>2, <1>3, <1>4
  <2> HIDE DEF v, w
  <2>2. SumOver(w, S \cup {x}) = SumOver(v, S) + w[x]
    BY <2>1, SumOverMore
  <2> QED BY <2>2 DEF v, w
<1>6. ValueOf(S \cup {x})[x] = x.inst.value
  BY DEF ValueOf
<1>7. SumOver(ValueOf(S), S) \in Nat
  BY <1>2, SumOverTyped
<1>8. Value({}) = 0
  <2>1. ValueOf({}) \in [{} -> Nat] /\ Value({}) = SumOver(ValueOf({}), {})
    BY <1>1, MeasuresAreSums
  <2> QED BY <1>1, <2>1, SumOverTyped
<1> QED BY <1>2, <1>3, <1>5, <1>6, <1>7, <1>8

(* The accounts of a round.  For the candidates that are left at gNB g, n[g] of them,   *)
(* at[g][i] is what the token of the i-th brought, gain[g][i] its utility, red[g][i] the *)
(* utilities of the first i and oth[g][i][a] those of applications other than a.  For    *)
(* application a, r[a] is what its candidates that are left at all gNBs have added; for  *)
(* gNB g, y[g] is what candidates that have left added and its schedule is worth more.   *)
Books ==
    [n : [Gnbs -> Nat], at : [Gnbs -> [Nat -> Nat]], gain : [Gnbs -> [Nat -> Nat]],
     red : [Gnbs -> [Nat -> Nat]], oth : [Gnbs -> [Nat -> [Apps -> Nat]]],
     r : [Apps -> Nat], y : [Gnbs -> Nat]]

\* the i-th candidate at g, c, adds its utility to what is there, and is worth that
Entered(L, g, i, c) ==
    /\ L.red[g][i] = L.red[g][i - 1] + L.gain[g][i]
    /\ \A b \in Apps : L.oth[g][i][b] = L.oth[g][i - 1][b] + (IF b = c.app THEN 0 ELSE L.gain[g][i])
    /\ Whole * (L.at[g][i] + L.gain[g][i]) + Weight(c.inst) * L.oth[g][i - 1][c.app]
         <= Whole * c.inst.value

Stacked(L, Q) ==
    \A g \in Gnbs : /\ L.n[g] <= Len(Q[g]) /\ L.red[g][0] = 0
                    /\ \A i \in 1 .. L.n[g] : Entered(L, g, i, Q[g][i])

\* candidate c at g comes before candidate d of the same application at h
Earlier(R, g, c, h, d) ==
    \/ RankOf(c) < RankOf(d)
    \/ /\ RankOf(c) = RankOf(d)
       /\ \E p, q \in PVs : p < q /\ HasNumber(R, g, c.app, p) /\ HasNumber(R, h, d.app, q)

\* of two candidates of an application, the later one was pushed with what the earlier added
Chained(L, Q, R) ==
    \A g, h \in Gnbs : \A i \in 1 .. L.n[g], j \in 1 .. L.n[h] :
        /\ Q[g][i].app = Q[h][j].app
        /\ IF g = h THEN i < j ELSE Earlier(R, g, Q[g][i], h, Q[h][j])
        => L.at[g][i] + L.gain[g][i] <= L.at[h][j]

\* and an application has no more than all of them added
Limited(L, Q) ==
    \A g \in Gnbs : \A i \in 1 .. L.n[g] : L.at[g][i] + L.gain[g][i] <= L.r[Q[g][i].app]

\* what the schedule X of g still owes to the candidates that are left
Owed(L, g, x) == Whole * L.r[x.app] + Weight(x.inst) * L.oth[g][L.n[g]][x.app]
Due(L, g, X) == [x \in X |-> Owed(L, g, x)]
Paid(L, g, X) == Whole * L.y[g] + SumOver(Due(L, g, X), X) <= Whole * Value(X)

\* no reduction is forgotten
Covered(L, d) ==
    SumOver(d, Gnbs) <= SumOver([g \in Gnbs |-> L.y[g] + L.red[g][L.n[g]]], Gnbs)

\* Q: the candidates, X: the schedules, d: the reductions of the gNBs
Audited(L, Q, R, X, d) ==
    /\ L \in Books /\ Q \in [Gnbs -> Seq(Candidate)] /\ d \in [Gnbs -> Nat]
    /\ \A g \in Gnbs : X[g] \subseteq Candidate /\ IsFiniteSet(X[g])
    /\ Stacked(L, Q) /\ Chained(L, Q, R) /\ Limited(L, Q)
    /\ \A g \in Gnbs : Paid(L, g, X[g])
    /\ Covered(L, d)

\* the numbers of a book
LEMMA BookNumbers ==
  ASSUME NEW L \in Books
  PROVE  /\ \A g \in Gnbs : L.n[g] \in Nat /\ L.y[g] \in Nat
         /\ \A g \in Gnbs : \A i \in Nat : /\ L.at[g][i] \in Nat /\ L.gain[g][i] \in Nat
                                           /\ L.red[g][i] \in Nat
                                           /\ \A a \in Apps : L.oth[g][i][a] \in Nat
         /\ \A a \in Apps : L.r[a] \in Nat
BY DEF Books

\* what a base station has paid and still has to bear is a number
LEMMA BookBears ==
  ASSUME NEW L \in Books, NEW g \in Gnbs
  PROVE  L.y[g] + L.red[g][L.n[g]] \in Nat
<1>1. L.n[g] \in Nat /\ L.y[g] \in Nat
  BY BookNumbers
<1>2. L.red[g][L.n[g]] \in Nat
  BY <1>1, BookNumbers
<1> QED BY <1>1, <1>2

\* M is L after candidate c, with utility u, was pushed at g
Pushed(L, M, g, c, u) ==
    LET m == L.n[g] + 1
    IN  /\ M.n[g] = m /\ M.y = L.y
        /\ \A b \in Apps : M.r[b] = IF b = c.app THEN L.r[b] + u ELSE L.r[b]
        /\ \A h \in Gnbs : h # g => /\ M.n[h] = L.n[h] /\ M.at[h] = L.at[h] /\ M.gain[h] = L.gain[h]
                                    /\ M.red[h] = L.red[h] /\ M.oth[h] = L.oth[h]
        /\ \A i \in Nat : i # m => /\ M.at[g][i] = L.at[g][i] /\ M.gain[g][i] = L.gain[g][i]
                                   /\ M.red[g][i] = L.red[g][i] /\ M.oth[g][i] = L.oth[g][i]
        /\ M.at[g][m] = L.r[c.app] /\ M.gain[g][m] = u /\ M.red[g][m] = L.red[g][m - 1] + u
        /\ \A b \in Apps : M.oth[g][m][b] = L.oth[g][m - 1][b] + (IF b = c.app THEN 0 ELSE u)

LEMMA PushExists ==
  ASSUME NEW L \in Books, NEW g \in Gnbs, NEW c \in Candidate, NEW u \in Nat
  PROVE  \E M \in Books : Pushed(L, M, g, c, u)
<1> DEFINE m == L.n[g] + 1
           a == c.app
           o == [b \in Apps |-> L.oth[g][m - 1][b] + (IF b = a THEN 0 ELSE u)]
           M == [n |-> [L.n EXCEPT ![g] = m],
                 at |-> [L.at EXCEPT ![g] = [L.at[g] EXCEPT ![m] = L.r[a]]],
                 gain |-> [L.gain EXCEPT ![g] = [L.gain[g] EXCEPT ![m] = u]],
                 red |-> [L.red EXCEPT ![g] = [L.red[g] EXCEPT ![m] = L.red[g][m - 1] + u]],
                 oth |-> [L.oth EXCEPT ![g] = [L.oth[g] EXCEPT ![m] = o]],
                 r |-> [L.r EXCEPT ![a] = L.r[a] + u],
                 y |-> L.y]
<1>1. m \in Nat /\ m - 1 \in Nat /\ m - 1 = L.n[g] /\ a \in Apps
  <2>1. L.n[g] \in Nat
    BY BookNumbers
  <2>2. c.app \in Apps
    BY DEF Candidate
  <2> QED BY <2>1, <2>2
<1>2. /\ L.n \in [Gnbs -> Nat] /\ L.at \in [Gnbs -> [Nat -> Nat]] /\ L.gain \in [Gnbs -> [Nat -> Nat]]
      /\ L.red \in [Gnbs -> [Nat -> Nat]] /\ L.oth \in [Gnbs -> [Nat -> [Apps -> Nat]]]
      /\ L.r \in [Apps -> Nat] /\ L.y \in [Gnbs -> Nat]
  BY DEF Books
<1>3. o \in [Apps -> Nat] /\ L.red[g][m - 1] + u \in Nat /\ L.r[a] + u \in Nat /\ L.r[a] \in Nat
  <2> HIDE DEF m
  <2>0. L.red[g] \in [Nat -> Nat] /\ L.oth[g] \in [Nat -> [Apps -> Nat]] /\ L.r[a] \in Nat
    BY <1>1, <1>2
  <2>1. L.red[g][m - 1] + u \in Nat /\ L.r[a] + u \in Nat
    <3>1. L.red[g][m - 1] \in Nat
      BY <1>1, <2>0
    <3> QED BY <2>0, <3>1
  <2>2. L.oth[g][m - 1] \in [Apps -> Nat]
    BY <1>1, <2>0
  <2>3. \A b \in Apps : L.oth[g][m - 1][b] + (IF b = a THEN 0 ELSE u) \in Nat
    BY <2>2
  <2> QED BY <2>0, <2>1, <2>3
<1>4. \A b \in Apps : o[b] = L.oth[g][m - 1][b] + (IF b = a THEN 0 ELSE u)
  OBVIOUS
<1> HIDE DEF m, o
<1>5. /\ [L.n EXCEPT ![g] = m] \in [Gnbs -> Nat]
      /\ [L.at EXCEPT ![g] = [L.at[g] EXCEPT ![m] = L.r[a]]] \in [Gnbs -> [Nat -> Nat]]
      /\ [L.gain EXCEPT ![g] = [L.gain[g] EXCEPT ![m] = u]] \in [Gnbs -> [Nat -> Nat]]
      /\ [L.red EXCEPT ![g] = [L.red[g] EXCEPT ![m] = L.red[g][m - 1] + u]] \in [Gnbs -> [Nat -> Nat]]
      /\ [L.oth EXCEPT ![g] = [L.oth[g] EXCEPT ![m] = o]] \in [Gnbs -> [Nat -> [Apps -> Nat]]]
      /\ [L.r EXCEPT ![a] = L.r[a] + u] \in [Apps -> Nat]
  BY <1>1, <1>2, <1>3
<1>6. M \in Books
  BY <1>2, <1>5 DEF Books
<1>7. /\ M.n = [L.n EXCEPT ![g] = m] /\ M.y = L.y
      /\ M.at = [L.at EXCEPT ![g] = [L.at[g] EXCEPT ![m] = L.r[a]]]
      /\ M.gain = [L.gain EXCEPT ![g] = [L.gain[g] EXCEPT ![m] = u]]
      /\ M.red = [L.red EXCEPT ![g] = [L.red[g] EXCEPT ![m] = L.red[g][m - 1] + u]]
      /\ M.oth = [L.oth EXCEPT ![g] = [L.oth[g] EXCEPT ![m] = o]]
      /\ M.r = [L.r EXCEPT ![a] = L.r[a] + u]
  OBVIOUS
<1> HIDE DEF M
<1>8. /\ M.n[g] = m /\ \A b \in Apps : M.r[b] = IF b = a THEN L.r[b] + u ELSE L.r[b]
  BY <1>1, <1>2, <1>7, Zenon
<1>9. \A h \in Gnbs : h # g => /\ M.n[h] = L.n[h] /\ M.at[h] = L.at[h] /\ M.gain[h] = L.gain[h]
                               /\ M.red[h] = L.red[h] /\ M.oth[h] = L.oth[h]
  BY <1>2, <1>7, Zenon
<1>10. /\ M.at[g] = [L.at[g] EXCEPT ![m] = L.r[a]]
       /\ M.gain[g] = [L.gain[g] EXCEPT ![m] = u]
       /\ M.red[g] = [L.red[g] EXCEPT ![m] = L.red[g][m - 1] + u]
       /\ M.oth[g] = [L.oth[g] EXCEPT ![m] = o]
  BY <1>2, <1>7
<1>11. /\ L.at[g] \in [Nat -> Nat] /\ L.gain[g] \in [Nat -> Nat] /\ L.red[g] \in [Nat -> Nat]
       /\ L.oth[g] \in [Nat -> [Apps -> Nat]]
  BY <1>2
<1>12. \A i \in Nat : i # m => /\ M.at[g][i] = L.at[g][i] /\ M.gain[g][i] = L.gain[g][i]
                               /\ M.red[g][i] = L.red[g][i] /\ M.oth[g][i] = L.oth[g][i]
  BY <1>10, <1>11, Zenon
<1>13. M.at[g][m] = L.r[a] /\ M.gain[g][m] = u /\ M.red[g][m] = L.red[g][m - 1] + u
       /\ M.oth[g][m] = o
  BY <1>1, <1>10, <1>11, Zenon
<1>14. \A b \in Apps : M.oth[g][m][b] = L.oth[g][m - 1][b] + (IF b = a THEN 0 ELSE u)
  BY <1>4, <1>13, SMTT(60)
<1>15. Pushed(L, M, g, c, u)
  BY <1>1, <1>7, <1>8, <1>9, <1>12, <1>13, <1>14, Zenon DEF Pushed, m
<1> QED BY <1>6, <1>15

\* a candidate that is pushed with what its token brought keeps the accounts
LEMMA PushAudited ==
  ASSUME NEW L, NEW Q, NEW R, NEW X, NEW d, Audited(L, Q, R, X, d),
         NEW g \in Gnbs, NEW c \in Candidate, NEW u \in Nat,
         L.n[g] = Len(Q[g]), X[g] = {},
         \A h \in Gnbs : \A x \in X[h] : x.app # c.app,
         Whole * (L.r[c.app] + u) + Weight(c.inst) * L.oth[g][L.n[g]][c.app]
           <= Whole * c.inst.value,
         \A h \in Gnbs : h # g => \A j \in 1 .. L.n[h] :
             Q[h][j].app = c.app => ~Earlier(R, g, c, h, Q[h][j]),
         NEW M \in Books, Pushed(L, M, g, c, u)
  PROVE  Audited(M, [Q EXCEPT ![g] = Append(Q[g], c)], R, X, [d EXCEPT ![g] = d[g] + u])
<1> DEFINE m == L.n[g] + 1
           a == c.app
           P == [Q EXCEPT ![g] = Append(Q[g], c)]
           e == [d EXCEPT ![g] = d[g] + u]
<1>1. /\ L \in Books /\ Q \in [Gnbs -> Seq(Candidate)] /\ d \in [Gnbs -> Nat]
      /\ \A h \in Gnbs : X[h] \subseteq Candidate /\ IsFiniteSet(X[h])
      /\ Stacked(L, Q) /\ Chained(L, Q, R) /\ Limited(L, Q)
      /\ \A h \in Gnbs : Paid(L, h, X[h])
      /\ Covered(L, d)
  BY DEF Audited
<1>2. /\ \A h \in Gnbs : L.n[h] \in Nat /\ L.y[h] \in Nat
      /\ \A h \in Gnbs : \A i \in Nat : /\ L.at[h][i] \in Nat /\ L.gain[h][i] \in Nat
                                        /\ L.red[h][i] \in Nat
                                        /\ \A b \in Apps : L.oth[h][i][b] \in Nat
      /\ \A b \in Apps : L.r[b] \in Nat
  BY <1>1, BookNumbers
<1>3. m \in Nat /\ m - 1 = L.n[g] /\ m # 0 /\ a \in Apps /\ L.n[g] \in Nat /\ m = L.n[g] + 1
  BY <1>2, SMTT(60) DEF Candidate
<1>4. /\ M.n[g] = m /\ M.y = L.y
      /\ \A b \in Apps : M.r[b] = IF b = a THEN L.r[b] + u ELSE L.r[b]
      /\ \A h \in Gnbs : h # g => /\ M.n[h] = L.n[h] /\ M.at[h] = L.at[h] /\ M.gain[h] = L.gain[h]
                                  /\ M.red[h] = L.red[h] /\ M.oth[h] = L.oth[h]
      /\ \A i \in Nat : i # m => /\ M.at[g][i] = L.at[g][i] /\ M.gain[g][i] = L.gain[g][i]
                                 /\ M.red[g][i] = L.red[g][i] /\ M.oth[g][i] = L.oth[g][i]
      /\ M.at[g][m] = L.r[a] /\ M.gain[g][m] = u /\ M.red[g][m] = L.red[g][m - 1] + u
      /\ \A b \in Apps : M.oth[g][m][b] = L.oth[g][m - 1][b] + (IF b = a THEN 0 ELSE u)
  BY DEF Pushed
<1>5. /\ P \in [Gnbs -> Seq(Candidate)] /\ Len(P[g]) = m /\ P[g][m] = c
      /\ \A i \in 1 .. L.n[g] : P[g][i] = Q[g][i]
      /\ \A h \in Gnbs : h # g => P[h] = Q[h]
  <2>1. Q[g] \in Seq(Candidate)
    BY <1>1
  <2>2. /\ Append(Q[g], c) \in Seq(Candidate) /\ Len(Append(Q[g], c)) = Len(Q[g]) + 1
        /\ Append(Q[g], c)[Len(Q[g]) + 1] = c
        /\ \A i \in 1 .. Len(Q[g]) : Append(Q[g], c)[i] = Q[g][i]
    BY <2>1
  <2>3. P[g] = Append(Q[g], c) /\ \A h \in Gnbs : h # g => P[h] = Q[h]
    BY <1>1
  <2>4. P \in [Gnbs -> Seq(Candidate)]
    BY <1>1, <2>2
  <2> HIDE DEF P
  <2> QED BY <2>2, <2>3, <2>4
<1>6. \A h \in Gnbs : \A i \in 1 .. L.n[h] :
         /\ i \in 1 .. M.n[h] /\ P[h][i] = Q[h][i]
         /\ M.at[h][i] = L.at[h][i] /\ M.gain[h][i] = L.gain[h][i]
  <2> HIDE DEF P, m
  <2> SUFFICES ASSUME NEW h \in Gnbs, NEW i \in 1 .. L.n[h]
               PROVE  /\ i \in 1 .. M.n[h] /\ P[h][i] = Q[h][i]
                      /\ M.at[h][i] = L.at[h][i] /\ M.gain[h][i] = L.gain[h][i]
    OBVIOUS
  <2>1. CASE h # g
    BY <1>4, <1>5, <2>1
  <2>2. CASE h = g
    <3>1. i \in Nat /\ i # m /\ i \in 1 .. m
      BY <1>3, <2>2
    <3> QED BY <1>4, <1>5, <2>2, <3>1
  <2> QED BY <2>1, <2>2
<1>7. \A h \in Gnbs : \A i \in 1 .. M.n[h] : i \in 1 .. L.n[h] \/ (h = g /\ i = m)
  <2> HIDE DEF P, m
  <2> SUFFICES ASSUME NEW h \in Gnbs, NEW i \in 1 .. M.n[h]
               PROVE  i \in 1 .. L.n[h] \/ (h = g /\ i = m)
    OBVIOUS
  <2>1. CASE h # g
    BY <1>4, <2>1
  <2>2. CASE h = g
    <3>1. i \in 1 .. m
      BY <1>4, <2>2
    <3> QED BY <1>3, <2>2, <3>1
  <2> QED BY <2>1, <2>2
<1> HIDE DEF P, e, m, a
<1>8. Stacked(M, P)
  <2>1. ASSUME NEW h \in Gnbs, h # g
        PROVE  /\ M.n[h] <= Len(P[h]) /\ M.red[h][0] = 0
               /\ \A i \in 1 .. M.n[h] : Entered(M, h, i, P[h][i])
    <3>1. /\ L.n[h] <= Len(Q[h]) /\ L.red[h][0] = 0
          /\ \A i \in 1 .. L.n[h] : Entered(L, h, i, Q[h][i])
      BY <1>1 DEF Stacked
    <3>2. /\ M.n[h] = L.n[h] /\ M.at[h] = L.at[h] /\ M.gain[h] = L.gain[h]
          /\ M.red[h] = L.red[h] /\ M.oth[h] = L.oth[h] /\ P[h] = Q[h]
      BY <1>4, <1>5, <2>1
    <3> QED BY <3>1, <3>2 DEF Entered
  <2>2. M.n[g] <= Len(P[g])
    BY <1>3, <1>4, <1>5
  <2>3. M.red[g][0] = 0
    BY <1>1, <1>3, <1>4, SMTT(60) DEF Stacked
  <2>4. ASSUME NEW i \in 1 .. L.n[g] PROVE Entered(M, g, i, P[g][i])
    <3>1. i \in Nat /\ i - 1 \in Nat /\ i # m /\ i - 1 # m
      BY <1>3
    <3>2. Entered(L, g, i, Q[g][i])
      BY <1>1 DEF Stacked
    <3>3. /\ M.at[g][i] = L.at[g][i] /\ M.gain[g][i] = L.gain[g][i]
          /\ M.red[g][i] = L.red[g][i] /\ M.oth[g][i] = L.oth[g][i]
          /\ M.red[g][i - 1] = L.red[g][i - 1] /\ M.oth[g][i - 1] = L.oth[g][i - 1]
      BY <1>4, <3>1
    <3> QED BY <1>5, <3>2, <3>3, SMTT(60) DEF Entered
  <2>5. Entered(M, g, m, P[g][m])
    <3>1. m - 1 \in Nat /\ m - 1 # m
      BY <1>3
    <3>2. M.red[g][m - 1] = L.red[g][m - 1] /\ M.oth[g][m - 1] = L.oth[g][m - 1]
      BY <1>4, <3>1
    <3>3. Whole * (L.r[a] + u) + Weight(c.inst) * L.oth[g][m - 1][a] <= Whole * c.inst.value
      BY <1>3 DEF a
    <3>4. P[g][m] = c
      BY <1>5
    <3> QED BY <1>4, <3>2, <3>3, <3>4 DEF Entered, a
  <2>6. \A i \in 1 .. M.n[g] : Entered(M, g, i, P[g][i])
    BY <1>7, <2>4, <2>5
  <2> QED BY <2>1, <2>2, <2>3, <2>6, SMTT(60) DEF Stacked
<1>9. Chained(M, P, R)
  <2> SUFFICES ASSUME NEW h \in Gnbs, NEW k \in Gnbs, NEW i \in 1 .. M.n[h], NEW j \in 1 .. M.n[k],
                      P[h][i].app = P[k][j].app,
                      IF h = k THEN i < j ELSE Earlier(R, h, P[h][i], k, P[k][j])
               PROVE  M.at[h][i] + M.gain[h][i] <= M.at[k][j]
    BY DEF Chained
  <2>1. CASE i \in 1 .. L.n[h] /\ j \in 1 .. L.n[k]
    BY <1>1, <1>6, <2>1, ZenonT(60) DEF Chained
  <2>2. CASE i \in 1 .. L.n[h] /\ k = g /\ j = m
    <3>1. P[h][i] = Q[h][i] /\ P[k][j] = c
      BY <1>5, <1>6, <2>2
    <3>2. L.at[h][i] + L.gain[h][i] <= L.r[a]
      BY <1>1, <2>2, <3>1 DEF Limited, a
    <3> QED BY <1>4, <1>6, <2>2, <3>2
  <2>3. CASE h = g /\ i = m /\ j \in 1 .. L.n[k]
    <3>1. CASE k = g
      BY <1>3, <2>3, <3>1
    <3>2. CASE k # g
      <4>1. P[h][i] = c /\ P[k][j] = Q[k][j]
        BY <1>5, <1>6, <2>3
      <4> QED BY <2>3, <3>2, <4>1
    <3> QED BY <3>1, <3>2
  <2>4. CASE h = g /\ i = m /\ k = g /\ j = m
    BY <1>3, <2>4
  <2> QED BY <1>7, <2>1, <2>2, <2>3, <2>4
<1>10. Limited(M, P)
  <2> SUFFICES ASSUME NEW h \in Gnbs, NEW i \in 1 .. M.n[h]
               PROVE  M.at[h][i] + M.gain[h][i] <= M.r[P[h][i].app]
    BY DEF Limited
  <2>1. CASE i \in 1 .. L.n[h]
    <3>1. L.at[h][i] + L.gain[h][i] <= L.r[Q[h][i].app]
      BY <1>1, <2>1 DEF Limited
    <3>2. Q[h][i].app \in Apps
      <4>1. Q[h] \in Seq(Candidate) /\ L.n[h] \in Nat /\ L.n[h] <= Len(Q[h])
        BY <1>1, <1>2 DEF Stacked
      <4>2. Q[h][i] \in Candidate
        BY <2>1, <4>1
      <4> QED BY <4>2 DEF Candidate
    <3>3. i \in Nat /\ L.at[h][i] \in Nat /\ L.gain[h][i] \in Nat
      BY <1>2, <2>1
    <3>4. L.r[Q[h][i].app] <= M.r[Q[h][i].app] /\ M.r[Q[h][i].app] \in Nat
          /\ L.r[Q[h][i].app] \in Nat
      <4> DEFINE b == Q[h][i].app
      <4>1. b \in Apps
        BY <3>2
      <4> HIDE DEF b
      <4>2. L.r[b] \in Nat /\ M.r[b] = IF b = a THEN L.r[b] + u ELSE L.r[b]
        BY <1>2, <1>4, <4>1
      <4>3. L.r[b] <= M.r[b] /\ M.r[b] \in Nat /\ L.r[b] \in Nat
        BY <4>2
      <4> QED BY <4>3 DEF b
    <3>5. P[h][i] = Q[h][i] /\ M.at[h][i] = L.at[h][i] /\ M.gain[h][i] = L.gain[h][i]
      BY <1>6, <2>1
    <3> QED BY <3>1, <3>3, <3>4, <3>5, SMTT(60)
  <2>2. CASE h = g /\ i = m
    <3>1. M.at[h][i] + M.gain[h][i] = L.r[a] + u /\ P[h][i].app = a
      BY <1>4, <1>5, <2>2 DEF a
    <3>2. M.r[a] = L.r[a] + u /\ L.r[a] \in Nat
      BY <1>2, <1>3, <1>4
    <3> QED BY <3>1, <3>2
  <2> QED BY <1>7, <2>1, <2>2
<1>11. ASSUME NEW h \in Gnbs PROVE Paid(M, h, X[h])
  <2>1. ASSUME NEW x \in X[h]
        PROVE  Owed(M, h, x) = Owed(L, h, x)
    <3>1. h # g /\ x.app # a /\ x.app \in Apps
      BY <1>1 DEF Candidate, a
    <3> QED BY <1>4, <3>1 DEF Owed
  <2>2. Due(M, h, X[h]) = Due(L, h, X[h])
    BY <2>1 DEF Due
  <2> QED BY <1>1, <1>4, <2>2 DEF Paid
<1>12. Covered(M, e)
  <2> DEFINE v == [h \in Gnbs |-> L.y[h] + L.red[h][L.n[h]]]
             w == [h \in Gnbs |-> M.y[h] + M.red[h][M.n[h]]]
  <2>1. v \in [Gnbs -> Nat] /\ w \in [Gnbs -> Nat]
    <3>1. \A h \in Gnbs : L.y[h] + L.red[h][L.n[h]] \in Nat
      BY <1>2
    <3>2. \A h \in Gnbs : M.y[h] + M.red[h][M.n[h]] \in Nat
      BY BookNumbers, SMTT(60)
    <3> QED BY <3>1, <3>2
  <2>2. e \in [Gnbs -> Nat] /\ e[g] = d[g] + u /\ \A h \in Gnbs : h # g => e[h] = d[h]
    BY <1>1 DEF e
  <2>3. IsFiniteSet(Gnbs)
    BY DistSchedulingAssumption
  <2>4. \A h \in Gnbs : h # g => w[h] = v[h]
    BY <1>4
  <2>5. w[g] = v[g] + u
    <3>1. M.red[g][M.n[g]] = L.red[g][L.n[g]] + u
      BY <1>3, <1>4
    <3>2. L.y[g] \in Nat /\ L.red[g][L.n[g]] \in Nat
      BY <1>2
    <3>3. M.y[g] = L.y[g]
      BY <1>4
    <3>4. w[g] = M.y[g] + M.red[g][M.n[g]] /\ v[g] = L.y[g] + L.red[g][L.n[g]]
      OBVIOUS
    <3> HIDE DEF v, w
    <3> QED BY <3>1, <3>2, <3>3, <3>4
  <2>6. SumOver(d, Gnbs) <= SumOver(v, Gnbs)
    BY <1>1 DEF Covered
  <2> HIDE DEF v, w
  <2>7. Grown(e, d, Gnbs, g, u)
    BY <1>1, <2>2 DEF Grown
  <2>8. Grown(w, v, Gnbs, g, u)
    BY <2>1, <2>4, <2>5 DEF Grown
  <2>9. SumOver(e, Gnbs) <= SumOver(w, Gnbs)
    BY <2>3, <2>6, <2>7, <2>8, SumsGrowTogether
  <2> QED BY <2>9 DEF Covered, w
<1>13. e \in [Gnbs -> Nat]
  BY <1>1 DEF e
<1>14. Audited(M, P, R, X, e)
  BY <1>1, <1>5, <1>8, <1>9, <1>10, <1>11, <1>12, <1>13 DEF Audited
<1> QED BY <1>14 DEF P, e

\* M is L after the last candidate at g, of application a, has left, and h bears its utility
Popped(L, M, g, a, h) ==
    LET m == L.n[g]
    IN  /\ M.at = L.at /\ M.gain = L.gain /\ M.red = L.red /\ M.oth = L.oth
        /\ \A k \in Gnbs : M.n[k] = IF k = g THEN m - 1 ELSE L.n[k]
        /\ \A b \in Apps : M.r[b] = IF b = a THEN L.at[g][m] ELSE L.r[b]
        /\ \A k \in Gnbs : M.y[k] = IF k = h THEN L.y[k] + L.gain[g][m] ELSE L.y[k]

LEMMA PopExists ==
  ASSUME NEW L \in Books, NEW g \in Gnbs, L.n[g] # 0, NEW a \in Apps, NEW h \in Gnbs
  PROVE  \E M \in Books : Popped(L, M, g, a, h)
<1> DEFINE m == L.n[g]
           M == [L EXCEPT !.n = [L.n EXCEPT ![g] = m - 1],
                          !.r = [L.r EXCEPT ![a] = L.at[g][m]],
                          !.y = [L.y EXCEPT ![h] = L.y[h] + L.gain[g][m]]]
<1>1. m \in Nat /\ m - 1 \in Nat /\ L.at[g][m] \in Nat /\ L.gain[g][m] \in Nat /\ L.y[h] \in Nat
  BY BookNumbers
<1>2. L.n \in [Gnbs -> Nat] /\ L.r \in [Apps -> Nat] /\ L.y \in [Gnbs -> Nat]
  BY DEF Books
<1>3. L.y[h] + L.gain[g][m] \in Nat
  BY <1>1
<1> HIDE DEF m
<1>4. /\ [L.n EXCEPT ![g] = m - 1] \in [Gnbs -> Nat]
      /\ [L.r EXCEPT ![a] = L.at[g][m]] \in [Apps -> Nat]
      /\ [L.y EXCEPT ![h] = L.y[h] + L.gain[g][m]] \in [Gnbs -> Nat]
  BY <1>1, <1>2, <1>3
<1>5. M \in Books
  BY <1>4 DEF Books
<1>6. /\ M.at = L.at /\ M.gain = L.gain /\ M.red = L.red /\ M.oth = L.oth
      /\ M.n = [L.n EXCEPT ![g] = m - 1] /\ M.r = [L.r EXCEPT ![a] = L.at[g][m]]
      /\ M.y = [L.y EXCEPT ![h] = L.y[h] + L.gain[g][m]]
  BY DEF Books
<1> HIDE DEF M
<1>7. Popped(L, M, g, a, h)
  BY <1>2, <1>6 DEF Popped, m
<1> QED BY <1>5, <1>7

\* an entry that is owed nothing negative
LEMMA OwedTyped ==
  ASSUME NEW L \in Books, NEW g \in Gnbs
  PROVE  /\ \A x \in Candidate : Owed(L, g, x) \in Nat
         /\ \A X \in SUBSET Candidate : Due(L, g, X) \in [X -> Nat]
<1>1. ASSUME NEW x \in Candidate PROVE Owed(L, g, x) \in Nat
  <2>1. x.app \in Apps /\ x.inst \in Inst
    BY DEF Candidate
  <2>2. Weight(x.inst) \in Nat /\ Whole \in Nat
    BY <2>1, InstNumbers, DistSchedulingAssumption DEF Whole
  <2>3. L.r[x.app] \in Nat /\ L.oth[g][L.n[g]][x.app] \in Nat
    BY <2>1, BookNumbers
  <2>4. ASSUME NEW i \in Nat, NEW j \in Nat, NEW k \in Nat, NEW l \in Nat
        PROVE  i * j + k * l \in Nat
    OBVIOUS
  <2> QED BY <2>2, <2>3, <2>4 DEF Owed
<1> QED BY <1>1 DEF Due

\* what a schedule owes is less after a candidate has left
LEMMA OwedLess ==
  ASSUME NEW L, NEW Q, NEW R, NEW X, NEW d, Audited(L, Q, R, X, d),
         NEW g \in Gnbs, L.n[g] # 0, NEW c \in Candidate, c = Q[g][L.n[g]],
         NEW h \in Gnbs, NEW M \in Books, Popped(L, M, g, c.app, h),
         NEW k \in Gnbs, NEW x \in Candidate
  PROVE  LET u == L.gain[g][L.n[g]]
         IN  /\ Owed(M, k, x) <= Owed(L, k, x)
             /\ x.app = c.app => Owed(M, k, x) + Whole * u <= Owed(L, k, x)
             /\ k = g /\ x.app # c.app => Owed(M, k, x) + u * Weight(x.inst) <= Owed(L, k, x)
<1> DEFINE m == L.n[g]
           u == L.gain[g][m]
           b == x.app
           a == c.app
           w == Weight(x.inst)
<1>1. L \in Books /\ Stacked(L, Q) /\ Limited(L, Q)
  BY DEF Audited
<1>2. x.app \in Apps /\ x.inst \in Inst
  BY DEF Candidate
<1>3. w \in Nat /\ Whole \in Nat
  BY <1>2, InstNumbers, DistSchedulingAssumption DEF Whole
<1>4. m \in Nat /\ m - 1 \in Nat /\ m \in 1 .. L.n[g]
  BY <1>1, BookNumbers
<1>5. L.r[b] \in Nat /\ M.r[b] \in Nat /\ u \in Nat
  BY <1>1, <1>2, <1>4, BookNumbers
<1>6. b # a => M.r[b] = L.r[b]
  BY <1>2 DEF Popped
<1>7. b = a => M.r[b] + u <= L.r[b]
  <2>1. b = a => M.r[b] = L.at[g][m]
    BY <1>2 DEF Popped
  <2>2. L.at[g][m] + u <= L.r[a]
    BY <1>1, <1>4, SMTT(60) DEF Limited
  <2> QED BY <2>1, <2>2
<1> DEFINE o == L.oth[k][L.n[k]][b]
           p == M.oth[k][M.n[k]][b]
<1>8. o \in Nat /\ p \in Nat
  BY <1>1, <1>2, BookNumbers
<1>9. k # g => p = o
  BY DEF Popped
<1>10. k = g => o = p + (IF b = a THEN 0 ELSE u)
  <2>1. Entered(L, g, m, c)
    BY <1>1, <1>4 DEF Stacked
  <2>2. k = g => p = L.oth[g][m - 1][b] /\ o = L.oth[g][m][b]
    BY DEF Popped
  <2> QED BY <1>2, <2>1, <2>2, Zenon DEF Entered
<1>11. Owed(L, k, x) = Whole * L.r[b] + w * o /\ Owed(M, k, x) = Whole * M.r[b] + w * p
  BY DEF Owed
<1> HIDE DEF m, u, b, a, w, o, p
<1>12. p <= o /\ M.r[b] <= L.r[b]
  BY <1>5, <1>6, <1>7, <1>8, <1>9, <1>10
<1>13. ASSUME NEW i \in Nat, NEW j \in Nat, NEW l \in Nat, i + j <= l, NEW e \in Nat
       PROVE  e * i + e * j <= e * l /\ e * i \in Nat /\ e * j \in Nat /\ e * l \in Nat
  <2>1. e * (i + j) = e * i + e * j /\ e * (i + j) <= e * l
    BY <1>13
  <2> QED BY <2>1
<1>14. w * p <= w * o /\ Whole * M.r[b] <= Whole * L.r[b]
       /\ w * p \in Nat /\ w * o \in Nat /\ Whole * M.r[b] \in Nat /\ Whole * L.r[b] \in Nat
  <2>1. w * p + w * 0 <= w * o /\ w * 0 = 0 /\ w * p \in Nat /\ w * o \in Nat
    BY <1>3, <1>8, <1>12, <1>13
  <2>2. /\ Whole * M.r[b] + Whole * 0 <= Whole * L.r[b] /\ Whole * 0 = 0
        /\ Whole * M.r[b] \in Nat /\ Whole * L.r[b] \in Nat
    BY <1>3, <1>5, <1>12, <1>13
  <2> QED BY <2>1, <2>2
<1>15. Owed(M, k, x) <= Owed(L, k, x)
  BY <1>11, <1>14
<1>16. b = a => Owed(M, k, x) + Whole * u <= Owed(L, k, x)
  <2> SUFFICES ASSUME b = a PROVE Owed(M, k, x) + Whole * u <= Owed(L, k, x)
    OBVIOUS
  <2>1. Whole * M.r[b] + Whole * u <= Whole * L.r[b] /\ Whole * u \in Nat
    BY <1>3, <1>5, <1>7, <1>13
  <2> QED BY <1>11, <1>14, <2>1
<1>17. k = g /\ b # a => Owed(M, k, x) + u * w <= Owed(L, k, x)
  <2> SUFFICES ASSUME k = g, b # a PROVE Owed(M, k, x) + u * w <= Owed(L, k, x)
    OBVIOUS
  <2>1. p + u <= o
    BY <1>5, <1>8, <1>10
  <2>2. w * p + w * u <= w * o /\ w * u \in Nat
    BY <1>3, <1>5, <1>8, <1>13, <2>1
  <2>3. u * w = w * u
    BY <1>3, <1>5
  <2> QED BY <1>11, <1>14, <2>2, <2>3
<1> QED BY <1>15, <1>16, <1>17 DEF m, u, b, a, w

\* a schedule that owes less can bear more
LEMMA PaidMore ==
  ASSUME NEW L \in Books, NEW M \in Books, NEW g \in Gnbs, NEW X, X \subseteq Candidate,
         IsFiniteSet(X), Paid(L, g, X), NEW u \in Nat, M.y[g] = L.y[g] + u,
         NEW W, W \in [X -> Nat], NEW e \in Nat, Whole * u <= e * SumOver(W, X),
         \A x \in X : Owed(M, g, x) + e * W[x] <= Owed(L, g, x)
  PROVE  Paid(M, g, X)
<1>1. Due(L, g, X) \in [X -> Nat] /\ Due(M, g, X) \in [X -> Nat]
  BY OwedTyped
<1>2. \A x \in X : Due(M, g, X)[x] + e * W[x] <= Due(L, g, X)[x]
  BY DEF Due
<1> DEFINE v == Due(L, g, X)
           w == Due(M, g, X)
<1>3. v \in [X -> Nat] /\ w \in [X -> Nat] /\ \A x \in X : w[x] + e * W[x] <= v[x]
  BY <1>1, <1>2
<1> HIDE DEF v, w
<1>4. SumOver(w, X) + e * SumOver(W, X) <= SumOver(v, X)
  BY <1>3, SumOverScaled
<1>5. SumOver(v, X) \in Nat /\ SumOver(w, X) \in Nat /\ SumOver(W, X) \in Nat
  BY <1>3, SumOverTyped
<1>6. Whole * L.y[g] + SumOver(v, X) <= Whole * Value(X)
  BY DEF Paid, v
<1>7. Whole \in Nat /\ L.y[g] \in Nat /\ Value(X) \in Nat
  <2>1. ValueOf(X) \in [X -> Nat] /\ Value(X) = SumOver(ValueOf(X), X)
    BY MeasuresAreSums
  <2>2. Value(X) \in Nat
    BY <2>1, SumOverTyped
  <2> QED BY <2>2, BookNumbers, DistSchedulingAssumption DEF Whole
<1>8. /\ Whole * M.y[g] = Whole * L.y[g] + Whole * u
      /\ Whole * L.y[g] \in Nat /\ Whole * u \in Nat /\ Whole * Value(X) \in Nat
      /\ e * SumOver(W, X) \in Nat
  <2>1. ASSUME NEW i \in Nat, NEW j \in Nat, NEW l \in Nat
        PROVE  i * (j + l) = i * j + i * l /\ i * j \in Nat
    OBVIOUS
  <2>2. Whole * (L.y[g] + u) = Whole * L.y[g] + Whole * u /\ Whole * L.y[g] \in Nat
    BY <1>7, <2>1
  <2>3. Whole * u \in Nat /\ Whole * Value(X) \in Nat /\ e * SumOver(W, X) \in Nat
    BY <1>5, <1>7, <2>1
  <2> QED BY <2>2, <2>3
<1>9. Whole * M.y[g] + SumOver(w, X) <= Whole * Value(X)
  BY <1>4, <1>5, <1>6, <1>8
<1> QED BY <1>9 DEF Paid, w

\* the accounts after a candidate has left, if every schedule can bear what it must
LEMMA PopAudited ==
  ASSUME NEW L, NEW Q, NEW R, NEW X, NEW d, Audited(L, Q, R, X, d),
         NEW g \in Gnbs, L.n[g] # 0, NEW c \in Candidate, c = Q[g][L.n[g]],
         \A k \in Gnbs : k # g => \A j \in 1 .. L.n[k] :
             Q[k][j].app = c.app => Earlier(R, k, Q[k][j], g, c),
         NEW h \in Gnbs, NEW M \in Books, Popped(L, M, g, c.app, h),
         NEW Y, \A k \in Gnbs : Y[k] \subseteq Candidate /\ IsFiniteSet(Y[k]) /\ Paid(M, k, Y[k])
  PROVE  Audited(M, Q, R, Y, d)
<1> DEFINE m == L.n[g]
           u == L.gain[g][m]
           a == c.app
<1>1. /\ L \in Books /\ Q \in [Gnbs -> Seq(Candidate)] /\ d \in [Gnbs -> Nat]
      /\ Stacked(L, Q) /\ Chained(L, Q, R) /\ Limited(L, Q) /\ Covered(L, d)
  BY DEF Audited
<1>2. m \in Nat /\ m - 1 \in Nat /\ m \in 1 .. L.n[g] /\ a \in Apps /\ u \in Nat
  BY <1>1, BookNumbers, SMTT(60) DEF Candidate
<1>3. /\ M.at = L.at /\ M.gain = L.gain /\ M.red = L.red /\ M.oth = L.oth
      /\ \A k \in Gnbs : M.n[k] = IF k = g THEN m - 1 ELSE L.n[k]
      /\ \A b \in Apps : M.r[b] = IF b = a THEN L.at[g][m] ELSE L.r[b]
      /\ \A k \in Gnbs : M.y[k] = IF k = h THEN L.y[k] + u ELSE L.y[k]
  BY DEF Popped
<1>4. \A k \in Gnbs : /\ L.n[k] \in Nat /\ M.n[k] <= L.n[k]
                      /\ \A i \in 1 .. M.n[k] : i \in 1 .. L.n[k] /\ (k = g => i < m)
  <2> SUFFICES ASSUME NEW k \in Gnbs
               PROVE  /\ L.n[k] \in Nat /\ M.n[k] <= L.n[k]
                      /\ \A i \in 1 .. M.n[k] : i \in 1 .. L.n[k] /\ (k = g => i < m)
    OBVIOUS
  <2>1. L.n[k] \in Nat /\ M.n[k] = IF k = g THEN m - 1 ELSE L.n[k]
    BY <1>1, <1>3, BookNumbers, SMTT(60)
  <2> QED BY <1>2, <2>1
<1> HIDE DEF m, u, a
<1>5. Stacked(M, Q)
  <2> SUFFICES ASSUME NEW k \in Gnbs
               PROVE  /\ M.n[k] <= Len(Q[k]) /\ M.red[k][0] = 0
                      /\ \A i \in 1 .. M.n[k] : Entered(M, k, i, Q[k][i])
    BY DEF Stacked
  <2>1. /\ L.n[k] <= Len(Q[k]) /\ L.red[k][0] = 0
        /\ \A i \in 1 .. L.n[k] : Entered(L, k, i, Q[k][i])
    BY <1>1 DEF Stacked
  <2>2. M.n[k] <= Len(Q[k])
    <3>1. Len(Q[k]) \in Nat /\ M.n[k] \in Nat
      BY <1>1, BookNumbers
    <3> QED BY <1>4, <2>1, <3>1
  <2> QED BY <1>3, <1>4, <2>1, <2>2 DEF Entered
<1>6. Chained(M, Q, R)
  BY <1>1, <1>3, <1>4 DEF Chained
<1>7. Limited(M, Q)
  <2> SUFFICES ASSUME NEW k \in Gnbs, NEW i \in 1 .. M.n[k]
               PROVE  L.at[k][i] + L.gain[k][i] <= M.r[Q[k][i].app]
    BY <1>3 DEF Limited
  <2>1. i \in 1 .. L.n[k]
    BY <1>4
  <2>2. Q[k][i].app \in Apps
    <3>1. Q[k] \in Seq(Candidate) /\ L.n[k] \in Nat /\ L.n[k] <= Len(Q[k])
      BY <1>1, <1>4 DEF Stacked
    <3>2. Q[k][i] \in Candidate
      BY <2>1, <3>1
    <3> QED BY <3>2 DEF Candidate
  <2>3. CASE Q[k][i].app # a
    <3>1. L.at[k][i] + L.gain[k][i] <= L.r[Q[k][i].app]
      BY <1>1, <2>1 DEF Limited
    <3> QED BY <1>3, <2>2, <2>3, <3>1
  <2>4. CASE Q[k][i].app = a
    <3>1. IF k = g THEN i < m ELSE Earlier(R, k, Q[k][i], g, Q[g][m])
      BY <1>4, <2>1, <2>4 DEF m, a
    <3>2. Q[g][m].app = a
      BY DEF m, a
    <3>3. L.at[k][i] + L.gain[k][i] <= L.at[g][m]
      BY <1>1, <1>2, <2>1, <2>4, <3>1, <3>2 DEF Chained
    <3> QED BY <1>2, <1>3, <2>4, <3>3
  <2> QED BY <2>3, <2>4
<1>8. Covered(M, d)
  <2> DEFINE v == [k \in Gnbs |-> L.y[k] + L.red[k][L.n[k]]]
             w == [k \in Gnbs |-> M.y[k] + M.red[k][M.n[k]]]
             z == [k \in Gnbs |-> IF k = h THEN v[k] + u ELSE v[k]]
  <2>1. v \in [Gnbs -> Nat] /\ w \in [Gnbs -> Nat]
    <3>1. \A k \in Gnbs : L.y[k] + L.red[k][L.n[k]] \in Nat
      BY <1>1, BookBears
    <3>2. \A k \in Gnbs : M.y[k] + M.red[k][M.n[k]] \in Nat
      BY BookBears
    <3> QED BY <3>1, <3>2
  <2>2. \A k \in Gnbs : z[k] = IF k = h THEN v[k] + u ELSE v[k]
    OBVIOUS
  <2>3. z \in [Gnbs -> Nat]
    <3>1. z = [k \in Gnbs |-> z[k]]
      OBVIOUS
    <3> HIDE DEF v, z
    <3>2. \A k \in Gnbs : z[k] \in Nat
      BY <1>2, <2>1, <2>2
    <3> QED BY <3>1, <3>2
  <2>4. \A k \in Gnbs : v[k] = L.y[k] + L.red[k][L.n[k]] /\ w[k] = M.y[k] + M.red[k][M.n[k]]
    OBVIOUS
  <2>5. SumOver(d, Gnbs) <= SumOver(v, Gnbs)
    BY <1>1 DEF Covered
  <2> HIDE DEF v, w, z
  <2>6. Grown(z, v, Gnbs, h, u)
    BY <2>1, <2>2, <2>3 DEF Grown
  <2>7. \A k \in Gnbs : k # g => z[k] = w[k]
    <3> SUFFICES ASSUME NEW k \in Gnbs, k # g PROVE z[k] = w[k]
      OBVIOUS
    <3>1. L.y[k] \in Nat /\ L.red[k][L.n[k]] \in Nat
      BY <1>1, BookNumbers
    <3>2. v[k] = L.y[k] + L.red[k][L.n[k]] /\ w[k] = M.y[k] + L.red[k][L.n[k]]
      BY <1>3, <2>4
    <3>3. M.y[k] = (IF k = h THEN L.y[k] + u ELSE L.y[k])
          /\ z[k] = (IF k = h THEN v[k] + u ELSE v[k])
      BY <1>3, <2>2
    <3> QED BY <1>2, <3>1, <3>2, <3>3
  <2>8. z[g] = w[g] + u
    <3>1. Entered(L, g, m, Q[g][m])
      BY <1>1, <1>2 DEF Stacked
    <3>2. L.red[g][m] = L.red[g][m - 1] + u
      BY <3>1 DEF Entered, u
    <3>3. L.red[g][m - 1] \in Nat /\ L.y[g] \in Nat
      BY <1>1, <1>2, BookNumbers
    <3>4. v[g] = L.y[g] + L.red[g][m] /\ w[g] = M.y[g] + L.red[g][m - 1]
      BY <1>3, <2>4 DEF m
    <3>5. M.y[g] = (IF g = h THEN L.y[g] + u ELSE L.y[g])
          /\ z[g] = (IF g = h THEN v[g] + u ELSE v[g])
      BY <1>3, <2>2
    <3> QED BY <1>2, <3>2, <3>3, <3>4, <3>5
  <2>9. Grown(z, w, Gnbs, g, u)
    BY <2>1, <2>3, <2>7, <2>8 DEF Grown
  <2>10. SumOver(w, Gnbs) = SumOver(v, Gnbs)
    BY <1>2, <2>6, <2>9, SumOverMoves, DistSchedulingAssumption
  <2> QED BY <2>5, <2>10 DEF Covered, w
<1> QED BY <1>1, <1>5, <1>6, <1>7, <1>8 DEF Audited

\* a candidate leaves because its application is scheduled, at h
LEMMA PopScheduled ==
  ASSUME NEW L, NEW Q, NEW R, NEW X, NEW d, Audited(L, Q, R, X, d),
         NEW g \in Gnbs, L.n[g] # 0, NEW c \in Candidate, c = Q[g][L.n[g]],
         NEW h \in Gnbs, NEW y \in X[h], y.app = c.app,
         NEW M \in Books, Popped(L, M, g, c.app, h), NEW k \in Gnbs
  PROVE  Paid(M, k, X[k])
<1> DEFINE u == L.gain[g][L.n[g]]
           W == [x \in X[k] |-> IF x.app = c.app THEN 1 ELSE 0]
           e == IF k = h THEN Whole * u ELSE 0
<1>1. L \in Books /\ X[k] \subseteq Candidate /\ IsFiniteSet(X[k]) /\ Paid(L, k, X[k])
  BY DEF Audited
<1>2. u \in Nat /\ Whole \in Nat /\ Whole * u \in Nat
  BY <1>1, BookNumbers, DistSchedulingAssumption DEF Whole
<1>3. \A x \in X[k] : W[x] = IF x.app = c.app THEN 1 ELSE 0
  OBVIOUS
<1>4. W \in [X[k] -> Nat]
  OBVIOUS
<1>5. \A x \in X[k] : /\ Owed(M, k, x) <= Owed(L, k, x)
                      /\ x.app = c.app => Owed(M, k, x) + Whole * u <= Owed(L, k, x)
                      /\ Owed(M, k, x) \in Nat /\ Owed(L, k, x) \in Nat
  BY <1>1, OwedLess, OwedTyped
<1>6. M.y[k] = L.y[k] + (IF k = h THEN u ELSE 0)
  BY <1>1, BookNumbers DEF Popped
<1> HIDE DEF W, u
<1>7. e \in Nat
  BY <1>2
<1>8. \A x \in X[k] : Owed(M, k, x) + e * W[x] <= Owed(L, k, x)
  BY <1>2, <1>3, <1>5, <1>7
<1>9. Whole * (IF k = h THEN u ELSE 0) <= e * SumOver(W, X[k])
  <2>1. CASE k = h
    <3>1. W[y] = 1 /\ W[y] <= SumOver(W, X[k])
      BY <1>1, <1>3, <1>4, <2>1, SumOverAtLeast
    <3>2. SumOver(W, X[k]) \in Nat
      BY <1>1, <1>4, SumOverTyped
    <3>3. ASSUME NEW i \in Nat, NEW j \in Nat, 1 <= j PROVE i <= i * j
      BY <3>3
    <3> QED BY <1>2, <2>1, <3>1, <3>2, <3>3
  <2>2. CASE k # h
    <3>1. SumOver(W, X[k]) \in Nat
      BY <1>1, <1>4, SumOverTyped
    <3> QED BY <1>2, <2>2, <3>1
  <2> QED BY <2>1, <2>2
<1> HIDE DEF e
<1>10. (IF k = h THEN u ELSE 0) \in Nat
  BY <1>2
<1> QED BY <1>1, <1>4, <1>6, <1>7, <1>8, <1>9, <1>10, PaidMore

\* a candidate leaves because what g has taken weighs as much as the whole gNB
LEMMA PopTooLarge ==
  ASSUME NEW L, NEW Q, NEW R, NEW X, NEW d, Audited(L, Q, R, X, d),
         NEW g \in Gnbs, L.n[g] # 0, NEW c \in Candidate, c = Q[g][L.n[g]],
         \A x \in X[g] : x.app # c.app, Whole <= SumOver(WeightOf(X[g]), X[g]),
         NEW M \in Books, Popped(L, M, g, c.app, g), NEW k \in Gnbs
  PROVE  Paid(M, k, X[k])
<1> DEFINE u == L.gain[g][L.n[g]]
           W == WeightOf(X[k])
           e == IF k = g THEN u ELSE 0
<1>1. L \in Books /\ X[k] \subseteq Candidate /\ IsFiniteSet(X[k]) /\ Paid(L, k, X[k])
  BY DEF Audited
<1>2. u \in Nat /\ Whole \in Nat
  BY <1>1, BookNumbers, DistSchedulingAssumption DEF Whole
<1>3. W \in [X[k] -> Nat]
  BY <1>1, MeasuresAreSums
<1>4. \A x \in X[k] : W[x] = Weight(x.inst)
  BY DEF WeightOf
<1>5. \A x \in X[k] : /\ Owed(M, k, x) <= Owed(L, k, x)
                      /\ k = g => Owed(M, k, x) + u * Weight(x.inst) <= Owed(L, k, x)
                      /\ Owed(M, k, x) \in Nat /\ Owed(L, k, x) \in Nat
  BY <1>1, OwedLess, OwedTyped
<1>6. M.y[k] = L.y[k] + e
  BY <1>1, BookNumbers DEF Popped
<1>7. k = g => Whole <= SumOver(W, X[k])
  OBVIOUS
<1> HIDE DEF W, u
<1>8. e \in Nat
  BY <1>2
<1>9. \A x \in X[k] : Owed(M, k, x) + e * W[x] <= Owed(L, k, x)
  BY <1>2, <1>3, <1>4, <1>5, <1>8
<1>10. SumOver(W, X[k]) \in Nat
  BY <1>1, <1>3, SumOverTyped
<1>11. Whole * e <= e * SumOver(W, X[k])
  <2>1. ASSUME NEW i \in Nat, NEW j \in Nat, NEW l \in Nat, j <= l PROVE j * i <= i * l
    BY <2>1
  <2>2. CASE k = g
    BY <1>2, <1>7, <1>8, <1>10, <2>1, <2>2
  <2>3. CASE k # g
    <3>1. e = 0
      BY <2>3
    <3> QED BY <1>2, <1>10, <3>1
  <2> QED BY <2>2, <2>3
<1> HIDE DEF e
<1> QED BY <1>1, <1>3, <1>6, <1>8, <1>9, <1>11, PaidMore

\* a schedule with one more entry owes what the entry owes more
LEMMA DueOfMore ==
  ASSUME NEW L \in Books, NEW g \in Gnbs, NEW S, S \subseteq Candidate, IsFiniteSet(S),
         NEW c \in Candidate, c \notin S
  PROVE  SumOver(Due(L, g, S \cup {c}), S \cup {c}) = SumOver(Due(L, g, S), S) + Owed(L, g, c)
<1> DEFINE w == Due(L, g, S \cup {c})
           v == Due(L, g, S)
<1>1. v \in [S -> Nat] /\ w \in [S \cup {c} -> Nat]
  BY OwedTyped
<1>2. (\A x \in S : w[x] = v[x]) /\ w[c] = Owed(L, g, c)
  BY DEF Due
<1> HIDE DEF w, v
<1>3. SumOver(w, S \cup {c}) = SumOver(v, S) + w[c]
  BY <1>1, <1>2, SumOverMore
<1> QED BY <1>2, <1>3 DEF w, v

\* a candidate leaves because it is taken
LEMMA PopSelected ==
  ASSUME NEW L, NEW Q, NEW R, NEW X, NEW d, Audited(L, Q, R, X, d),
         NEW g \in Gnbs, L.n[g] # 0, NEW c \in Candidate, c = Q[g][L.n[g]], c \notin X[g],
         NEW M \in Books, Popped(L, M, g, c.app, g), NEW k \in Gnbs
  PROVE  Paid(M, k, IF k = g THEN X[k] \cup {c} ELSE X[k])
<1> DEFINE m == L.n[g]
           u == L.gain[g][m]
           a == c.app
           P == X[k] \cup {c}
<1>1. L \in Books /\ X[k] \subseteq Candidate /\ IsFiniteSet(X[k]) /\ Paid(L, k, X[k])
  BY DEF Audited
<1>2. u \in Nat /\ Whole \in Nat /\ m \in Nat /\ m \in 1 .. L.n[g] /\ L.y[k] \in Nat /\ a \in Apps
  BY <1>1, BookNumbers, DistSchedulingAssumption DEF Whole, Candidate
<1>3. \A x \in X[k] : /\ Owed(M, k, x) <= Owed(L, k, x)
                      /\ Owed(M, k, x) \in Nat /\ Owed(L, k, x) \in Nat
  BY <1>1, OwedLess, OwedTyped
<1>4. M.y[k] = IF k = g THEN L.y[k] + u ELSE L.y[k]
  BY DEF Popped
<1>5. CASE k # g
  <2> DEFINE W == [x \in X[k] |-> 0]
  <2>1. W \in [X[k] -> Nat] /\ \A x \in X[k] : W[x] = 0
    OBVIOUS
  <2> HIDE DEF W, u, m
  <2>2. SumOver(W, X[k]) \in Nat
    BY <1>1, <2>1, SumOverTyped
  <2>3. \A x \in X[k] : Owed(M, k, x) + 0 * W[x] <= Owed(L, k, x)
    BY <1>3, <2>1
  <2>4. M.y[k] = L.y[k] + 0 /\ Whole * 0 <= 0 * SumOver(W, X[k]) /\ 0 \in Nat
    BY <1>2, <1>4, <1>5, <2>2
  <2>5. Paid(M, k, X[k])
    BY <1>1, <2>1, <2>3, <2>4, PaidMore
  <2> QED BY <1>5, <2>5
<1>6. CASE k = g
  <2> DEFINE v == Due(L, k, X[k])
             w == Due(M, k, X[k])
             z == Due(M, k, P)
  <2>1. P \subseteq Candidate /\ c \notin X[k]
    BY <1>1, <1>6
  <2>2. /\ v \in [X[k] -> Nat] /\ w \in [X[k] -> Nat] /\ z \in [P -> Nat]
        /\ \A x \in X[k] : w[x] <= v[x]
    <3>1. Due(L, k, X[k]) \in [X[k] -> Nat] /\ Due(M, k, X[k]) \in [X[k] -> Nat]
      BY <1>1, OwedTyped
    <3>2. Due(M, k, P) \in [P -> Nat]
      <4> HIDE DEF P
      <4> QED BY <2>1, OwedTyped
    <3>3. \A x \in X[k] : w[x] <= v[x]
      BY <1>3 DEF Due
    <3> QED BY <3>1, <3>2, <3>3
  <2>3. (\A x \in X[k] : z[x] = w[x]) /\ z[c] = Owed(M, k, c)
    BY DEF Due
  <2>4. SumOver(w, X[k]) <= SumOver(v, X[k])
    <3> HIDE DEF v, w, z, P
    <3> QED BY <1>1, <2>2, SumOverOrdered
  <2>5. SumOver(z, P) = SumOver(w, X[k]) + Owed(M, k, c)
    BY <1>1, <2>1, DueOfMore
  <2>6. Owed(M, k, c) + Whole * u <= Whole * c.inst.value /\ Owed(M, k, c) \in Nat
    <3>1. Entered(L, g, m, c)
      BY <1>1, <1>2 DEF Audited, Stacked
    <3>2. Owed(M, k, c) = Whole * L.at[g][m] + Weight(c.inst) * L.oth[g][m - 1][a]
      <4>1. M.r[a] = L.at[g][m] /\ M.oth = L.oth /\ M.n[k] = m - 1
        BY <1>2, <1>6, SMTT(60) DEF Popped
      <4> QED BY <1>6, <4>1 DEF Owed
    <3>3. Whole * (L.at[g][m] + u) + Weight(c.inst) * L.oth[g][m - 1][a] <= Whole * c.inst.value
      BY <3>1, ZenonT(60) DEF Entered
    <3>4. L.at[g][m] \in Nat /\ L.oth[g][m - 1][a] \in Nat /\ Weight(c.inst) \in Nat
          /\ c.inst.value \in Nat
      <4>1. c.inst \in Inst
        BY DEF Candidate
      <4>2. m - 1 \in Nat
        BY <1>2, SMTT(60)
      <4>3. L.at[g][m] \in Nat /\ L.oth[g][m - 1][a] \in Nat
        BY <1>1, <1>2, <4>2, BookNumbers, SMTT(60)
      <4> QED BY <4>1, <4>3, InstNumbers, Zenon
    <3> DEFINE p == L.at[g][m]
               o == L.oth[g][m - 1][a]
               e == Weight(c.inst)
               l == c.inst.value
    <3>5. p \in Nat /\ o \in Nat /\ e \in Nat /\ l \in Nat /\ Whole * (p + u) + e * o <= Whole * l
          /\ Owed(M, k, c) = Whole * p + e * o
      BY <3>2, <3>3, <3>4, Zenon
    <3> HIDE DEF p, o, e, l, u
    <3>6. ASSUME NEW i \in Nat, NEW j \in Nat, NEW h \in Nat
          PROVE  i * (j + h) = i * j + i * h /\ i * j \in Nat
      OBVIOUS
    <3>7. Whole * (p + u) = Whole * p + Whole * u /\ Whole * p \in Nat
      BY <1>2, <3>5, <3>6
    <3>8. Whole * u \in Nat /\ e * o \in Nat /\ Whole * l \in Nat
      BY <1>2, <3>5, <3>6
    <3>9. Owed(M, k, c) + Whole * u <= Whole * l /\ Owed(M, k, c) \in Nat
      BY <3>5, <3>7, <3>8
    <3> QED BY <3>9 DEF l
  <2>7. Value(X[k]) \in Nat /\ Value(P) = Value(X[k]) + c.inst.value /\ c.inst.value \in Nat
    <3>1. c.inst \in Inst
      BY DEF Candidate
    <3>2. c.inst.value \in Nat
      BY <3>1, InstNumbers
    <3> QED BY <1>1, <2>1, <3>2, ValueOfMore
  <2>8. Whole * L.y[k] + SumOver(v, X[k]) <= Whole * Value(X[k])
    BY <1>1 DEF Paid
  <2>9. SumOver(v, X[k]) \in Nat /\ SumOver(w, X[k]) \in Nat
    <3> HIDE DEF v, w, z, P
    <3> QED BY <1>1, <2>2, SumOverTyped
  <2> HIDE DEF v, w, u, m
  <2> DEFINE l == c.inst.value
             V == Value(X[k])
             y == L.y[k]
  <2>10. ASSUME NEW i \in Nat, NEW j \in Nat, NEW h \in Nat
         PROVE  i * (j + h) = i * j + i * h /\ i * j \in Nat
    OBVIOUS
  <2>11. /\ Whole * (y + u) = Whole * y + Whole * u /\ Whole * y \in Nat /\ Whole * u \in Nat
         /\ Whole * (V + l) = Whole * V + Whole * l /\ Whole * V \in Nat /\ Whole * l \in Nat
    <3>1. Whole \in Nat /\ y \in Nat /\ u \in Nat /\ V \in Nat /\ l \in Nat
      BY <1>2, <2>7, SMTT(60)
    <3> HIDE DEF y, V, l
    <3> QED BY <2>10, <3>1, SMTT(60)
  <2>12. M.y[k] = y + u /\ Value(P) = V + l
    BY <1>4, <1>6, <2>7
  <2>13. /\ Whole * y + SumOver(v, X[k]) <= Whole * V
         /\ Owed(M, k, c) + Whole * u <= Whole * l
    BY <2>6, <2>8
  <2> HIDE DEF y, V, l, P, z
  <2>14. Whole * M.y[k] + SumOver(z, P) <= Whole * Value(P)
    BY <2>4, <2>5, <2>6, <2>9, <2>11, <2>12, <2>13
  <2> QED BY <1>6, <2>14 DEF Paid, z, P
<1> QED BY <1>5, <1>6

\* what g has taken weighs as much as the whole gNB if a candidate does not fit
LEMMA HeavyEnough ==
  ASSUME NEW S, S \subseteq Candidate, IsFiniteSet(S), NEW c \in Candidate,
         NEW rb \in Nat, Rbs(S) + rb = Bands, NEW cu \in Nat, Cus(S) + cu = Units,
         c.inst.rb > rb \/ c.inst.cu > cu,
         Category(c.inst) = "HI" => \A x \in S : Category(x.inst) = "HI"
  PROVE  Whole <= SumOver(WeightOf(S), S)
<1>1. /\ RbOf(S) \in [S -> Nat] /\ Rbs(S) = SumOver(RbOf(S), S)
      /\ CuOf(S) \in [S -> Nat] /\ Cus(S) = SumOver(CuOf(S), S)
      /\ WeightOf(S) \in [S -> Nat]
  BY MeasuresAreSums
<1>2. Rbs(S) \in Nat /\ Cus(S) \in Nat /\ SumOver(WeightOf(S), S) \in Nat
  BY <1>1, SumOverTyped
<1>3. Bands \in Nat /\ Units \in Nat
  BY DistSchedulingAssumption
<1>4. ASSUME NEW i \in Nat, NEW j \in Nat PROVE i * j \in Nat
  OBVIOUS
<1>5. ASSUME NEW i \in Nat, NEW j \in Nat, NEW h \in Nat, i <= j
      PROVE  i * h <= j * h /\ h * i <= h * j
  BY <1>5
<1>6. c.inst \in Inst /\ c.inst.rb \in 1 .. Bands /\ c.inst.cu \in 1 .. Units
  BY DEF Candidate, Inst
<1>7. \A x \in S : /\ x.inst.rb \in Nat /\ x.inst.cu \in Nat
                   /\ WeightOf(S)[x] = 2 * (x.inst.rb * Units + x.inst.cu * Bands)
                   /\ RbOf(S)[x] = x.inst.rb /\ CuOf(S)[x] = x.inst.cu
  <2>1. \A x \in S : x.inst \in Inst
    BY DEF Candidate
  <2> QED BY <2>1, InstNumbers DEF WeightOf, RbOf, CuOf, Weight
<1>8. CASE 2 * Rbs(S) >= Bands
  <2>1. \A x \in S : 0 + (2 * Units) * RbOf(S)[x] <= WeightOf(S)[x]
    <3>1. ASSUME NEW i \in Nat, NEW j \in Nat
          PROVE  0 + (2 * Units) * i <= 2 * (i * Units + j * Bands)
      <4>1. i * Units \in Nat /\ j * Bands \in Nat /\ (2 * Units) * i = 2 * (i * Units)
        BY <1>3, <1>4
      <4> QED BY <4>1
    <3> QED BY <1>7, <3>1
  <2> DEFINE v == [x \in S |-> 0]
             w == WeightOf(S)
             r == RbOf(S)
  <2>2. v \in [S -> Nat] /\ \A x \in S : v[x] + (2 * Units) * r[x] <= w[x]
    BY <2>1
  <2>3. 2 * Units \in Nat
    BY <1>3
  <2>4. r \in [S -> Nat] /\ w \in [S -> Nat] /\ SumOver(r, S) = Rbs(S)
    BY <1>1
  <2> HIDE DEF v, w, r
  <2>5. SumOver(v, S) + (2 * Units) * SumOver(r, S) <= SumOver(w, S)
    BY <2>2, <2>3, <2>4, SumOverScaled
  <2>6. SumOver(v, S) \in Nat /\ SumOver(w, S) \in Nat
    BY <2>2, <2>4, SumOverTyped
  <2>7. Whole <= (2 * Units) * Rbs(S) /\ (2 * Units) * Rbs(S) \in Nat
    <3>1. Bands * Units <= (2 * Rbs(S)) * Units
      BY <1>2, <1>3, <1>5, <1>8
    <3>2. (2 * Rbs(S)) * Units = (2 * Units) * Rbs(S)
      BY <1>2, <1>3
    <3> QED BY <1>2, <2>3, <3>1, <3>2 DEF Whole
  <2>8. Whole <= SumOver(w, S)
    BY <1>3, <2>4, <2>5, <2>6, <2>7 DEF Whole
  <2> QED BY <2>8 DEF w
<1>9. CASE 2 * Cus(S) >= Units
  <2>1. \A x \in S : 0 + (2 * Bands) * CuOf(S)[x] <= WeightOf(S)[x]
    <3>1. ASSUME NEW i \in Nat, NEW j \in Nat
          PROVE  0 + (2 * Bands) * j <= 2 * (i * Units + j * Bands)
      <4>1. i * Units \in Nat /\ j * Bands \in Nat /\ (2 * Bands) * j = 2 * (j * Bands)
        BY <1>3, <1>4
      <4> QED BY <4>1
    <3> QED BY <1>7, <3>1
  <2> DEFINE v == [x \in S |-> 0]
             w == WeightOf(S)
             r == CuOf(S)
  <2>2. v \in [S -> Nat] /\ \A x \in S : v[x] + (2 * Bands) * r[x] <= w[x]
    BY <2>1
  <2>3. 2 * Bands \in Nat
    BY <1>3
  <2>4. r \in [S -> Nat] /\ w \in [S -> Nat] /\ SumOver(r, S) = Cus(S)
    BY <1>1
  <2> HIDE DEF v, w, r
  <2>5. SumOver(v, S) + (2 * Bands) * SumOver(r, S) <= SumOver(w, S)
    BY <2>2, <2>3, <2>4, SumOverScaled
  <2>6. SumOver(v, S) \in Nat /\ SumOver(w, S) \in Nat
    BY <2>2, <2>4, SumOverTyped
  <2>7. Whole <= (2 * Bands) * Cus(S) /\ (2 * Bands) * Cus(S) \in Nat
    <3>1. (2 * Cus(S)) * Bands >= Units * Bands
      BY <1>2, <1>3, <1>5, <1>9
    <3>2. (2 * Cus(S)) * Bands = (2 * Bands) * Cus(S) /\ Units * Bands = Bands * Units
      BY <1>2, <1>3
    <3> QED BY <1>2, <2>3, <3>1, <3>2 DEF Whole
  <2>8. Whole <= SumOver(w, S)
    BY <1>3, <2>4, <2>5, <2>6, <2>7 DEF Whole
  <2> QED BY <2>8 DEF w
<1>10. CASE Category(c.inst) = "LI"
  <2>1. 2 * c.inst.rb <= Bands /\ 2 * c.inst.cu <= Units
    BY <1>10 DEF Category
  <2>2. 2 * Rbs(S) >= Bands \/ 2 * Cus(S) >= Units
    BY <1>2, <1>3, <1>6, <2>1
  <2> QED BY <1>8, <1>9, <2>2
<1>11. CASE Category(c.inst) # "LI"
  <2>1. S # {}
    <3>1. CASE S = {}
      <4>1. rb = Bands /\ cu = Units
        BY <1>2, <1>3, <3>1, SumsOfNone
      <4> QED BY <1>3, <1>6, <4>1
    <3> QED BY <3>1
  <2>2. PICK x \in S : Category(x.inst) = "HI"
    BY <1>11, <2>1 DEF Category
  <2>3. 2 * x.inst.rb > Bands \/ 2 * x.inst.cu > Units
    BY <1>3, <1>7, <2>2 DEF Category
  <2>4. RbOf(S)[x] <= Rbs(S) /\ CuOf(S)[x] <= Cus(S)
    <3>1. RbOf(S)[x] <= SumOver(RbOf(S), S)
      BY <1>1, SumOverAtLeast
    <3>2. CuOf(S)[x] <= SumOver(CuOf(S), S)
      BY <1>1, SumOverAtLeast
    <3> QED BY <1>1, <3>1, <3>2
  <2>5. 2 * Rbs(S) >= Bands \/ 2 * Cus(S) >= Units
    BY <1>2, <1>3, <1>7, <2>3, <2>4
  <2> QED BY <1>8, <1>9, <2>5
<1> QED BY <1>10, <1>11

-----------------------------------------------------------------------------
(* The accounts and the state.                                              *)

\* where the number of an application at gNB h is, for a candidate that is left there
LEMMA CandidateNumber ==
  ASSUME NEW A, NEW S, NEW R, Core(A, S, R), NEW h \in Gnbs,
         NEW j \in DOMAIN S[h].candidateInsts
  PROVE  LET d == S[h].candidateInsts[j]
         IN  /\ d \in Candidate /\ d.app \in S[h].pendingApps /\ RankOf(d) \in {1, 2}
             /\ \E q \in PVs :
                   /\ HasNumber(R, h, d.app, q)
                   /\ \/ RankOf(d) < Rank(S[h].targetCategory)
                      \/ /\ RankOf(d) = Rank(S[h].targetCategory)
                         /\ \/ q < S[h].targetPV
                            \/ q = S[h].targetPV /\ (S[h].distStage = "CandiSel" <=> S[h].postBatch)
<1> DEFINE d == S[h].candidateInsts[j]
<1>1. S[h] \in SchedRecord /\ Counted(R, h, S[h]) /\ Ordered(R, h, S[h])
  BY DEF Core, SchedFine, Good
<1>2. d \in Candidate
  BY <1>1 DEF SchedRecord
<1>3. d.app \in S[h].pendingApps
  BY <1>1 DEF Ordered
<1>4. PICK q \in PVs : HasNumber(R, h, d.app, q)
  BY <1>1, <1>3 DEF Counted
<1>5. \/ RankOf(d) < Rank(S[h].targetCategory)
      \/ /\ RankOf(d) = Rank(S[h].targetCategory)
         /\ \/ q < S[h].targetPV
            \/ q = S[h].targetPV /\ (S[h].distStage = "CandiSel" <=> S[h].postBatch)
  BY <1>1, <1>4 DEF Ordered
<1>6. RankOf(d) \in {1, 2}
  BY DEF RankOf, Rank
<1> QED BY <1>2, <1>3, <1>4, <1>5, <1>6

\* while g works on the token of an application, no candidate at another gNB is behind
\* the one that it pushes
LEMMA PushOrder ==
  ASSUME NEW A, NEW S, NEW R, Core(A, S, R), NEW g \in Gnbs, NEW t \in S[g].pv2Tokens,
         t.stage = "CandiSel", NEW c, c.app = t.app, Category(c.inst) = t.category,
         NEW h \in Gnbs, h # g, NEW j \in DOMAIN S[h].candidateInsts,
         S[h].candidateInsts[j].app = c.app
  PROVE  ~Earlier(R, g, c, h, S[h].candidateInsts[j])
<1> DEFINE d == S[h].candidateInsts[j]
           a == c.app
           f == RankOf(d)
           e == RankOf(c)
<1>1. /\ S[g] \in SchedRecord /\ S[h] \in SchedRecord /\ Batches(R, h, S[h])
      /\ R \in [Ues -> Orders \cup {<<>>}]
  BY DEF Core, Typed, SchedFine
<1>2. t \in Token /\ Located(A, S, g, t) /\ g # NoGnb /\ a \in Apps
  BY <1>1, MecTypesAssumption DEF SchedRecord, Located, Token
<1>3. OnRoute(R, g, t) /\ InStep(S, R, g, t)
  BY <1>2 DEF Core, TokensFine
<1>4. HasNumber(R, g, a, t.pv)
  BY <1>2, <1>3 DEF OnRoute, HasNumber
<1>5. /\ a \in S[h].pendingApps /\ f \in {1, 2}
      /\ \E q \in PVs :
            /\ HasNumber(R, h, a, q)
            /\ \/ f < Rank(S[h].targetCategory)
               \/ /\ f = Rank(S[h].targetCategory)
                  /\ \/ q < S[h].targetPV
                     \/ q = S[h].targetPV /\ (S[h].distStage = "CandiSel" <=> S[h].postBatch)
  BY CandidateNumber
<1>6. PICK q \in PVs :
            /\ HasNumber(R, h, a, q)
            /\ \/ f < Rank(S[h].targetCategory)
               \/ /\ f = Rank(S[h].targetCategory)
                  /\ \/ q < S[h].targetPV
                     \/ q = S[h].targetPV /\ (S[h].distStage = "CandiSel" <=> S[h].postBatch)
  BY <1>5
<1>7. ~(q = S[h].targetPV /\ S[h].postBatch)
  <2> SUFFICES ASSUME q = S[h].targetPV, S[h].postBatch PROVE FALSE
    OBVIOUS
  <2>1. a \in BatchApps(S[h])
    BY <1>1, <1>5, <1>6 DEF Batches, Announcers
  <2>2. PICK v \in S[h].pv2Tokens : v.app = a
    BY <2>1 DEF BatchApps, Batch
  <2>3. v \in Token /\ Located(A, S, h, v)
    BY <1>1, <2>2 DEF SchedRecord, Located
  <2> QED BY <1>2, <2>2, <2>3 DEF Core, OneToken
<1>8. Before(f, q, PhaseOf(S[h]), S[h].targetPV)
  <2>1. S[h].targetCategory \in {"LI", "HI"} /\ S[h].distStage \in {"CandiSel", "SolSel"}
    BY <1>1 DEF SchedRecord, Categories, Stages
  <2>2. CASE S[h].distStage = "CandiSel"
    <3>1. PhaseOf(S[h]) = Rank(S[h].targetCategory) /\ PhaseOf(S[h]) \in {1, 2}
      BY <2>2 DEF PhaseOf, Phase, Rank
    <3> HIDE DEF f
    <3> QED BY <1>5, <1>6, <1>7, <2>2, <3>1 DEF Before
  <2>3. CASE S[h].distStage # "CandiSel"
    <3>1. PhaseOf(S[h]) \in {3, 4}
      BY <2>3 DEF PhaseOf, Phase
    <3> HIDE DEF f
    <3> QED BY <1>5, <3>1 DEF Before
  <2> QED BY <2>2, <2>3
<1>9. Beyond(S[h], a, f, q)
  BY <1>8 DEF Beyond
<1>10. Passed(g, t, f, q)
  <2>1. q \in DOMAIN Reach(R, t.app) /\ Reach(R, t.app)[q] = h /\ f \in 1 .. 4
    BY <1>5, <1>6 DEF HasNumber
  <2> HIDE DEF f
  <2> QED BY <1>3, <1>9, <2>1 DEF InStep
<1>11. Before(f, q, e, t.pv) /\ e \in {1, 2}
  <2>1. TokenPhase(t) = e
    BY DEF TokenPhase, Phase, RankOf, Rank
  <2>2. e \in {1, 2}
    BY DEF RankOf, Rank
  <2> QED BY <1>2, <1>10, <2>1, <2>2 DEF Passed
<1>12. t.pv \in Nat /\ q \in Nat
  BY <1>2, PVsAre DEF Token
<1>13. ASSUME NEW m \in PVs, NEW n \in PVs, HasNumber(R, g, c.app, m), HasNumber(R, h, d.app, n)
       PROVE  m = t.pv /\ n = q
  BY <1>1, <1>2, <1>4, <1>6, <1>13, OneNumber
<1> HIDE DEF f, e
<1>14. ~(e < f) /\ ~(e = f /\ t.pv < q)
  BY <1>5, <1>11, <1>12 DEF Before
<1> QED BY <1>13, <1>14 DEF Earlier, f, e

\* while g works on the token of an application, all candidates that are left at other
\* gNBs come before the one that it pops
LEMMA PopOrder ==
  ASSUME NEW A, NEW S, NEW R, Core(A, S, R), NEW g \in Gnbs, NEW t \in S[g].pv2Tokens,
         t.stage # "CandiSel", NEW c, c.app = t.app, Category(c.inst) = t.category,
         NEW h \in Gnbs, h # g, NEW j \in DOMAIN S[h].candidateInsts,
         S[h].candidateInsts[j].app = c.app
  PROVE  Earlier(R, h, S[h].candidateInsts[j], g, c)
<1> DEFINE d == S[h].candidateInsts[j]
           a == c.app
           f == RankOf(d)
           e == RankOf(c)
<1>1. /\ S[g] \in SchedRecord /\ S[h] \in SchedRecord
      /\ R \in [Ues -> Orders \cup {<<>>}]
  BY DEF Core, Typed, SchedFine
<1>2. t \in Token /\ Located(A, S, g, t) /\ g # NoGnb /\ a \in Apps
  BY <1>1, MecTypesAssumption DEF SchedRecord, Located, Token
<1>3. OnRoute(R, g, t) /\ InStep(S, R, g, t)
  BY <1>2 DEF Core, TokensFine
<1>4. HasNumber(R, g, a, t.pv) /\ t.pv \in PVs
  BY <1>2, <1>3 DEF OnRoute, HasNumber, Token
<1>5. /\ a \in S[h].pendingApps /\ f \in {1, 2} /\ d.app = a
      /\ \E q \in PVs :
            /\ HasNumber(R, h, a, q)
            /\ \/ f < Rank(S[h].targetCategory)
               \/ /\ f = Rank(S[h].targetCategory)
                  /\ \/ q < S[h].targetPV
                     \/ q = S[h].targetPV /\ (S[h].distStage = "CandiSel" <=> S[h].postBatch)
  BY CandidateNumber
<1>6. PICK q \in PVs :
            /\ HasNumber(R, h, a, q)
            /\ \/ f < Rank(S[h].targetCategory)
               \/ /\ f = Rank(S[h].targetCategory)
                  /\ (q < S[h].targetPV \/ q = S[h].targetPV)
  BY <1>5
<1>7. t.pv \in Nat /\ q \in Nat /\ S[h].targetPV \in Nat /\ q # t.pv
  <2>1. q # t.pv
    BY <1>4, <1>6 DEF HasNumber
  <2> QED BY <1>1, <1>2, <2>1, PVsAre DEF Token, SchedRecord
<1>8. e \in {1, 2} /\ TokenPhase(t) = 5 - e
  <2>1. t.category \in {"LI", "HI"}
    BY <1>2 DEF Token, Categories
  <2> QED BY <2>1 DEF RankOf, Rank, TokenPhase, Phase
<1>9. Rank(S[h].targetCategory) \in {1, 2}
      /\ PhaseOf(S[h]) \in {Rank(S[h].targetCategory), 5 - Rank(S[h].targetCategory)}
  <2>1. S[h].targetCategory \in {"LI", "HI"}
    BY <1>1 DEF SchedRecord, Categories
  <2> QED BY <2>1 DEF PhaseOf, Phase, Rank
<1>10. Passed(g, t, 5 - f, q) <=> Beyond(S[h], a, 5 - f, q)
  <2>1. q \in DOMAIN Reach(R, t.app) /\ Reach(R, t.app)[q] = h
    BY <1>6 DEF HasNumber
  <2> HIDE DEF f
  <2>2. 5 - f \in 1 .. 4
    BY <1>5
  <2> QED BY <1>3, <2>1, <2>2 DEF InStep
<1> HIDE DEF f, e
<1>11. ~Before(5 - f, q, PhaseOf(S[h]), S[h].targetPV)
  <2> DEFINE r == Rank(S[h].targetCategory)
             o == PhaseOf(S[h])
             p == S[h].targetPV
  <2>1. r \in {1, 2} /\ o \in {r, 5 - r} /\ p \in Nat
    BY <1>7, <1>9
  <2>2. f < r \/ (f = r /\ q <= p)
    BY <1>6, <1>7
  <2> HIDE DEF r, o, p
  <2>3. ~Before(5 - f, q, o, p)
    BY <1>5, <1>7, <2>1, <2>2 DEF Before
  <2> QED BY <2>3 DEF o, p
<1>12. ~Before(5 - f, q, 5 - e, t.pv)
  BY <1>5, <1>8, <1>10, <1>11 DEF Beyond, Passed
<1>13. f < e \/ (f = e /\ q < t.pv)
  BY <1>5, <1>7, <1>8, <1>12, SMTT(60) DEF Before
<1> QED BY <1>4, <1>5, <1>6, <1>13 DEF Earlier, f, e

\* what an instance that adds something changes
LEMMA ConsiderPushes ==
  ASSUME NEW s, Good(s), NEW t \in s.pv2Tokens, NEW k \in DOMAIN s.insts[t.app],
         NEW inst, inst = s.insts[t.app][k], Category(inst) = s.targetCategory,
         NEW u, u = inst.value - t.utilReduction
                    - Penalty(inst, s.reductionRsu - s.reductAppInRsu[t.app]), ~(u <= 0)
  PROVE  LET h == Consider(s, t.app, k)
         IN  /\ u \in Nat /\ inst \in Inst /\ t.app \in Apps /\ t.utilReduction \in Int
             /\ h.pv2Tokens = (s.pv2Tokens \ {t}) \cup
                                  {[t EXCEPT !.utilReduction = t.utilReduction + u]}
             /\ h.candidateInsts = Append(s.candidateInsts, [app |-> t.app, inst |-> inst])
             /\ h.reductionRsu = s.reductionRsu + u
             /\ h.reductAppInRsu = [s.reductAppInRsu EXCEPT ![t.app] = s.reductAppInRsu[t.app] + u]
             /\ h.finalSchedule = s.finalSchedule /\ h.maxRB = s.maxRB /\ h.maxCU = s.maxCU
<1> DEFINE a      == t.app
           others == s.reductionRsu - s.reductAppInRsu[a]
           n      == [t EXCEPT !.utilReduction = t.utilReduction + u]
           j      == ChangeToken(s, a, n)
           c      == [app |-> a, inst |-> inst]
           h      == Consider(s, a, k)
<1>1. s \in SchedRecord /\ TokenOf(s, a) = t
  BY TokenOfIs DEF Good
<1>2. t \in Token /\ a \in Apps /\ t.utilReduction \in Int
  BY <1>1 DEF SchedRecord, Token
<1>3. inst \in Inst
  <2>1. s.insts[a] \in Seq(Inst)
    BY <1>1, <1>2 DEF SchedRecord
  <2> QED BY <1>2, <2>1
<1>4. s.reductionRsu \in Int /\ s.reductAppInRsu \in [Apps -> Int] /\ others \in Int
  BY <1>1, <1>2, SMTT(60) DEF SchedRecord
<1>5. u \in Nat
  <2>1. inst.value \in Int /\ Penalty(inst, others) \in Int
    BY <1>3, <1>4, InstNumbers
  <2> HIDE DEF others
  <2>2. u = inst.value - t.utilReduction - Penalty(inst, others)
    BY DEF others
  <2> QED BY <1>2, <1>4, <2>1, <2>2
<1>6. h = [j EXCEPT !.candidateInsts = Append(@, c), !.reductionRsu = @ + u,
                    !.reductAppInRsu[a] = @ + u]
  BY <1>1 DEF Consider
<1>7. j = [s EXCEPT !.pv2Tokens = (s.pv2Tokens \ {t}) \cup {n}]
  BY <1>1 DEF ChangeToken
<1> HIDE DEF j, n, c, others, h
<1>8. /\ j.candidateInsts = s.candidateInsts /\ j.reductionRsu = s.reductionRsu
      /\ j.reductAppInRsu = s.reductAppInRsu /\ j.finalSchedule = s.finalSchedule
      /\ j.maxRB = s.maxRB /\ j.maxCU = s.maxCU /\ j.pv2Tokens = (s.pv2Tokens \ {t}) \cup {n}
      /\ DOMAIN j = DOMAIN s
  BY <1>1, <1>7 DEF SchedRecord
<1>9. j = [j EXCEPT !.candidateInsts = s.candidateInsts] /\ DOMAIN j = DOMAIN s
  BY <1>1, <1>7 DEF SchedRecord
<1>10. /\ h.candidateInsts = Append(s.candidateInsts, c) /\ h.reductionRsu = s.reductionRsu + u
       /\ h.reductAppInRsu = [s.reductAppInRsu EXCEPT ![a] = s.reductAppInRsu[a] + u]
       /\ h.finalSchedule = s.finalSchedule /\ h.maxRB = s.maxRB /\ h.maxCU = s.maxCU
       /\ h.pv2Tokens = j.pv2Tokens
  BY <1>1, <1>6, <1>7 DEF SchedRecord
<1> QED BY <1>2, <1>3, <1>5, <1>8, <1>10, Zenon DEF n, c, h, a

Candidates(S) == [g \in Gnbs |-> S[g].candidateInsts]
Schedules(S) == [g \in Gnbs |-> S[g].finalSchedule]
Reductions(S) == [g \in Gnbs |-> S[g].reductionRsu]

\* in the first half of the round the reductions are those of the candidates
Pushing(L, g, s) ==
    s.distStage = "CandiSel"
    => /\ s.finalSchedule = {}
       /\ s.reductionRsu = L.red[g][L.n[g]]
       /\ \A a \in Apps : s.reductionRsu - s.reductAppInRsu[a] = L.oth[g][L.n[g]][a]

\* in the second half heavy candidates are taken first; what is not taken is free, and
\* every application has an instance
Shape(s) ==
    /\ s.started /\ s.distStage = "SolSel" /\ s.targetCategory = "HI"
       => \A x \in s.finalSchedule : Category(x.inst) = "HI"
    /\ s.started => Rbs(s.finalSchedule) + s.maxRB = Bands /\ Cus(s.finalSchedule) + s.maxCU = Units
    /\ \A a \in s.pendingApps : s.insts[a] # <<>>

\* a token brings what the candidates of its application have added, and is right that
\* the application is scheduled
Knows(L, S, t) ==
    /\ t.stage = "CandiSel" => t.utilReduction = L.r[t.app] /\ ~t.isScheduled
    /\ t.isScheduled => \E g \in Gnbs : \E x \in S[g].finalSchedule : x.app = t.app

Ledger(L, A, S, R) ==
    /\ Audited(L, Candidates(S), R, Schedules(S), Reductions(S))
    /\ \A g \in Gnbs : L.n[g] = Len(S[g].candidateInsts) /\ Pushing(L, g, S[g]) /\ Shape(S[g])
    /\ \A w \in Gnbs \cup {NoGnb} : \A t \in Token : Located(A, S, w, t) => Knows(L, S, t)

Kept(A, S, R) == \E L : Ledger(L, A, S, R)

\* the penalty is the weight of the others, rounded up
LEMMA PenaltyCovers ==
  ASSUME NEW inst \in Inst, NEW o \in Nat
  PROVE  Weight(inst) * o <= Whole * Penalty(inst, o)
<1> DEFINE e == Weight(inst) * o
           p == (e + Whole - 1) \div Whole
<1>1. Whole \in Nat /\ Whole # 0
  BY DistSchedulingAssumption DEF Whole
<1>2. e \in Nat
  <2>1. Weight(inst) \in Nat
    BY InstNumbers
  <2> QED BY <2>1
<1>3. Penalty(inst, o) = p
  BY DEF Penalty
<1> HIDE DEF e
<1>4. ASSUME NEW i \in Nat, NEW m \in Nat, m # 0 PROVE i <= m * ((i + m - 1) \div m)
  BY <1>4
<1>5. e <= Whole * p
  BY <1>1, <1>2, <1>4, SMTT(60)
<1> QED BY <1>3, <1>5 DEF e

\* what is read from the accounts after a push
LEMMA PushedIs ==
  ASSUME NEW L \in Books, NEW M, NEW g \in Gnbs, NEW c \in Candidate, NEW u \in Nat,
         Pushed(L, M, g, c, u)
  PROVE  /\ M.n[g] = L.n[g] + 1
         /\ \A b \in Apps : M.r[b] = IF b = c.app THEN L.r[b] + u ELSE L.r[b]
         /\ M.red[g][M.n[g]] = L.red[g][L.n[g]] + u
         /\ \A b \in Apps : M.oth[g][M.n[g]][b]
                           = L.oth[g][L.n[g]][b] + (IF b = c.app THEN 0 ELSE u)
<1> DEFINE m == L.n[g] + 1
<1>1. M.n[g] = m
  BY DEF Pushed
<1>2. \A b \in Apps : M.r[b] = IF b = c.app THEN L.r[b] + u ELSE L.r[b]
  BY DEF Pushed
<1>3. M.red[g][m] = L.red[g][m - 1] + u
  BY DEF Pushed
<1>4. \A b \in Apps : M.oth[g][m][b] = L.oth[g][m - 1][b] + (IF b = c.app THEN 0 ELSE u)
  BY DEF Pushed
<1>5. L.n[g] \in Nat
  BY BookNumbers
<1>6. m - 1 = L.n[g]
  BY <1>5
<1> QED BY <1>1, <1>2, <1>3, <1>4, <1>6

\* all that a push needs to keep the accounts
MayPush(L, Q, R, X, d, g, c, u, M) ==
    /\ Audited(L, Q, R, X, d) /\ c \in Candidate /\ u \in Nat
    /\ L.n[g] = Len(Q[g]) /\ X[g] = {}
    /\ \A h \in Gnbs : \A x \in X[h] : x.app # c.app
    /\ Whole * (L.r[c.app] + u) + Weight(c.inst) * L.oth[g][L.n[g]][c.app] <= Whole * c.inst.value
    /\ \A h \in Gnbs : h # g => \A j \in 1 .. L.n[h] :
           Q[h][j].app = c.app => ~Earlier(R, g, c, h, Q[h][j])
    /\ M \in Books /\ Pushed(L, M, g, c, u)

LEMMA PushTaken ==
  ASSUME NEW L, NEW Q, NEW R, NEW X, NEW d, NEW g \in Gnbs, NEW c, NEW u, NEW M,
         MayPush(L, Q, R, X, d, g, c, u, M)
  PROVE  Audited(M, [Q EXCEPT ![g] = Append(Q[g], c)], R, X, [d EXCEPT ![g] = d[g] + u])
BY PushAudited DEF MayPush

\* an instance that is pushed, or not, keeps the accounts
LEMMA ConsiderLedger ==
  ASSUME NEW A, NEW S, NEW R, NEW L, Ledger(L, A, S, R), S \in [Gnbs -> SchedRecord],
         OneToken(A, S), Remembered(A, S), NEW g \in Gnbs, Good(S[g]),
         NEW t \in S[g].pv2Tokens, t.stage = "CandiSel", S[g].distStage = "CandiSel",
         NEW k \in DOMAIN S[g].insts[t.app],
         NEW c, c = [app |-> t.app, inst |-> S[g].insts[t.app][k]],
         Category(c.inst) = S[g].targetCategory => \A h \in Gnbs : h # g =>
             \A j \in DOMAIN S[h].candidateInsts :
                 S[h].candidateInsts[j].app = t.app => ~Earlier(R, g, c, h, S[h].candidateInsts[j])
  PROVE  Kept(A, [S EXCEPT ![g] = Consider(S[g], t.app, k)], R)
<1> DEFINE s == S[g]
           a == t.app
           h == Consider(s, a, k)
           Z == [S EXCEPT ![g] = h]
           others == s.reductionRsu - s.reductAppInRsu[a]
           u == c.inst.value - t.utilReduction - Penalty(c.inst, others)
           Q == Candidates(S)
           X == Schedules(S)
           d == Reductions(S)
<1>1. s \in SchedRecord /\ TokenOf(s, a) = t /\ t \in Token /\ a \in Apps
  BY TokenOfIs DEF Good, SchedRecord, Token
<1>2. CASE Category(c.inst) # s.targetCategory \/ u <= 0
  <2>1. h = s
    BY <1>1, <1>2 DEF Consider
  <2>2. Z = S
    BY <2>1
  <2> QED BY <2>2 DEF Kept
<1>3. CASE ~(Category(c.inst) # s.targetCategory \/ u <= 0)
  <2>1. /\ u \in Nat /\ c.inst \in Inst
        /\ h.pv2Tokens = (s.pv2Tokens \ {t}) \cup {[t EXCEPT !.utilReduction = t.utilReduction + u]}
        /\ h.candidateInsts = Append(s.candidateInsts, c)
        /\ h.reductionRsu = s.reductionRsu + u
        /\ h.reductAppInRsu = [s.reductAppInRsu EXCEPT ![a] = s.reductAppInRsu[a] + u]
        /\ h.finalSchedule = s.finalSchedule /\ h.maxRB = s.maxRB /\ h.maxCU = s.maxCU
    BY <1>3, ConsiderPushes, SMTT(60)
  <2>2. c \in Candidate /\ c.app = a
    BY <1>1, <2>1 DEF Candidate
  <2>3. Works(s, h)
    BY ConsiderGood
  <2>4. /\ h.pendingApps = s.pendingApps /\ h.insts = s.insts /\ h.distStage = s.distStage
        /\ h.targetCategory = s.targetCategory /\ h.started = s.started
    BY <2>3 DEF Works
  <2>5. Z[g] = h /\ \A k2 \in Gnbs : k2 # g => Z[k2] = S[k2]
    OBVIOUS
  <2>6. \E n \in {[t EXCEPT !.utilReduction = t.utilReduction + u]} :
           /\ n.app = t.app /\ n.stage = t.stage /\ n.isScheduled = t.isScheduled
           /\ n.utilReduction = t.utilReduction + u /\ h.pv2Tokens = (s.pv2Tokens \ {t}) \cup {n}
    <3> HIDE DEF u, h
    <3> QED BY <1>1, <2>1 DEF Token
  <2>7. PICK n : /\ n.app = t.app /\ n.stage = t.stage /\ n.isScheduled = t.isScheduled
                 /\ n.utilReduction = t.utilReduction + u
                 /\ h.pv2Tokens = (s.pv2Tokens \ {t}) \cup {n}
    BY <2>6
  <2> HIDE DEF h, Z
  <2>8. /\ Audited(L, Q, R, X, d) /\ L \in Books
        /\ \A k2 \in Gnbs : /\ L.n[k2] = Len(S[k2].candidateInsts)
                            /\ Pushing(L, k2, S[k2]) /\ Shape(S[k2])
        /\ \A w \in Gnbs \cup {NoGnb} : \A v \in Token : Located(A, S, w, v) => Knows(L, S, v)
    BY DEF Ledger, Audited
  <2>9. /\ \A k2 \in Gnbs : Q[k2] = S[k2].candidateInsts /\ X[k2] = S[k2].finalSchedule
        /\ d[g] = s.reductionRsu
    BY DEF Candidates, Schedules, Reductions
  <2>10. Located(A, S, g, t)
    BY DEF Located
  <2>11. t.utilReduction = L.r[a] /\ ~t.isScheduled
    BY <1>1, <2>8, <2>10 DEF Knows
  <2>12. others = L.oth[g][L.n[g]][a] /\ X[g] = {} /\ s.reductionRsu = L.red[g][L.n[g]]
         /\ \A b \in Apps : s.reductionRsu - s.reductAppInRsu[b] = L.oth[g][L.n[g]][b]
    BY <1>1, <2>8, <2>9 DEF Pushing
  <2>13. \A k2 \in Gnbs : \A x \in X[k2] : x.app # c.app
    BY <1>1, <2>2, <2>9, <2>10, <2>11 DEF Remembered
  <2>14. L.r[a] \in Nat /\ L.oth[g][L.n[g]][a] \in Nat /\ L.n[g] \in Nat
    BY <1>1, <2>8, BookNumbers
  <2>15. Whole * (L.r[c.app] + u) + Weight(c.inst) * L.oth[g][L.n[g]][c.app] <= Whole * c.inst.value
    <3> DEFINE o == L.oth[g][L.n[g]][a]
               p == Penalty(c.inst, others)
               r == L.r[a]
               l == c.inst.value
               e == Weight(c.inst)
    <3>1. e * o <= Whole * p
      <4>1. e * o <= Whole * Penalty(c.inst, o)
        BY <2>1, <2>14, PenaltyCovers
      <4> QED BY <2>12, <4>1, SMTT(60)
    <3>2. u = l - r - p
      BY <2>11
    <3>3. o \in Nat /\ r \in Nat /\ l \in Nat /\ e \in Nat /\ p \in Int
      <4>1. l \in Nat /\ e \in Nat
        BY <2>1, InstNumbers, SMTT(60)
      <4>2. others \in Int
        BY <2>12, <2>14, SMTT(60)
      <4>3. p \in Int
        <5> HIDE DEF others
        <5> QED BY <2>1, <4>2, InstNumbers
      <4> HIDE DEF p, l, e
      <4> QED BY <2>14, <4>1, <4>3, SMTT(60)
    <3>4. Whole \in Nat
      BY DistSchedulingAssumption, SMTT(60) DEF Whole
    <3>5. u \in Nat
      BY <2>1
    <3> HIDE DEF o, p, r, l, e, u
    <3>6. ASSUME NEW i \in Int, NEW j \in Int, NEW m \in Int
          PROVE  i * (j + m) = i * j + i * m /\ i * j \in Int
      OBVIOUS
    <3>7. r + u \in Int /\ l = (r + u) + p
      BY <3>2, <3>3, <3>5
    <3>8. Whole * l = Whole * (r + u) + Whole * p /\ Whole * (r + u) \in Int /\ Whole * p \in Int
      BY <3>3, <3>4, <3>6, <3>7
    <3>9. e * o \in Int
      BY <3>3, <3>6
    <3>10. Whole * (r + u) + e * o <= Whole * l
      BY <3>1, <3>8, <3>9
    <3> QED BY <2>2, <3>10, SMTT(60) DEF o, r, l, e
  <2>16. \A k2 \in Gnbs : k2 # g => \A j \in 1 .. L.n[k2] :
            Q[k2][j].app = c.app => ~Earlier(R, g, c, k2, Q[k2][j])
    <3> SUFFICES ASSUME NEW k2 \in Gnbs, k2 # g, NEW j \in 1 .. L.n[k2], Q[k2][j].app = c.app
                 PROVE  ~Earlier(R, g, c, k2, Q[k2][j])
      OBVIOUS
    <3>1. S[k2].candidateInsts \in Seq(Candidate)
      BY DEF SchedRecord
    <3>2. j \in DOMAIN S[k2].candidateInsts
      BY <2>8, <3>1
    <3>3. S[k2].candidateInsts[j].app = t.app
      BY <2>2, <2>9
    <3>4. ~Earlier(R, g, c, k2, S[k2].candidateInsts[j])
      BY <1>3, <3>2, <3>3
    <3> QED BY <2>9, <3>4
  <2>17. PICK M \in Books : Pushed(L, M, g, c, u)
    <3> HIDE DEF u
    <3> QED BY <2>1, <2>2, <2>8, PushExists
  <2>18. L.n[g] = Len(Q[g])
    BY <2>8, <2>9, SMTT(60)
  <2>19. Audited(M, [Q EXCEPT ![g] = Append(Q[g], c)], R, X, [d EXCEPT ![g] = d[g] + u])
    <3> HIDE DEF u, Q, X, d, others
    <3>1. Audited(L, Q, R, X, d)
      BY <2>8
    <3>2. c \in Candidate /\ u \in Nat
      BY <2>1, <2>2
    <3>3. X[g] = {}
      BY <2>12
    <3>4. M \in Books /\ Pushed(L, M, g, c, u)
      BY <2>17
    <3>5. MayPush(L, Q, R, X, d, g, c, u, M)
      BY <3>1, <3>2, <3>3, <3>4, <2>13, <2>15, <2>16, <2>18 DEF MayPush
    <3> QED BY <3>5, PushTaken
  <2>20. /\ Candidates(Z) = [Q EXCEPT ![g] = Append(Q[g], c)] /\ Schedules(Z) = X
         /\ Reductions(Z) = [d EXCEPT ![g] = d[g] + u]
    <3>1. h.candidateInsts = Append(Q[g], c) /\ h.finalSchedule = X[g]
          /\ h.reductionRsu = d[g] + u
      BY <2>1, <2>9
    <3>2. \A k2 \in Gnbs : k2 # g => /\ Z[k2].candidateInsts = Q[k2] /\ Z[k2].finalSchedule = X[k2]
                                     /\ Z[k2].reductionRsu = d[k2]
      BY <2>5, <2>9 DEF Reductions
    <3>3. Q = [k2 \in Gnbs |-> Q[k2]] /\ X = [k2 \in Gnbs |-> X[k2]] /\ d = [k2 \in Gnbs |-> d[k2]]
      BY DEF Candidates, Schedules, Reductions
    <3> HIDE DEF Q, X, d, u
    <3>4. Candidates(Z) = [Q EXCEPT ![g] = Append(Q[g], c)]
      BY <2>5, <3>1, <3>2, <3>3 DEF Candidates
    <3>5. Schedules(Z) = X
      BY <2>5, <3>1, <3>2, <3>3 DEF Schedules
    <3>6. Reductions(Z) = [d EXCEPT ![g] = d[g] + u]
      BY <2>5, <3>1, <3>2, <3>3 DEF Reductions
    <3> QED BY <3>4, <3>5, <3>6
  <2>21. /\ M.n[g] = L.n[g] + 1
         /\ \A b \in Apps : M.r[b] = IF b = a THEN L.r[b] + u ELSE L.r[b]
         /\ \A k2 \in Gnbs : k2 # g => M.n[k2] = L.n[k2] /\ M.red[k2] = L.red[k2] /\ M.oth[k2] = L.oth[k2]
         /\ M.red[g][M.n[g]] = L.red[g][L.n[g]] + u
         /\ \A b \in Apps : M.oth[g][M.n[g]][b] = L.oth[g][L.n[g]][b] + (IF b = a THEN 0 ELSE u)
    <3> HIDE DEF u
    <3>1. Pushed(L, M, g, c, u) /\ L \in Books /\ u \in Nat /\ c \in Candidate
      BY <2>1, <2>2, <2>8, <2>17, SMTT(60)
    <3>2. /\ M.n[g] = L.n[g] + 1
          /\ \A b \in Apps : M.r[b] = IF b = c.app THEN L.r[b] + u ELSE L.r[b]
          /\ M.red[g][M.n[g]] = L.red[g][L.n[g]] + u
          /\ \A b \in Apps : M.oth[g][M.n[g]][b]
                            = L.oth[g][L.n[g]][b] + (IF b = c.app THEN 0 ELSE u)
      BY <3>1, PushedIs, SMTT(60)
    <3>3. \A k2 \in Gnbs : k2 # g => M.n[k2] = L.n[k2] /\ M.red[k2] = L.red[k2] /\ M.oth[k2] = L.oth[k2]
      BY <2>17 DEF Pushed
    <3> HIDE DEF a
    <3> QED BY <2>2, <3>2, <3>3
  <2> HIDE DEF Q, X, d, u, others
  <2>22. Pushing(M, g, h)
    <3>1. h.reductionRsu = M.red[g][M.n[g]]
      BY <2>1, <2>12, <2>21
    <3>2. ASSUME NEW b \in Apps
          PROVE  h.reductionRsu - h.reductAppInRsu[b] = M.oth[g][M.n[g]][b]
      <4>1. s.reductionRsu \in Int /\ s.reductAppInRsu \in [Apps -> Int]
        BY <1>1 DEF SchedRecord
      <4>2. h.reductAppInRsu[b] = IF b = a THEN s.reductAppInRsu[b] + u ELSE s.reductAppInRsu[b]
        BY <1>1, <2>1, <4>1, SMTT(60)
      <4>3. s.reductionRsu - s.reductAppInRsu[b] = L.oth[g][L.n[g]][b]
            /\ M.oth[g][M.n[g]][b] = L.oth[g][L.n[g]][b] + (IF b = a THEN 0 ELSE u)
        BY <2>12, <2>21
      <4>4. s.reductAppInRsu[b] \in Int
        BY <4>1, SMTT(60)
      <4> HIDE DEF s
      <4> QED BY <2>1, <4>1, <4>2, <4>3, <4>4
    <3>3. h.finalSchedule = {}
      BY <2>1, <2>9, <2>12
    <3> QED BY <3>1, <3>2, <3>3, SMTT(60) DEF Pushing
  <2>23. Shape(h)
    BY <2>1, <2>4, <2>8, SMTT(60) DEF Shape
  <2>24. Len(h.candidateInsts) = M.n[g]
    <3>1. s.candidateInsts \in Seq(Candidate)
      BY <1>1 DEF SchedRecord
    <3> QED BY <2>1, <2>8, <2>21, <3>1
  <2>25. ASSUME NEW k2 \in Gnbs
         PROVE  M.n[k2] = Len(Z[k2].candidateInsts) /\ Pushing(M, k2, Z[k2]) /\ Shape(Z[k2])
    <3>1. CASE k2 = g
      BY <2>5, <2>22, <2>23, <2>24, <3>1, SMTT(60)
    <3>2. CASE k2 # g
      BY <2>5, <2>8, <2>21, <3>2 DEF Pushing
    <3> QED BY <3>1, <3>2
  <2>26. ASSUME NEW w \in Gnbs \cup {NoGnb}, NEW v \in Token, Located(A, Z, w, v)
         PROVE  Knows(M, Z, v)
    <3>1. \A k2 \in Gnbs : Z[k2].finalSchedule = S[k2].finalSchedule
      BY <2>1, <2>5, SMTT(60)
    <3>2. CASE w = g /\ v = n
      <4>1. v.utilReduction = M.r[v.app] /\ ~v.isScheduled
        BY <1>1, <2>7, <2>11, <2>21, <3>2
      <4> QED BY <4>1 DEF Knows
    <3>3. CASE ~(w = g /\ v = n)
      <4>1. Located(A, S, w, v) /\ v # t
        <5>1. Located(A, S, w, v)
          BY <2>5, <2>7, <2>26, <3>3 DEF Located
        <5>2. CASE v = t
          <6>1. w = g
            BY <1>1, <2>10, <5>1, <5>2 DEF OneToken
          <6>2. [to |-> g, token |-> t] \notin A
            BY DEF OneToken
          <6> QED BY <2>5, <2>7, <2>26, <3>3, <5>2, <6>1, <6>2 DEF Located
        <5> QED BY <5>1, <5>2
      <4>2. v.app # a
        BY <1>1, <2>10, <4>1 DEF OneToken
      <4>3. v.app \in Apps
        BY DEF Token
      <4>4. M.r[v.app] = L.r[v.app]
        BY <2>21, <4>2, <4>3
      <4>5. Knows(L, S, v)
        BY <2>8, <4>1
      <4> QED BY <3>1, <4>4, <4>5 DEF Knows
    <3> QED BY <3>2, <3>3
  <2>27. Ledger(M, A, Z, R)
    BY <2>19, <2>20, <2>25, <2>26 DEF Ledger
  <2> QED BY <2>27, SMTT(60) DEF Kept, Z, h
<1> QED BY <1>2, <1>3

\* what the work on every application preserves holds after CandidateSelection
LEMMA SelectionInside ==
  ASSUME NEW s, NEW apps, NEW Ok, s \in Ok,
         \A u \in Ok : \A a \in apps : SelectCandidatesOf(u, a) \in Ok
  PROVE  CandidateSelection(s, apps) \in Ok
<1> DEFINE after[a \in 0 .. NumApps] ==
             IF a = 0 THEN s
             ELSE IF a \in apps THEN SelectCandidatesOf(after[a - 1], a) ELSE after[a - 1]
           Done == {i \in 0 .. NumApps : after[i] \in Ok}
<1>0. NumApps \in Nat
  BY MecTypesAssumption
<1>1. PICK f : SelectionWalk(f, s, apps, NumApps)
  <2> HIDE DEF after
  <2> QED BY <1>0, SelectionWalkExists
<1>2. SelectionWalk(after, s, apps, NumApps)
  BY <1>1 DEF SelectionWalk
<1>3. CandidateSelection(s, apps) = after[NumApps]
  BY DEF CandidateSelection
<1> HIDE DEF after
<1>4. 0 \in Done
  <2>1. after[0] = s
    BY <1>0, <1>2 DEF SelectionWalk
  <2> QED BY <1>0, <2>1
<1>5. ASSUME NEW i \in 0 .. NumApps, i # NumApps, i \in Done
      PROVE  i + 1 \in Done
  <2>1. i + 1 \in 0 .. NumApps /\ i + 1 # 0 /\ (i + 1) - 1 = i
    BY <1>0, <1>5
  <2>2. after[i + 1] = IF i + 1 \in apps THEN SelectCandidatesOf(after[i], i + 1) ELSE after[i]
    BY <1>2, <2>1 DEF SelectionWalk
  <2>3. after[i] \in Ok
    BY <1>5
  <2> QED BY <2>1, <2>2, <2>3
<1>6. NumApps \in Done
  <2>1. \A i \in 0 .. NumApps : i # NumApps /\ i \in Done => i + 1 \in Done
    BY <1>5
  <2>2. NumApps \in 0 .. NumApps
    BY <1>0
  <2> HIDE DEF Done
  <2> QED BY <1>0, <1>4, <2>1, <2>2, UpTo
<1> QED BY <1>3, <1>6

\* what the work on every instance preserves holds after SelectCandidatesOf
LEMMA InstancesInside ==
  ASSUME NEW s, NEW a, s.insts[a] \in Seq(Inst), s.insts[a] # <<>>, NEW Ok, s \in Ok,
         \A u \in Ok : \A k \in DOMAIN s.insts[a] : Consider(u, a, k) \in Ok
  PROVE  SelectCandidatesOf(s, a) \in Ok
<1> DEFINE q == [k \in DOMAIN s.insts[a] |-> k]
<1>1. SelectCandidatesOf(s, a) = ConsiderAll(s, a, q)
  BY DEF SelectCandidatesOf, ConsiderAll
<1>2. q \in Seq(Nat) /\ DOMAIN q = DOMAIN s.insts[a] /\ \A k \in DOMAIN q : q[k] = k
  OBVIOUS
<1>3. \A u \in Ok : \A k \in DOMAIN q : Consider(u, a, q[k]) \in Ok
  BY <1>2
<1> HIDE DEF q
<1> QED BY <1>1, <1>2, <1>3, ConsidersInside

\* the candidates of a batch keep the accounts
LEMMA PushesKept ==
  ASSUME NEW A, NEW S, NEW R, Core(A, S, R), Kept(A, S, R), NEW g \in Gnbs,
         S[g].distStage = "CandiSel"
  PROVE  Kept(A, [S EXCEPT ![g] = CandidateSelection(S[g], BatchApps(S[g]))], R)
<1> DEFINE s == S[g]
           apps == BatchApps(s)
           Ok == {u \in SchedRecord :
                     Good(u) /\ Works(s, u) /\ Kept(A, [S EXCEPT ![g] = u], R)}
<1>1. /\ Typed(A, S, R) /\ OneToken(A, S) /\ Remembered(A, S) /\ TokensFine(A, S, R)
      /\ S \in [Gnbs -> SchedRecord] /\ s \in SchedRecord /\ Good(s)
  BY DEF Core, Typed, SchedFine
<1>2. s \in Ok
  <2>1. [S EXCEPT ![g] = s] = S
    BY <1>1
  <2> QED BY <1>1, <2>1, WorksReflexive
<1>3. ASSUME NEW a \in apps
      PROVE  \E t \in s.pv2Tokens : /\ t.app = a /\ t.stage = "CandiSel" /\ t.app \in s.pendingApps
                                    /\ t.category = s.targetCategory /\ a \in Apps
  <2>1. PICK t \in Batch(s) : t.app = a
    BY DEF BatchApps
  <2>2. t \in s.pv2Tokens /\ t.stage = "CandiSel" /\ t.category = s.targetCategory
    BY DEF Batch
  <2>3. t \in Token /\ Located(A, S, g, t)
    BY <1>1, <2>2 DEF SchedRecord, Located
  <2>4. t.app \in s.pendingApps
    BY <1>1, <2>3, TokenAnnounced
  <2> QED BY <2>1, <2>2, <2>3, <2>4 DEF Token
<1>4. \A a \in s.pendingApps : s.insts[a] # <<>>
  BY DEF Kept, Ledger, Shape
<1>5. ASSUME NEW u \in Ok, NEW a \in apps PROVE SelectCandidatesOf(u, a) \in Ok
  <2>1. PICK o \in s.pv2Tokens : /\ o.app = a /\ o.stage = "CandiSel" /\ o.app \in s.pendingApps
                                 /\ o.category = s.targetCategory /\ a \in Apps
    BY <1>3
  <2>2. u.insts = s.insts /\ u.insts[a] # <<>> /\ u.insts[a] \in Seq(Inst)
    <3>1. u.insts = s.insts
      BY DEF Works
    <3> QED BY <1>1, <1>4, <2>1, <3>1 DEF SchedRecord
  <2>3. ASSUME NEW v \in Ok, NEW k \in DOMAIN u.insts[a] PROVE Consider(v, a, k) \in Ok
    <3> DEFINE Z == [S EXCEPT ![g] = v]
               h == Consider(v, a, k)
               c == [app |-> a, inst |-> v.insts[a][k]]
    <3>1. Good(v) /\ Works(s, v) /\ Kept(A, Z, R) /\ v \in SchedRecord
      OBVIOUS
    <3>2. PICK t \in v.pv2Tokens : Worked(o, t)
      BY <2>1, <3>1 DEF Works, Carried
    <3>3. t.app = a /\ t.stage = "CandiSel"
      BY <2>1, <3>2 DEF Worked
    <3>4. v.insts = s.insts /\ v.distStage = s.distStage /\ v.targetCategory = s.targetCategory
      BY <3>1 DEF Works
    <3>5. Good(h) /\ Works(v, h)
      <4>1. k \in DOMAIN v.insts[t.app] /\ t.app \in {a}
        BY <2>2, <3>3, <3>4
      <4> HIDE DEF Ok
      <4>2. Good(Consider(v, t.app, k)) /\ Works(v, Consider(v, t.app, k))
        BY <3>1, <4>1, ConsiderGood
      <4> QED BY <3>3, <4>2
    <3>6. Works(s, h)
      BY <1>1, <3>1, <3>5, WorksTransitive DEF Good
    <3>7. /\ Typed(A, Z, R) /\ OneToken(A, Z) /\ Remembered(A, Z) /\ Z \in [Gnbs -> SchedRecord]
      <4>1. Stays(s, v)
        BY <3>1 DEF Works, Stays
      <4>2. Typed(A, Z, R) /\ OneToken(A, Z) /\ Remembered(A, Z)
        <5> HIDE DEF Ok
        <5> QED BY <1>1, <3>1, <4>1, WorkKeeps, Zenon
      <4> QED BY <4>2 DEF Typed
    <3>8. Z[g] = v /\ (\A b \in Gnbs : b # g => Z[b] = S[b])
          /\ [Z EXCEPT ![g] = h] = [S EXCEPT ![g] = h]
      BY <1>1, <3>1, Zenon
    <3>9. Category(c.inst) = v.targetCategory => \A b \in Gnbs : b # g =>
             \A j \in DOMAIN Z[b].candidateInsts :
                 Z[b].candidateInsts[j].app = t.app => ~Earlier(R, g, c, b, Z[b].candidateInsts[j])
      <4> SUFFICES ASSUME Category(c.inst) = v.targetCategory, NEW b \in Gnbs, b # g,
                          NEW j \in DOMAIN Z[b].candidateInsts, Z[b].candidateInsts[j].app = t.app
                   PROVE  ~Earlier(R, g, c, b, Z[b].candidateInsts[j])
        OBVIOUS
      <4>1. c.app = o.app /\ Category(c.inst) = o.category
        BY <2>1, <3>4
      <4>2. /\ Z[b] = S[b] /\ j \in DOMAIN S[b].candidateInsts
            /\ S[b].candidateInsts[j].app = c.app
        BY <3>3, <3>8
      <4> HIDE DEF c, Z, Ok, s
      <4>3. o \in S[g].pv2Tokens
        BY DEF s
      <4>4. ~Earlier(R, g, c, b, S[b].candidateInsts[j])
        BY <2>1, <4>1, <4>2, <4>3, PushOrder
      <4> QED BY <4>2, <4>4
    <3>10. Kept(A, [Z EXCEPT ![g] = h], R)
      <4>1. PICK L : Ledger(L, A, Z, R)
        BY <3>1 DEF Kept
      <4>2. t \in Z[g].pv2Tokens /\ Good(Z[g]) /\ Z[g].distStage = "CandiSel"
            /\ k \in DOMAIN Z[g].insts[t.app] /\ c = [app |-> t.app, inst |-> Z[g].insts[t.app][k]]
        BY <2>2, <3>1, <3>3, <3>4, <3>8
      <4>3. Category(c.inst) = Z[g].targetCategory => \A b \in Gnbs : b # g =>
             \A j \in DOMAIN Z[b].candidateInsts :
                 Z[b].candidateInsts[j].app = t.app => ~Earlier(R, g, c, b, Z[b].candidateInsts[j])
        BY <3>8, <3>9
      <4> HIDE DEF c, Z, Ok, h, s, apps
      <4>4. Kept(A, [Z EXCEPT ![g] = Consider(Z[g], t.app, k)], R)
        BY <3>3, <3>7, <4>1, <4>2, <4>3, ConsiderLedger
      <4> QED BY <3>3, <3>8, <4>4 DEF h
    <3>11. h \in SchedRecord /\ Kept(A, [S EXCEPT ![g] = h], R)
      BY <3>5, <3>8, <3>10 DEF Good
    <3> QED BY <3>5, <3>6, <3>11
  <2> HIDE DEF Ok, apps
  <2> QED BY <2>2, <2>3, InstancesInside
<1>6. CandidateSelection(s, apps) \in Ok
  <2> HIDE DEF Ok, apps, s
  <2> QED BY <1>2, <1>5, SelectionInside
<1> QED BY <1>6

\* what a candidate that is taken changes
LEMMA SelectTakes ==
  ASSUME NEW s, Good(s), NEW t \in s.pv2Tokens, NEW c \in Candidate, c.app = t.app,
         ~(t.isScheduled \/ c.inst.rb > s.maxRB \/ c.inst.cu > s.maxCU)
  PROVE  LET h == Select(s, c)
         IN  /\ \E n : /\ n.app = t.app /\ n.stage = t.stage /\ n.isScheduled
                       /\ h.pv2Tokens = (s.pv2Tokens \ {t}) \cup {n}
             /\ h.finalSchedule = s.finalSchedule \cup {c}
             /\ h.maxRB = s.maxRB - c.inst.rb /\ h.maxCU = s.maxCU - c.inst.cu
             /\ h.reductionRsu = s.reductionRsu
<1> DEFINE n == [t EXCEPT !.isScheduled = TRUE]
           j == ChangeToken(s, t.app, n)
           x == [app |-> c.app, inst |-> c.inst]
           h == Select(s, c)
<1>1. s \in SchedRecord /\ TokenOf(s, c.app) = t /\ t \in Token
  BY TokenOfIs DEF Good, SchedRecord
<1>2. h = [j EXCEPT !.finalSchedule = @ \cup {x}, !.maxRB = @ - c.inst.rb,
                    !.maxCU = @ - c.inst.cu]
  BY <1>1 DEF Select
<1>3. j = [s EXCEPT !.pv2Tokens = (s.pv2Tokens \ {t}) \cup {n}]
  BY <1>1 DEF ChangeToken
<1>4. n.app = t.app /\ n.stage = t.stage /\ n.isScheduled
  BY <1>1 DEF Token
<1>5. x = c
  BY DEF Candidate
<1> HIDE DEF j, n, x, h
<1>6. /\ h.finalSchedule = s.finalSchedule \cup {x}
      /\ h.maxRB = s.maxRB - c.inst.rb /\ h.maxCU = s.maxCU - c.inst.cu
      /\ h.reductionRsu = s.reductionRsu /\ h.pv2Tokens = (s.pv2Tokens \ {t}) \cup {n}
  BY <1>1, <1>2, <1>3 DEF SchedRecord
<1> QED BY <1>4, <1>5, <1>6 DEF h

\* the accounts while g pops: Q are the candidates before, of which n are left at g
PopLedger(L, A, S, R, g, Q, n) ==
    /\ Audited(L, Q, R, Schedules(S), Reductions(S)) /\ L.n[g] = n
    /\ \A k \in Gnbs : k # g => /\ Q[k] = S[k].candidateInsts
                                /\ L.n[k] = Len(S[k].candidateInsts) /\ Pushing(L, k, S[k])
    /\ \A k \in Gnbs : Shape(S[k])
    /\ \A w \in Gnbs \cup {NoGnb} : \A t \in Token : Located(A, S, w, t) => Knows(L, S, t)

\* the accounts after a candidate has left, whether it was taken or not
LEMMA PoppedLedger ==
  ASSUME NEW A, NEW S, NEW R, NEW g \in Gnbs, NEW Q, NEW n \in Nat, n # 0, NEW L,
         PopLedger(L, A, S, R, g, Q, n), S \in [Gnbs -> SchedRecord], OneToken(A, S),
         NEW t \in S[g].pv2Tokens, t.stage # "CandiSel",
         NEW c \in Candidate, c = Q[g][n], c.app = t.app,
         \A k \in Gnbs : k # g => \A j \in DOMAIN S[k].candidateInsts :
             S[k].candidateInsts[j].app = t.app => Earlier(R, k, S[k].candidateInsts[j], g, c),
         NEW h \in Gnbs, NEW M \in Books, Popped(L, M, g, c.app, h),
         NEW Z, \A k \in Gnbs : k # g => Z[k] = S[k], Shape(Z[g]),
         Reductions(Z) = Reductions(S),
         \A k \in Gnbs : /\ Z[k].finalSchedule \subseteq Candidate /\ IsFiniteSet(Z[k].finalSchedule)
                         /\ Paid(M, k, Z[k].finalSchedule),
         \A w \in Gnbs \cup {NoGnb} : \A v \in Token : Located(A, Z, w, v) =>
             \/ Located(A, S, w, v) /\ Knows(L, Z, v)
             \/ v.stage # "CandiSel" /\ Knows(L, Z, v)
  PROVE  PopLedger(M, A, Z, R, g, Q, n - 1)
<1>1. /\ Audited(L, Q, R, Schedules(S), Reductions(S)) /\ L.n[g] = n
      /\ \A k \in Gnbs : k # g => /\ Q[k] = S[k].candidateInsts
                                  /\ L.n[k] = Len(S[k].candidateInsts) /\ Pushing(L, k, S[k])
      /\ \A k \in Gnbs : Shape(S[k])
  BY DEF PopLedger
<1>2. \A k \in Gnbs : k # g => \A j \in 1 .. L.n[k] :
          Q[k][j].app = c.app => Earlier(R, k, Q[k][j], g, c)
  <2> SUFFICES ASSUME NEW k \in Gnbs, k # g, NEW j \in 1 .. L.n[k], Q[k][j].app = c.app
               PROVE  Earlier(R, k, Q[k][j], g, c)
    OBVIOUS
  <2>1. S[k].candidateInsts \in Seq(Candidate)
    BY DEF SchedRecord
  <2>2. j \in DOMAIN S[k].candidateInsts /\ S[k].candidateInsts[j].app = t.app
    BY <1>1, <2>1
  <2>3. Earlier(R, k, S[k].candidateInsts[j], g, c)
    BY <2>2
  <2> QED BY <1>1, <2>3
<1>3. Audited(M, Q, R, Schedules(Z), Reductions(Z))
  <2> DEFINE Y == Schedules(Z)
  <2>1. \A k \in Gnbs : Y[k] \subseteq Candidate /\ IsFiniteSet(Y[k]) /\ Paid(M, k, Y[k])
    BY DEF Schedules
  <2>2. L.n[g] # 0 /\ c = Q[g][L.n[g]]
    BY <1>1
  <2> HIDE DEF Y
  <2>3. Audited(M, Q, R, Y, Reductions(S))
    BY <1>1, <1>2, <2>1, <2>2, PopAudited
  <2> QED BY <2>3 DEF Y
<1>4. /\ M.red = L.red /\ M.oth = L.oth
      /\ \A k \in Gnbs : M.n[k] = IF k = g THEN n - 1 ELSE L.n[k]
      /\ \A b \in Apps : b # c.app => M.r[b] = L.r[b]
  BY <1>1 DEF Popped
<1>5. \A k \in Gnbs : k # g => /\ Q[k] = Z[k].candidateInsts
                               /\ M.n[k] = Len(Z[k].candidateInsts) /\ Pushing(M, k, Z[k])
  BY <1>1, <1>4 DEF Pushing
<1>6. \A k \in Gnbs : Shape(Z[k])
  BY <1>1
<1>7. ASSUME NEW w \in Gnbs \cup {NoGnb}, NEW v \in Token, Located(A, Z, w, v)
      PROVE  Knows(M, Z, v)
  <2>1. CASE v.stage # "CandiSel"
    BY <1>7, <2>1 DEF Knows
  <2>2. CASE v.stage = "CandiSel"
    <3>1. Located(A, S, w, v) /\ Knows(L, Z, v)
      BY <1>7, <2>2
    <3>2. Located(A, S, g, t) /\ t \in Token /\ v # t
      BY <2>2 DEF Located, SchedRecord
    <3>3. v.app # c.app /\ v.app \in Apps
      BY <3>1, <3>2, ZenonT(60) DEF OneToken, Token
    <3> QED BY <1>4, <3>1, <3>3 DEF Knows
  <2> QED BY <2>1, <2>2
<1>8. M.n[g] = n - 1
  BY <1>4
<1> QED BY <1>3, <1>5, <1>6, <1>7, <1>8 DEF PopLedger

\* a candidate that is popped, and taken or not, keeps the accounts
LEMMA SelectLedger ==
  ASSUME NEW A, NEW S, NEW R, NEW g \in Gnbs, NEW Q, NEW n \in Nat, n # 0, NEW L,
         PopLedger(L, A, S, R, g, Q, n), S \in [Gnbs -> SchedRecord], OneToken(A, S),
         Good(S[g]), S[g].started, S[g].distStage = "SolSel",
         NEW t \in S[g].pv2Tokens, t.stage # "CandiSel",
         NEW c \in Candidate, c = Q[g][n], c.app = t.app, Category(c.inst) = S[g].targetCategory,
         \A k \in Gnbs : k # g => \A j \in DOMAIN S[k].candidateInsts :
             S[k].candidateInsts[j].app = t.app => Earlier(R, k, S[k].candidateInsts[j], g, c)
  PROVE  \E M : PopLedger(M, A, [S EXCEPT ![g] = Select(S[g], c)], R, g, Q, n - 1)
<1> DEFINE s == S[g]
           a == c.app
           h == Select(s, c)
           Z == [S EXCEPT ![g] = h]
           X == Schedules(S)
<1>1. s \in SchedRecord /\ TokenOf(s, a) = t /\ t \in Token /\ Located(A, S, g, t)
  BY TokenOfIs DEF Good, SchedRecord, Located
<1>2. /\ Audited(L, Q, R, X, Reductions(S)) /\ L \in Books /\ L.n[g] = n
      /\ \A k \in Gnbs : Shape(S[k])
      /\ \A w \in Gnbs \cup {NoGnb} : \A v \in Token : Located(A, S, w, v) => Knows(L, S, v)
  BY DEF PopLedger, Audited
<1>3. L.n[g] # 0 /\ c = Q[g][L.n[g]] /\ a \in Apps
  BY <1>2 DEF Candidate
<1>4. \A k \in Gnbs : /\ X[k] = S[k].finalSchedule /\ X[k] \subseteq Candidate /\ IsFiniteSet(X[k])
  BY <1>2 DEF Audited, Schedules
<1>5. ~t.isScheduled => \A x \in X[g] : x.app # a
  BY <1>1, <1>4 DEF Good, Feasible
<1>6. ASSUME h = s, NEW k \in Gnbs, NEW M \in Books, Popped(L, M, g, a, k),
             \A b \in Gnbs : Paid(M, b, X[b])
      PROVE  PopLedger(M, A, Z, R, g, Q, n - 1)
  <2>1. Z = S
    BY <1>6
  <2>2. \A b \in Gnbs : /\ S[b].finalSchedule \subseteq Candidate /\ IsFiniteSet(S[b].finalSchedule)
                        /\ Paid(M, b, S[b].finalSchedule)
    BY <1>4, <1>6
  <2>3. Shape(S[g])
    BY <1>2
  <2> HIDE DEF Z, h, X, s
  <2>4. PopLedger(M, A, S, R, g, Q, n - 1)
    BY <1>2, <1>6, <2>2, <2>3, PoppedLedger
  <2> QED BY <2>1, <2>4
<1>7. CASE t.isScheduled
  <2>1. h = s
    BY <1>1, <1>7 DEF Select
  <2>2. PICK k \in Gnbs : \E x \in X[k] : x.app = a
    BY <1>1, <1>2, <1>4, <1>7 DEF Knows
  <2>3. PICK M \in Books : Popped(L, M, g, a, k)
    BY <1>2, <1>3, PopExists
  <2> HIDE DEF h, s, X, Z
  <2>4. \A b \in Gnbs : Paid(M, b, X[b])
    BY <1>2, <1>3, <2>2, <2>3, PopScheduled
  <2>5. PopLedger(M, A, Z, R, g, Q, n - 1)
    BY <1>6, <2>1, <2>3, <2>4
  <2> QED BY <2>5 DEF Z, h, s
<1>8. CASE ~t.isScheduled /\ (c.inst.rb > s.maxRB \/ c.inst.cu > s.maxCU)
  <2>1. h = s
    BY <1>1, <1>8 DEF Select
  <2>2. PICK M \in Books : Popped(L, M, g, a, g)
    BY <1>2, <1>3, PopExists
  <2>3. Whole <= SumOver(WeightOf(X[g]), X[g])
    <3> DEFINE T == s.finalSchedule
    <3>1. /\ T \subseteq Candidate /\ IsFiniteSet(T) /\ T = X[g]
          /\ s.maxRB \in Nat /\ s.maxCU \in Nat
      BY <1>1, <1>4 DEF SchedRecord
    <3>2. Rbs(T) + s.maxRB = Bands /\ Cus(T) + s.maxCU = Units
      BY <1>2 DEF Shape
    <3>3. Category(c.inst) = "HI" => \A x \in T : Category(x.inst) = "HI"
      BY <1>2 DEF Shape
    <3> HIDE DEF T, s, X
    <3>4. Whole <= SumOver(WeightOf(T), T)
      BY <1>8, <3>1, <3>2, <3>3, HeavyEnough
    <3> QED BY <3>1, <3>4
  <2> HIDE DEF h, s, X, Z
  <2>4. \A b \in Gnbs : Paid(M, b, X[b])
    BY <1>2, <1>3, <1>5, <1>8, <2>2, <2>3, PopTooLarge
  <2>5. PopLedger(M, A, Z, R, g, Q, n - 1)
    BY <1>6, <2>1, <2>2, <2>4
  <2> QED BY <2>5 DEF Z, h, s
<1>9. CASE ~(t.isScheduled \/ c.inst.rb > s.maxRB \/ c.inst.cu > s.maxCU)
  <2>1. /\ \E m : /\ m.app = t.app /\ m.stage = t.stage /\ m.isScheduled
                  /\ h.pv2Tokens = (s.pv2Tokens \ {t}) \cup {m}
        /\ h.finalSchedule = s.finalSchedule \cup {c}
        /\ h.maxRB = s.maxRB - c.inst.rb /\ h.maxCU = s.maxCU - c.inst.cu
        /\ h.reductionRsu = s.reductionRsu
    BY <1>9, SelectTakes
  <2>2. PICK m : /\ m.app = t.app /\ m.stage = t.stage /\ m.isScheduled
                 /\ h.pv2Tokens = (s.pv2Tokens \ {t}) \cup {m}
    BY <2>1
  <2>3. Works(s, h) /\ Good(h)
    BY SelectGood
  <2>4. /\ h.pendingApps = s.pendingApps /\ h.insts = s.insts /\ h.distStage = s.distStage
        /\ h.targetCategory = s.targetCategory /\ h.started = s.started
    BY <2>3 DEF Works
  <2>5. Z[g] = h /\ \A k \in Gnbs : k # g => Z[k] = S[k]
    OBVIOUS
  <2> HIDE DEF h, Z
  <2>6. c \notin X[g]
    BY <1>5, <1>9
  <2>7. PICK M \in Books : Popped(L, M, g, a, g)
    BY <1>2, <1>3, PopExists
  <2>8. ASSUME NEW k \in Gnbs
        PROVE  /\ Z[k].finalSchedule = (IF k = g THEN X[k] \cup {c} ELSE X[k])
               /\ Z[k].finalSchedule \subseteq Candidate /\ IsFiniteSet(Z[k].finalSchedule)
               /\ Paid(M, k, Z[k].finalSchedule)
    <3>1. Z[k].finalSchedule = IF k = g THEN X[k] \cup {c} ELSE X[k]
      BY <1>4, <2>1, <2>5, ZenonT(60)
    <3>2. Paid(M, k, IF k = g THEN X[k] \cup {c} ELSE X[k])
      <4> HIDE DEF X
      <4> QED BY <1>2, <1>3, <2>6, <2>7, PopSelected
    <3>3. Z[k].finalSchedule \subseteq Candidate /\ IsFiniteSet(Z[k].finalSchedule)
      <4>1. \A b \in Gnbs : X[b] \subseteq Candidate /\ IsFiniteSet(X[b])
        BY <1>4
      <4> HIDE DEF X
      <4>2. X[k] \subseteq Candidate /\ IsFiniteSet(X[k])
        BY <4>1
      <4>3. IsFiniteSet(X[k] \cup {c})
        BY <4>2, FS_AddElement
      <4>4. X[k] \cup {c} \subseteq Candidate
        BY <4>2
      <4> QED BY <3>1, <4>2, <4>3, <4>4
    <3> QED BY <3>1, <3>2, <3>3
  <2>9. Reductions(Z) = Reductions(S)
    BY <2>1, <2>5 DEF Reductions
  <2>10. Shape(Z[g])
    <3>1. Shape(s)
      BY <1>2
    <3>2. \A x \in s.finalSchedule \cup {c} : x \in s.finalSchedule \/ x = c
      OBVIOUS
    <3>3. s.started /\ s.distStage = "SolSel" /\ s.targetCategory = "HI"
          => \A x \in h.finalSchedule : Category(x.inst) = "HI"
      BY <2>1, <3>1 DEF Shape
    <3>4. Rbs(h.finalSchedule) + h.maxRB = Bands /\ Cus(h.finalSchedule) + h.maxCU = Units
      <4> DEFINE T == s.finalSchedule
      <4>1. T \subseteq Candidate /\ IsFiniteSet(T) /\ c \notin T
        BY <1>4, <2>6
      <4>2. Rbs(T) + s.maxRB = Bands /\ Cus(T) + s.maxCU = Units
        BY <3>1 DEF Shape
      <4>3. /\ h.finalSchedule = T \cup {c}
            /\ h.maxRB = s.maxRB - c.inst.rb /\ h.maxCU = s.maxCU - c.inst.cu
        BY <2>1
      <4>4. /\ Rbs(T) \in Nat /\ Rbs(T \cup {c}) = Rbs(T) + c.inst.rb
            /\ Cus(T) \in Nat /\ Cus(T \cup {c}) = Cus(T) + c.inst.cu
        BY <4>1, SumsOfMore
      <4>5. c.inst.rb \in Nat /\ c.inst.cu \in Nat /\ s.maxRB \in Nat /\ s.maxCU \in Nat
        <5>1. c.inst \in Inst
          BY DEF Candidate
        <5> QED BY <1>1, <5>1, InstNumbers DEF SchedRecord
      <4> DEFINE r == s.maxRB
                 u == s.maxCU
                 i == c.inst.rb
                 j == c.inst.cu
      <4>6. /\ Rbs(T \cup {c}) = Rbs(T) + i /\ Cus(T \cup {c}) = Cus(T) + j
            /\ Rbs(T) + r = Bands /\ Cus(T) + u = Units
            /\ h.maxRB = r - i /\ h.maxCU = u - j
            /\ Rbs(T) \in Nat /\ Cus(T) \in Nat
            /\ i \in Nat /\ j \in Nat /\ r \in Nat /\ u \in Nat
        BY <4>2, <4>3, <4>4, <4>5
      <4> HIDE DEF T, s, r, u, i, j
      <4>7. Rbs(T \cup {c}) + h.maxRB = Bands /\ Cus(T \cup {c}) + h.maxCU = Units
        BY <4>6
      <4> QED BY <4>3, <4>7
    <3> QED BY <2>4, <2>5, <3>1, <3>3, <3>4 DEF Shape
  <2>11. \A w \in Gnbs \cup {NoGnb} : \A v \in Token : Located(A, Z, w, v) =>
             \/ Located(A, S, w, v) /\ Knows(L, Z, v)
             \/ v.stage # "CandiSel" /\ Knows(L, Z, v)
    <3> SUFFICES ASSUME NEW w \in Gnbs \cup {NoGnb}, NEW v \in Token, Located(A, Z, w, v)
                 PROVE  \/ Located(A, S, w, v) /\ Knows(L, Z, v)
                        \/ v.stage # "CandiSel" /\ Knows(L, Z, v)
      OBVIOUS
    <3>1. CASE w = g /\ v = m
      <4>1. c \in Z[g].finalSchedule /\ c.app = v.app /\ v.stage # "CandiSel"
        BY <2>2, <2>8, <3>1
      <4> QED BY <4>1 DEF Knows
    <3>2. CASE ~(w = g /\ v = m)
      <4>1. Located(A, S, w, v)
        BY <2>2, <2>5, <3>2 DEF Located
      <4>2. Knows(L, S, v)
        BY <1>2, <4>1
      <4>3. \A k \in Gnbs : S[k].finalSchedule \subseteq Z[k].finalSchedule
        BY <1>4, <2>8
      <4> QED BY <4>1, <4>2, <4>3 DEF Knows
    <3> QED BY <3>1, <3>2
  <2> HIDE DEF s, X
  <2>12. PopLedger(M, A, Z, R, g, Q, n - 1)
    <3>1. \A k \in Gnbs : /\ Z[k].finalSchedule \subseteq Candidate
                          /\ IsFiniteSet(Z[k].finalSchedule)
                          /\ Paid(M, k, Z[k].finalSchedule)
      BY <2>8
    <3>2. \A k \in Gnbs : k # g => Z[k] = S[k]
      BY <2>5
    <3>3. Popped(L, M, g, c.app, g) /\ M \in Books
      BY <2>7
    <3> QED BY <2>9, <2>10, <2>11, <3>1, <3>2, <3>3, PoppedLedger, SMTT(60)
  <2> QED BY <2>12 DEF Z, h, s
<1> QED BY <1>7, <1>8, <1>9

\* the accounts are about the candidates that are left
LEMMA AuditedPart ==
  ASSUME NEW L, NEW Q, NEW R, NEW X, NEW d, Audited(L, Q, R, X, d),
         NEW P \in [Gnbs -> Seq(Candidate)],
         \A g \in Gnbs : L.n[g] <= Len(P[g]) /\ \A i \in 1 .. L.n[g] : P[g][i] = Q[g][i]
  PROVE  Audited(L, P, R, X, d)
<1>1. Stacked(L, P)
  BY DEF Audited, Stacked
<1>2. Chained(L, P, R)
  <2> SUFFICES ASSUME NEW g \in Gnbs, NEW h \in Gnbs, NEW i \in 1 .. L.n[g], NEW j \in 1 .. L.n[h],
                      P[g][i].app = P[h][j].app,
                      IF g = h THEN i < j ELSE Earlier(R, g, P[g][i], h, P[h][j])
               PROVE  L.at[g][i] + L.gain[g][i] <= L.at[h][j]
    BY ZenonT(60) DEF Chained
  <2>1. P[g][i] = Q[g][i] /\ P[h][j] = Q[h][j]
    OBVIOUS
  <2>2. Chained(L, Q, R)
    BY DEF Audited
  <2> QED BY <2>1, <2>2 DEF Chained
<1>3. Limited(L, P)
  <2>1. Limited(L, Q)
    BY DEF Audited
  <2> QED BY <2>1 DEF Limited
<1> QED BY <1>1, <1>2, <1>3 DEF Audited

\* the accounts do not change if the schedules and the tokens do not
LEMMA PopLedgerStarts ==
  ASSUME NEW A, NEW S, NEW R, NEW g \in Gnbs, NEW L, Ledger(L, A, S, R),
         S \in [Gnbs -> SchedRecord], NEW r, Works(S[g], r),
         r.finalSchedule = S[g].finalSchedule, r.pv2Tokens = S[g].pv2Tokens,
         r.maxRB = S[g].maxRB, r.maxCU = S[g].maxCU, r.reductionRsu = S[g].reductionRsu
  PROVE  PopLedger(L, A, [S EXCEPT ![g] = r], R, g, Candidates(S), Len(S[g].candidateInsts))
<1> DEFINE Z == [S EXCEPT ![g] = r]
<1>1. Z[g] = r /\ \A k \in Gnbs : k # g => Z[k] = S[k]
  OBVIOUS
<1> HIDE DEF Z
<1>2. Schedules(Z) = Schedules(S) /\ Reductions(Z) = Reductions(S)
  BY <1>1 DEF Schedules, Reductions
<1>3. \A k \in Gnbs : Shape(Z[k])
  <2>1. \A k \in Gnbs : Shape(S[k])
    BY DEF Ledger
  <2>2. Shape(Z[g])
    BY <1>1, <2>1 DEF Shape, Works
  <2> QED BY <1>1, <2>1, <2>2
<1>4. ASSUME NEW w \in Gnbs \cup {NoGnb}, NEW t \in Token, Located(A, Z, w, t)
      PROVE  Knows(L, Z, t)
  <2>1. Located(A, S, w, t)
    BY <1>1, <1>4 DEF Located
  <2>2. Knows(L, S, t)
    BY <2>1 DEF Ledger
  <2>3. \A k \in Gnbs : Z[k].finalSchedule = S[k].finalSchedule
    BY <1>1
  <2> QED BY <2>2, <2>3 DEF Knows
<1>5. \A k \in Gnbs : k # g => /\ Candidates(S)[k] = Z[k].candidateInsts
                               /\ L.n[k] = Len(Z[k].candidateInsts) /\ Pushing(L, k, Z[k])
  BY <1>1 DEF Candidates, Ledger
<1>6. PopLedger(L, A, Z, R, g, Candidates(S), Len(S[g].candidateInsts))
  BY <1>2, <1>3, <1>4, <1>5 DEF PopLedger, Ledger
<1> QED BY <1>6 DEF Z

\* sequence k is the first n of q
IsPart(k, q, n) == Len(k) = n /\ \A i \in 1 .. n : k[i] = q[i]

\* what is left of the candidates keeps the accounts
LEMMA PopLedgerEnds ==
  ASSUME NEW A, NEW S, NEW R, NEW g \in Gnbs, NEW Q, NEW n \in Nat, NEW L,
         PopLedger(L, A, S, R, g, Q, n), S \in [Gnbs -> SchedRecord],
         S[g].distStage # "CandiSel",
         IsPart(S[g].candidateInsts, Q[g], n)
  PROVE  Kept(A, S, R)
<1> DEFINE P == Candidates(S)
<1>1. P \in [Gnbs -> Seq(Candidate)]
  BY DEF Candidates, SchedRecord
<1>2. /\ Audited(L, Q, R, Schedules(S), Reductions(S)) /\ L.n[g] = n
      /\ \A h \in Gnbs : h # g => /\ Q[h] = S[h].candidateInsts
                                  /\ L.n[h] = Len(S[h].candidateInsts) /\ Pushing(L, h, S[h])
      /\ \A h \in Gnbs : Shape(S[h])
      /\ \A w \in Gnbs \cup {NoGnb} : \A t \in Token : Located(A, S, w, t) => Knows(L, S, t)
  BY DEF PopLedger
<1>3. \A h \in Gnbs : L.n[h] <= Len(P[h]) /\ \A i \in 1 .. L.n[h] : P[h][i] = Q[h][i]
  <2> SUFFICES ASSUME NEW h \in Gnbs
               PROVE  L.n[h] <= Len(P[h]) /\ \A i \in 1 .. L.n[h] : P[h][i] = Q[h][i]
    OBVIOUS
  <2>1. L.n[h] = Len(P[h]) /\ P[h] \in Seq(Candidate)
    <3>1. P[h] = S[h].candidateInsts /\ P[h] \in Seq(Candidate)
      BY <1>1 DEF Candidates
    <3>2. L.n[h] = Len(S[h].candidateInsts)
      BY <1>2 DEF IsPart
    <3> QED BY <3>1, <3>2
  <2>2. CASE h = g
    BY <1>2, <2>1, <2>2 DEF Candidates, IsPart
  <2>3. CASE h # g
    BY <1>2, <2>1, <2>3 DEF Candidates
  <2> QED BY <2>2, <2>3
<1> HIDE DEF P
<1>4. Audited(L, P, R, Schedules(S), Reductions(S))
  BY <1>1, <1>2, <1>3, AuditedPart
<1>5. \A h \in Gnbs : L.n[h] = Len(S[h].candidateInsts) /\ Pushing(L, h, S[h]) /\ Shape(S[h])
  BY <1>2 DEF Pushing, IsPart
<1> QED BY <1>2, <1>4, <1>5 DEF Ledger, Kept, P

\* one candidate of the batch
LEMMA PopKeeps ==
  ASSUME NEW A, NEW S, NEW R, Core(A, S, R), NEW g \in Gnbs, S[g].started,
         S[g].distStage # "CandiSel",
         NEW r, Good(r), Works(S[g], r), NEW u \in Popping(r), NEW n \in Nat, n # 0,
         NEW L, PopLedger(L, A, [S EXCEPT ![g] = u], R, g, Candidates(S), n),
         NEW c \in Candidate, c = S[g].candidateInsts[n], c.app \in BatchApps(S[g]),
         Category(c.inst) = S[g].targetCategory
  PROVE  \E M : PopLedger(M, A, [S EXCEPT ![g] = Select(u, c)], R, g, Candidates(S), n - 1)
<1> DEFINE s == S[g]
           Z == [S EXCEPT ![g] = u]
<1>1. /\ Typed(A, S, R) /\ OneToken(A, S) /\ Remembered(A, S) /\ TokensFine(A, S, R)
      /\ S \in [Gnbs -> SchedRecord] /\ s \in SchedRecord /\ Good(s)
  BY DEF Core, Typed, SchedFine
<1>2. PICK o \in s.pv2Tokens : o.app = c.app /\ o.stage = s.distStage /\ o.category = s.targetCategory
  BY DEF BatchApps, Batch
<1>3. Good(u) /\ Works(r, u)
  BY DEF Popping
<1>4. Works(s, u)
  BY <1>1, <1>3, WorksTransitive DEF Good
<1>5. PICK t \in u.pv2Tokens : Worked(o, t)
  BY <1>2, <1>4 DEF Works, Carried
<1>6. t.app = c.app /\ t.stage # "CandiSel"
  BY <1>2, <1>5 DEF Worked
<1>7. /\ u.started /\ u.distStage = "SolSel" /\ u.targetCategory = s.targetCategory
  BY <1>1, <1>4 DEF Works, SchedRecord, Stages
<1>8. /\ Typed(A, Z, R) /\ OneToken(A, Z)
  <2>1. Stays(s, u)
    BY <1>4 DEF Works, Stays
  <2> QED BY <1>1, <1>3, <2>1, WorkKeeps
<1>9. Z \in [Gnbs -> SchedRecord] /\ Z[g] = u /\ (\A b \in Gnbs : b # g => Z[b] = S[b])
      /\ [Z EXCEPT ![g] = Select(u, c)] = [S EXCEPT ![g] = Select(u, c)]
  BY <1>1, <1>3 DEF Good
<1>10. c = Candidates(S)[g][n]
  BY DEF Candidates
<1>11. \A k \in Gnbs : k # g => \A j \in DOMAIN Z[k].candidateInsts :
             Z[k].candidateInsts[j].app = t.app => Earlier(R, k, Z[k].candidateInsts[j], g, c)
  <2> SUFFICES ASSUME NEW k \in Gnbs, k # g, NEW j \in DOMAIN Z[k].candidateInsts,
                      Z[k].candidateInsts[j].app = t.app
               PROVE  Earlier(R, k, Z[k].candidateInsts[j], g, c)
    OBVIOUS
  <2>1. /\ Z[k] = S[k] /\ j \in DOMAIN S[k].candidateInsts
        /\ S[k].candidateInsts[j].app = c.app
    BY <1>6, <1>9
  <2>2. o.stage # "CandiSel" /\ Category(c.inst) = o.category /\ o \in S[g].pv2Tokens
    BY <1>2
  <2> HIDE DEF Z, s
  <2>3. Earlier(R, k, S[k].candidateInsts[j], g, c)
    BY <1>2, <2>1, <2>2, PopOrder
  <2> QED BY <2>1, <2>3
<1>12. PopLedger(L, A, Z, R, g, Candidates(S), n)
  OBVIOUS
<1> HIDE DEF Z, s
<1>13. /\ t \in Z[g].pv2Tokens /\ Good(Z[g]) /\ Z[g].started /\ Z[g].distStage = "SolSel"
       /\ Category(c.inst) = Z[g].targetCategory
  BY <1>3, <1>7, <1>9 DEF s
<1> DEFINE Q == Candidates(S)
<1>14. \E M : PopLedger(M, A, [Z EXCEPT ![g] = Select(Z[g], c)], R, g, Q, n - 1)
  <2>1. PopLedger(L, A, Z, R, g, Q, n) /\ c = Q[g][n]
    BY <1>10, <1>12
  <2>2. /\ t \in Z[g].pv2Tokens /\ t.stage # "CandiSel" /\ c.app = t.app
        /\ Z \in [Gnbs -> SchedRecord] /\ OneToken(A, Z)
    BY <1>6, <1>8, <1>9, <1>13
  <2> HIDE DEF Q
  <2> QED BY <1>11, <1>13, <2>1, <2>2, SelectLedger
<1> QED BY <1>9, <1>14

\* the solutions of a batch keep the accounts
LEMMA PopsKept ==
  ASSUME NEW A, NEW S, NEW R, Core(A, S, R), Kept(A, S, R), NEW g \in Gnbs,
         S[g].started, S[g].distStage # "CandiSel"
  PROVE  Kept(A, [S EXCEPT ![g] = SolutionSelection(S[g], BatchApps(S[g]))], R)
<1> DEFINE s == S[g]
           q == s.candidateInsts
           apps == BatchApps(s)
           h == SolutionSelection(s, apps)
<1>1. /\ S \in [Gnbs -> SchedRecord] /\ s \in SchedRecord /\ Good(s)
      /\ q \in Seq(Candidate)
  BY DEF Core, Typed, SchedFine, SchedRecord
<1>2. PICK keep, r, batch : BatchIs(s, apps, keep, r, batch)
  BY <1>1, BatchAtEnd
<1> DEFINE n == Len(q) - keep
           part == SubSeq(q, 1, keep)
<1> HIDE DEF q, h, apps
<1>3. /\ keep \in 0 .. Len(q) /\ part \in Seq(Candidate)
      /\ r = [s EXCEPT !.candidateInsts = part] /\ h = SelectAll(batch, r)
      /\ batch \in Seq(Candidate) /\ Len(batch) = n
      /\ \A i \in 1 .. n : /\ batch[i] = q[i + keep] /\ batch[i] \in Candidate
                           /\ batch[i].app \in apps
                           /\ Category(batch[i].inst) = s.targetCategory
  BY <1>2 DEF BatchIs, q, h
<1>4. /\ Len(part) = keep /\ \A i \in 1 .. keep : part[i] = q[i]
      /\ n \in Nat /\ keep \in Nat /\ Len(q) \in Nat /\ DOMAIN batch = 1 .. n
  <2>1. 1 \in 1 .. Len(q) + 1 /\ 1 <= keep + 1 /\ Len(q) \in Nat /\ keep \in Nat
    BY <1>1, <1>3
  <2>2. /\ Len(part) = keep + 1 - 1
        /\ \A i \in 1 .. keep + 1 - 1 : part[i] = q[i + 1 - 1]
    BY <1>1, <1>3, <2>1, PartOfSequence
  <2> HIDE DEF part
  <2>3. keep + 1 - 1 = keep /\ n \in Nat /\ \A i \in 1 .. keep : i + 1 - 1 = i
    BY <1>3, <2>1
  <2> QED BY <1>3, <2>1, <2>2, <2>3
<1> HIDE DEF part, n
<1>5. /\ Good(r) /\ Works(s, r) /\ r \in Popping(r) /\ r.pv2Tokens = s.pv2Tokens
      /\ r.candidateInsts = part /\ r.finalSchedule = s.finalSchedule
      /\ r.maxRB = s.maxRB /\ r.maxCU = s.maxCU /\ r.reductionRsu = s.reductionRsu
  BY <1>1, <1>3, FirstPartGood
<1> DEFINE Left(u, m) == \E L : PopLedger(L, A, [S EXCEPT ![g] = u], R, g, Candidates(S), m)
           Ok == [i \in 0 .. n |-> {u \in Popping(r) : Left(u, keep + i)}]
<1>6. r \in Ok[n]
  <2>1. PICK L : Ledger(L, A, S, R)
    BY DEF Kept
  <2>2. keep + n = Len(q)
    BY <1>4 DEF n
  <2>3. PopLedger(L, A, [S EXCEPT ![g] = r], R, g, Candidates(S), Len(q))
    BY <1>1, <1>5, <2>1, PopLedgerStarts DEF q
  <2>4. Left(r, keep + n)
    BY <2>2, <2>3
  <2> HIDE DEF Left
  <2> QED BY <1>4, <1>5, <2>4
<1>7. \A u \in Popping(r) : \A k \in DOMAIN batch : Select(u, batch[k]) \in Popping(r)
  <2>1. apps \subseteq {t.app : t \in r.pv2Tokens}
    BY <1>5 DEF apps, BatchApps, Batch
  <2> QED BY <1>3, <1>4, <1>5, <2>1, SelectPops
<1>8. ASSUME NEW k \in 1 .. n, NEW u \in Ok[k] PROVE Select(u, batch[k]) \in Ok[k - 1]
  <2>1. k \in 0 .. n /\ k - 1 \in 0 .. n /\ k \in DOMAIN batch
        /\ keep + k \in Nat /\ keep + k # 0 /\ keep + k - 1 = keep + (k - 1) /\ keep + k = k + keep
    BY <1>4
  <2>2. u \in Popping(r) /\ Left(u, keep + k)
    <3> HIDE DEF Left
    <3> QED BY <1>8, <2>1
  <2>3. PICK L : PopLedger(L, A, [S EXCEPT ![g] = u], R, g, Candidates(S), keep + k)
    BY <2>2
  <2> DEFINE c == batch[k]
             m == keep + k
  <2>4. c \in Candidate /\ c = s.candidateInsts[m] /\ c.app \in BatchApps(s)
        /\ Category(c.inst) = s.targetCategory
    BY <1>3, <2>1 DEF q, apps
  <2>5. Select(u, c) \in Popping(r)
    BY <1>7, <2>1, <2>2
  <2>6. m \in Nat /\ m # 0
    BY <2>1
  <2> HIDE DEF c, m
  <2>7. \E M : PopLedger(M, A, [S EXCEPT ![g] = Select(u, c)], R, g, Candidates(S), m - 1)
    <3>1. PopLedger(L, A, [S EXCEPT ![g] = u], R, g, Candidates(S), m)
      BY <2>3 DEF m
    <3> QED BY <1>5, <2>2, <2>4, <2>6, <3>1, PopKeeps
  <2>8. Left(Select(u, c), keep + (k - 1))
    <3>1. PICK M : PopLedger(M, A, [S EXCEPT ![g] = Select(u, c)], R, g, Candidates(S), m - 1)
      BY <2>7
    <3>2. m - 1 = keep + (k - 1)
      <4>1. keep \in Nat /\ k \in Nat
        BY <1>4
      <4> QED BY <4>1 DEF m
    <3>3. PopLedger(M, A, [S EXCEPT ![g] = Select(u, c)], R, g, Candidates(S), keep + (k - 1))
      BY <3>1, <3>2
    <3> QED BY <3>3
  <2> HIDE DEF Left
  <2> QED BY <2>1, <2>5, <2>8 DEF c
<1>9. h \in Ok[0]
  <2> HIDE DEF Ok
  <2> QED BY <1>3, <1>4, <1>5, <1>6, <1>7, <1>8, SelectsInOrder
<1>10. h \in Popping(r) /\ Left(h, keep)
  <2>1. 0 \in 0 .. n /\ keep + 0 = keep
    BY <1>4
  <2> HIDE DEF Left
  <2> QED BY <1>9, <2>1
<1> DEFINE Z == [S EXCEPT ![g] = h]
<1>11. PICK L : PopLedger(L, A, Z, R, g, Candidates(S), keep)
  BY <1>10
<1>12. /\ h \in SchedRecord /\ h.candidateInsts = part /\ h.distStage = s.distStage
  BY <1>5, <1>10 DEF Popping, Works
<1>13. Z \in [Gnbs -> SchedRecord] /\ Z[g] = h
  BY <1>1, <1>12
<1>14. \A i \in 1 .. keep : part[i] = Candidates(S)[g][i]
  BY <1>4 DEF Candidates, q
<1> HIDE DEF Z
<1>15. Kept(A, Z, R)
  <2> DEFINE Q == Candidates(S)
  <2>1. PopLedger(L, A, Z, R, g, Q, keep) /\ \A i \in 1 .. keep : part[i] = Q[g][i]
    BY <1>11, <1>14
  <2>2. /\ Z[g].distStage # "CandiSel" /\ Z[g].candidateInsts = part
        /\ part \in Seq(Candidate) /\ Len(part) = keep /\ keep \in Nat
    BY <1>3, <1>4, <1>12, <1>13
  <2> HIDE DEF Q, s
  <2>3. Z \in [Gnbs -> SchedRecord] /\ IsPart(Z[g].candidateInsts, Q[g], keep)
    BY <1>13, <2>1, <2>2 DEF IsPart
  <2> QED BY <2>1, <2>2, <2>3, PopLedgerEnds
<1> QED BY <1>15 DEF Z, h, apps

\* h has the candidates and the schedule of s, and is no earlier in the round
Continues(s, h) ==
    /\ h.candidateInsts = s.candidateInsts /\ h.finalSchedule = s.finalSchedule
    /\ h.reductionRsu = s.reductionRsu /\ h.reductAppInRsu = s.reductAppInRsu
    /\ h.maxRB = s.maxRB /\ h.maxCU = s.maxCU /\ h.insts = s.insts
    /\ h.pendingApps \subseteq s.pendingApps /\ (h.started => s.started)
    /\ h.distStage = "CandiSel" => s.distStage = "CandiSel"
    /\ h.started /\ h.distStage = "SolSel" /\ h.targetCategory = "HI"
       => s.distStage = "CandiSel" \/ (s.distStage = "SolSel" /\ s.targetCategory = "HI")

\* token t is token u on its way
Inherits(t, u) ==
    /\ u.app = t.app /\ u.isScheduled = t.isScheduled /\ u.utilReduction = t.utilReduction
    /\ t.stage = "CandiSel" => u.stage = "CandiSel"

LEMMA ContinuesReflexive == ASSUME NEW s, s \in SchedRecord PROVE Continues(s, s)
<1>1. s.distStage = "SolSel" => s.distStage = "CandiSel" \/ s.distStage = "SolSel"
  OBVIOUS
<1> QED BY DEF Continues

\* what changes no candidate, schedule or token keeps the accounts
LEMMA KeptCarries ==
  ASSUME NEW A, NEW S, NEW R, Kept(A, S, R), NEW B, NEW Z,
         \A k \in Gnbs : Continues(S[k], Z[k]),
         \A w \in Gnbs \cup {NoGnb} : \A t \in Token : Located(B, Z, w, t) =>
             \E v \in Gnbs \cup {NoGnb} : \E u \in Token : Located(A, S, v, u) /\ Inherits(t, u)
  PROVE  Kept(B, Z, R)
<1>1. PICK L : Ledger(L, A, S, R)
  BY DEF Kept
<1>2. Candidates(Z) = Candidates(S) /\ Schedules(Z) = Schedules(S) /\ Reductions(Z) = Reductions(S)
  BY DEF Continues, Candidates, Schedules, Reductions
<1>3. Audited(L, Candidates(Z), R, Schedules(Z), Reductions(Z))
  BY <1>1, <1>2 DEF Ledger
<1>4. ASSUME NEW k \in Gnbs
      PROVE  L.n[k] = Len(Z[k].candidateInsts) /\ Pushing(L, k, Z[k]) /\ Shape(Z[k])
  <2>1. /\ L.n[k] = Len(S[k].candidateInsts) /\ Pushing(L, k, S[k]) /\ Shape(S[k])
        /\ Continues(S[k], Z[k])
    BY <1>1 DEF Ledger
  <2>2. L.n[k] = Len(Z[k].candidateInsts) /\ Pushing(L, k, Z[k])
    BY <2>1 DEF Continues, Pushing
  <2>3. Shape(Z[k])
    <3>1. Z[k].started /\ Z[k].distStage = "SolSel" /\ Z[k].targetCategory = "HI"
          => \A x \in Z[k].finalSchedule : Category(x.inst) = "HI"
      BY <2>1 DEF Shape, Pushing, Continues
    <3>2. Z[k].started => /\ Rbs(Z[k].finalSchedule) + Z[k].maxRB = Bands
                          /\ Cus(Z[k].finalSchedule) + Z[k].maxCU = Units
      BY <2>1 DEF Shape, Continues
    <3>3. \A a \in Z[k].pendingApps : Z[k].insts[a] # <<>>
      BY <2>1 DEF Shape, Continues
    <3> QED BY <3>1, <3>2, <3>3 DEF Shape
  <2> QED BY <2>2, <2>3
<1>5. ASSUME NEW w \in Gnbs \cup {NoGnb}, NEW t \in Token, Located(B, Z, w, t)
      PROVE  Knows(L, Z, t)
  <2>1. PICK v \in Gnbs \cup {NoGnb}, u \in Token : Located(A, S, v, u) /\ Inherits(t, u)
    BY <1>5
  <2>2. Knows(L, S, u)
    BY <1>1, <2>1 DEF Ledger
  <2>3. \A k \in Gnbs : Z[k].finalSchedule = S[k].finalSchedule
    BY DEF Continues
  <2> QED BY <2>1, <2>2, <2>3 DEF Knows, Inherits
<1>6. Ledger(L, B, Z, R)
  BY <1>3, <1>4, <1>5 DEF Ledger
<1> QED BY <1>6 DEF Kept

\* the same where only gNB g changes and keeps its tokens
LEMMA KeptCarriesAt ==
  ASSUME NEW A, NEW S, NEW R, S \in [Gnbs -> SchedRecord], NEW g \in Gnbs, NEW k, NEW h,
         k \in SchedRecord, Kept(A, [S EXCEPT ![g] = k], R), Continues(k, h),
         h.pv2Tokens = k.pv2Tokens
  PROVE  Kept(A, [S EXCEPT ![g] = h], R)
<1> DEFINE X == [S EXCEPT ![g] = k]
           Z == [S EXCEPT ![g] = h]
<1>1. X[g] = k /\ Z[g] = h /\ \A b \in Gnbs : b # g => X[b] = S[b] /\ Z[b] = S[b]
  OBVIOUS
<1> HIDE DEF X, Z
<1>2. \A b \in Gnbs : Continues(X[b], Z[b])
  BY <1>1, ContinuesReflexive
<1>3. \A b \in Gnbs : X[b].pv2Tokens = Z[b].pv2Tokens
  BY <1>1
<1>4. ASSUME NEW w \in Gnbs \cup {NoGnb}, NEW t \in Token, Located(A, Z, w, t)
      PROVE  \E v \in Gnbs \cup {NoGnb} : \E u \in Token : Located(A, X, v, u) /\ Inherits(t, u)
  <2>1. Located(A, X, w, t)
    BY <1>3, <1>4 DEF Located
  <2> QED BY <2>1 DEF Inherits
<1>5. Kept(A, Z, R)
  <2>1. Kept(A, X, R)
    BY DEF X
  <2> QED BY <1>2, <1>4, <2>1, KeptCarries
<1> QED BY <1>5 DEF Z

\* a batch keeps the accounts
LEMMA TryBatchKept ==
  ASSUME NEW A, NEW S, NEW R, NEW g \in Gnbs, NEW k, S \in [Gnbs -> SchedRecord],
         Core(A, [S EXCEPT ![g] = k], R), Kept(A, [S EXCEPT ![g] = k], R)
  PROVE  Kept(A, [S EXCEPT ![g] = [TryBatch(k) EXCEPT !.out = {}]], R)
<1> DEFINE X == [S EXCEPT ![g] = k]
           b == TryBatch(k)
           h == [b EXCEPT !.out = {}]
           apps == BatchApps(k)
           done == IF k.distStage = "CandiSel" THEN CandidateSelection(k, apps)
                   ELSE SolutionSelection(k, apps)
<1>1. X[g] = k /\ k \in SchedRecord /\ Good(k)
  BY DEF Core, Typed, SchedFine
<1>2. (\A e : [X EXCEPT ![g] = e] = [S EXCEPT ![g] = e]) /\ Core(A, X, R) /\ Kept(A, X, R)
  BY ChangedTwice
<1>3. CASE ~(k.started /\ ~k.batchOngoing /\ Cardinality(Batch(k)) = k.pvCounter[k.targetPV])
  <2>1. b = k
    BY <1>3 DEF TryBatch
  <2> HIDE DEF b
  <2>2. Continues(k, h) /\ h.pv2Tokens = k.pv2Tokens
    BY <1>1, <2>1 DEF SchedRecord, Continues
  <2> HIDE DEF h
  <2>3. Kept(A, [S EXCEPT ![g] = h], R)
    BY <1>1, <2>2, KeptCarriesAt
  <2> QED BY <2>3 DEF h, b
<1>4. CASE k.started /\ ~k.batchOngoing /\ Cardinality(Batch(k)) = k.pvCounter[k.targetPV]
  <2>1. b = [done EXCEPT !.batchOngoing = TRUE, !.postBatch = TRUE]
    BY <1>4 DEF TryBatch, PerformBatchScheduling, BatchApps
  <2>2. apps \subseteq {t.app : t \in k.pv2Tokens}
    BY DEF BatchApps, Batch
  <2> HIDE DEF apps, b
  <2>3. Kept(A, [S EXCEPT ![g] = done], R) /\ done \in SchedRecord
    <3>1. CASE k.distStage = "CandiSel"
      <4>1. done = CandidateSelection(k, apps)
        BY <3>1
      <4> HIDE DEF done, X
      <4>2. Kept(A, [X EXCEPT ![g] = CandidateSelection(X[g], BatchApps(X[g]))], R)
        BY <1>1, <1>2, <3>1, PushesKept
      <4>3. Kept(A, [X EXCEPT ![g] = done], R)
        BY <1>1, <4>1, <4>2 DEF apps
      <4>4. done \in SchedRecord
        BY <1>1, <2>2, <4>1, CandidateSelectionGood DEF Good
      <4> QED BY <1>2, <4>3, <4>4
    <3>2. CASE k.distStage # "CandiSel"
      <4>1. done = SolutionSelection(k, apps)
        BY <3>2
      <4> HIDE DEF done, X
      <4>2. Kept(A, [X EXCEPT ![g] = SolutionSelection(X[g], BatchApps(X[g]))], R)
        BY <1>1, <1>2, <1>4, <3>2, PopsKept
      <4>3. Kept(A, [X EXCEPT ![g] = done], R)
        BY <1>1, <4>1, <4>2 DEF apps
      <4>4. done \in SchedRecord
        BY <1>1, <2>2, <4>1, SolutionSelectionGood DEF Good
      <4> QED BY <1>2, <4>3, <4>4
    <3> QED BY <3>1, <3>2
  <2> HIDE DEF done, X
  <2>4. Continues(done, h) /\ h.pv2Tokens = done.pv2Tokens
    BY <2>1, <2>3 DEF SchedRecord, Continues
  <2> HIDE DEF h
  <2>5. Kept(A, [S EXCEPT ![g] = h], R)
    BY <2>3, <2>4, KeptCarriesAt
  <2> QED BY <2>5 DEF h, b
<1> QED BY <1>3, <1>4

\* the end of instance generation keeps the accounts
LEMMA InstGenTimerKept ==
  ASSUME NEW A, NEW S, NEW R, Core(A, S, R), Kept(A, S, R), NEW g \in Gnbs, S[g].instGenTimer
  PROVE  Kept(A, [S EXCEPT ![g] = [HandleInstGenTimer(S[g]) EXCEPT !.out = {}]], R)
<1> DEFINE s == S[g]
           k == [s EXCEPT !.instGenTimer = FALSE, !.batchOngoing = FALSE]
<1>1. S \in [Gnbs -> SchedRecord] /\ s \in SchedRecord
  BY DEF Core, Typed
<1>2. k = [s EXCEPT !.instGenTimer = FALSE, !.batchOngoing = FALSE]
  OBVIOUS
<1>3. HandleInstGenTimer(s) = TryBatch(k)
  BY DEF HandleInstGenTimer
<1>4. Continues(s, k) /\ k.pv2Tokens = s.pv2Tokens
  BY <1>1 DEF SchedRecord, Continues
<1> HIDE DEF k
<1>5. Core(A, [S EXCEPT ![g] = k], R)
  BY <1>2, InstancesNoted, Zenon
<1>6. Kept(A, [S EXCEPT ![g] = k], R)
  <2>1. [S EXCEPT ![g] = s] = S
    BY <1>1
  <2>2. Kept(A, [S EXCEPT ![g] = s], R)
    BY <2>1
  <2> HIDE DEF s
  <2> QED BY <1>1, <1>4, <2>2, KeptCarriesAt
<1>7. Kept(A, [S EXCEPT ![g] = [TryBatch(k) EXCEPT !.out = {}]], R)
  BY <1>1, <1>5, <1>6, TryBatchKept
<1> QED BY <1>3, <1>7

\* the arrival of a token keeps the accounts
LEMMA RecordDistTokenKept ==
  ASSUME NEW A, NEW S, NEW R, Core(A, S, R), Kept(A, S, R), NEW g \in Gnbs,
         NEW m \in A, m.to = g
  PROVE  Kept(A \ {m}, [S EXCEPT ![g] = [RecordDistToken(S[g], m.token) EXCEPT !.out = {}]], R)
<1> DEFINE s == S[g]
           k == [s EXCEPT !.pv2Tokens = @ \cup {m.token}]
           Z == [S EXCEPT ![g] = k]
           B == A \ {m}
<1>1. /\ S \in [Gnbs -> SchedRecord] /\ s \in SchedRecord
      /\ m.token \in Token /\ m = [to |-> g, token |-> m.token]
  BY DEF Core, Typed
<1>2. Core(B, Z, R)
  BY TokenJoins
<1>3. RecordDistToken(s, m.token) = TryBatch(k)
  BY DEF RecordDistToken
<1>4. Continues(s, k) /\ k.pv2Tokens = s.pv2Tokens \cup {m.token}
  BY <1>1 DEF SchedRecord, Continues
<1> HIDE DEF k, B
<1>5. Kept(B, Z, R)
  <2>1. Z[g] = k /\ \A b \in Gnbs : b # g => Z[b] = S[b]
    BY <1>1
  <2> HIDE DEF Z
  <2>2. \A b \in Gnbs : Continues(S[b], Z[b])
    BY <1>1, <1>4, <2>1, ContinuesReflexive
  <2>3. ASSUME NEW w \in Gnbs \cup {NoGnb}, NEW t \in Token, Located(B, Z, w, t)
        PROVE  \E v \in Gnbs \cup {NoGnb} : \E u \in Token : Located(A, S, v, u) /\ Inherits(t, u)
    <3>1. Located(A, S, g, m.token)
      BY <1>1 DEF Located
    <3>2. Located(A, S, w, t) \/ t = m.token
      BY <1>4, <2>1, <2>3 DEF Located, B
    <3> QED BY <1>1, <3>1, <3>2 DEF Inherits
  <2> QED BY <2>2, <2>3, KeptCarries
<1>6. Kept(B, [S EXCEPT ![g] = [TryBatch(k) EXCEPT !.out = {}]], R)
  BY <1>1, <1>2, <1>5, TryBatchKept
<1> QED BY <1>3, <1>6 DEF B

\* the next batch takes over what the last one has left
LEMMA NextTargetContinues ==
  ASSUME NEW s \in SchedRecord, s.targetPV \in Announced(s),
         ~(s.distStage = "SolSel" /\ s.targetPV = PvMin(s) /\ s.targetCategory = "LI"),
         NEW sent, sent = [s EXCEPT !.postBatch = FALSE, !.out = Batch(s),
                                    !.pv2Tokens = @ \ Batch(s)],
         NEW k, k = [NextTarget(sent) EXCEPT !.batchOngoing = FALSE]
  PROVE  /\ k \in SchedRecord /\ Continues(s, k) /\ k.pv2Tokens = s.pv2Tokens \ Batch(s)
<1> DEFINE n == NextTarget(sent)
           Same(e, h) == /\ h.candidateInsts = e.candidateInsts /\ h.finalSchedule = e.finalSchedule
                         /\ h.reductionRsu = e.reductionRsu /\ h.reductAppInRsu = e.reductAppInRsu
                         /\ h.maxRB = e.maxRB /\ h.maxCU = e.maxCU /\ h.insts = e.insts
                         /\ h.pendingApps = e.pendingApps /\ h.started = e.started
<1>1. /\ sent \in SchedRecord /\ sent.pv2Tokens = s.pv2Tokens \ Batch(s) /\ Same(s, sent)
      /\ sent.distStage = s.distStage /\ sent.targetPV = s.targetPV
      /\ sent.targetCategory = s.targetCategory /\ sent.pvCounter = s.pvCounter
  <2>1. Batch(s) \subseteq Token
    BY DEF Batch, SchedRecord
  <2> QED BY <2>1 DEF SchedRecord
<1>2. Announced(sent) = Announced(s) /\ PvMin(sent) = PvMin(s)
  BY <1>1 DEF Announced, PvMin
<1>3. /\ n = [sent EXCEPT !.distStage = n.distStage, !.targetPV = n.targetPV,
                          !.targetCategory = n.targetCategory]
      /\ n \in SchedRecord /\ MovesOn(sent, n)
  <2>1. ~(sent.distStage = "SolSel" /\ sent.targetPV = PvMin(sent) /\ sent.targetCategory = "LI")
    BY <1>1, <1>2
  <2>2. sent.targetPV \in Announced(sent)
    BY <1>1, <1>2
  <2> HIDE DEF n, Same
  <2> QED BY <1>1, <2>1, <2>2, NextTargetMoves DEF n
<1>4. k = [n EXCEPT !.batchOngoing = FALSE]
  OBVIOUS
<1> HIDE DEF n
<1>5. Same(sent, n) /\ n.pv2Tokens = sent.pv2Tokens
  <2> DEFINE new(stage, pv, category) ==
                [sent EXCEPT !.distStage = stage, !.targetPV = pv, !.targetCategory = category]
  <2>1. ASSUME NEW stage, NEW pv, NEW category
        PROVE  /\ Same(sent, new(stage, pv, category))
               /\ new(stage, pv, category).pv2Tokens = sent.pv2Tokens
    <3>1. sent \in SchedRecord
      BY <1>1
    <3> QED BY <3>1 DEF SchedRecord
  <2>2. n = new(n.distStage, n.targetPV, n.targetCategory)
    BY <1>3
  <2> HIDE DEF new, Same
  <2> QED BY <2>1, <2>2
<1>6. /\ k \in SchedRecord /\ k.pv2Tokens = n.pv2Tokens /\ Same(n, k)
      /\ k.distStage = n.distStage /\ k.targetCategory = n.targetCategory
  BY <1>3, <1>4, ZenonT(60) DEF SchedRecord
<1>7. /\ k.distStage = "CandiSel" => s.distStage = "CandiSel"
      /\ k.distStage = "SolSel" /\ k.targetCategory = "HI"
         => s.distStage = "CandiSel" \/ (s.distStage = "SolSel" /\ s.targetCategory = "HI")
  BY <1>1, <1>3, <1>6 DEF MovesOn, Target
<1>8. Continues(s, k)
  BY <1>1, <1>5, <1>6, <1>7 DEF Continues
<1> QED BY <1>1, <1>5, <1>6, <1>8

\* a batch that leaves takes its tokens to their vehicles
LEMMA BatchLeft ==
  ASSUME NEW A, NEW S, NEW R, Kept(A, S, R), NEW g \in Gnbs, S \in [Gnbs -> SchedRecord],
         NEW k, Continues(S[g], k), k.pv2Tokens \subseteq S[g].pv2Tokens
  PROVE  Kept(A \cup {[to |-> NoGnb, token |-> t] : t \in Batch(S[g])}, [S EXCEPT ![g] = k], R)
<1> DEFINE s == S[g]
           D == Batch(s)
           B == A \cup {[to |-> NoGnb, token |-> t] : t \in D}
           Z == [S EXCEPT ![g] = k]
<1>1. Z[g] = k /\ \A b \in Gnbs : b # g => Z[b] = S[b]
  OBVIOUS
<1>2. D \subseteq s.pv2Tokens
  BY DEF Batch
<1>3. \A m \in B : m \in A \/ \E t \in D : m = [to |-> NoGnb, token |-> t]
  OBVIOUS
<1> HIDE DEF Z, B, D
<1>4. \A b \in Gnbs : Continues(S[b], Z[b])
  BY <1>1, ContinuesReflexive
<1>5. ASSUME NEW w \in Gnbs \cup {NoGnb}, NEW t \in Token, Located(B, Z, w, t)
      PROVE  \E v \in Gnbs \cup {NoGnb} : \E u \in Token : Located(A, S, v, u) /\ Inherits(t, u)
  <2>1. Inherits(t, t)
    BY DEF Inherits
  <2>2. CASE [to |-> w, token |-> t] \in A
    BY <2>1, <2>2 DEF Located
  <2>3. CASE [to |-> w, token |-> t] \in B /\ [to |-> w, token |-> t] \notin A
    <3>1. t \in s.pv2Tokens
      BY <1>2, <1>3, <2>3
    <3>2. Located(A, S, g, t)
      BY <3>1 DEF Located
    <3> QED BY <2>1, <3>2
  <2>4. CASE w \in Gnbs /\ t \in Z[w].pv2Tokens
    <3>1. t \in S[w].pv2Tokens
      BY <1>1, <2>4
    <3>2. Located(A, S, w, t)
      BY <2>4, <3>1 DEF Located
    <3> QED BY <2>1, <3>2
  <2> QED BY <1>5, <2>2, <2>3, <2>4 DEF Located
<1>6. Kept(B, Z, R)
  BY <1>4, <1>5, KeptCarries
<1> QED BY <1>6 DEF B, Z, D

\* the end of a batch keeps the accounts
LEMMA PostBatchKept ==
  ASSUME NEW A, NEW S, NEW R, Core(A, S, R), Kept(A, S, R), NEW g \in Gnbs, S[g].postBatch
  PROVE  LET h == PostBatchScheduling(S[g])
         IN  Kept(A \cup {[to |-> NoGnb, token |-> t] : t \in h.out},
                  [S EXCEPT ![g] = [h EXCEPT !.out = {}]], R)
<1> DEFINE s    == S[g]
           h    == PostBatchScheduling(s)
           sent == [s EXCEPT !.postBatch = FALSE, !.out = Batch(s), !.pv2Tokens = @ \ Batch(s)]
           B    == A \cup {[to |-> NoGnb, token |-> t] : t \in Batch(s)}
           last == s.distStage = "SolSel" /\ s.targetPV = PvMin(s) /\ s.targetCategory = "LI"
<1> SUFFICES Kept(A \cup {[to |-> NoGnb, token |-> t] : t \in h.out},
                  [S EXCEPT ![g] = [h EXCEPT !.out = {}]], R)
  OBVIOUS
<1>1. /\ S \in [Gnbs -> SchedRecord] /\ s \in SchedRecord /\ s.targetPV \in Announced(s)
  BY DEF Core, Typed, SchedFine, Counted, Batches
<1>2. CASE last
  <2> DEFINE k == [h EXCEPT !.out = {}]
  <2>1. h = FinishRound(sent)
    BY <1>2 DEF PostBatchScheduling
  <2>2. h.out = Batch(s)
    BY <1>1, <2>1 DEF FinishRound, SchedRecord
  <2>3. Continues(s, k) /\ k.pv2Tokens = {}
    <3>1. k = [sent EXCEPT !.vecSchedule = sent.finalSchedule, !.pv2Tokens = {},
                 !.pvCounter = [p \in PVs |-> 0], !.pendingApps = {}, !.targetPV = 1,
                 !.targetCategory = "LI", !.started = FALSE, !.batchOngoing = FALSE, !.out = {}]
      BY <2>1 DEF FinishRound
    <3> HIDE DEF k, h
    <3> QED BY <1>1, <1>2, <3>1 DEF SchedRecord, Continues
  <2> HIDE DEF h, k
  <2>4. Kept(B, [S EXCEPT ![g] = k], R)
    BY <1>1, <2>3, BatchLeft
  <2> QED BY <2>2, <2>4 DEF k
<1>3. CASE ~last
  <2> DEFINE k == [NextTarget(sent) EXCEPT !.batchOngoing = FALSE]
  <2>1. h = TryBatch(k)
    BY <1>3 DEF PostBatchScheduling
  <2>2. Core(B, [S EXCEPT ![g] = k], R) /\ k.out = Batch(s)
    BY <1>3, NextTargetKeeps
  <2>3. Continues(s, k) /\ k.pv2Tokens = s.pv2Tokens \ Batch(s)
    <3>1. /\ k = [NextTarget(sent) EXCEPT !.batchOngoing = FALSE]
          /\ sent = [s EXCEPT !.postBatch = FALSE, !.out = Batch(s), !.pv2Tokens = @ \ Batch(s)]
          /\ ~(s.distStage = "SolSel" /\ s.targetPV = PvMin(s) /\ s.targetCategory = "LI")
      BY <1>3
    <3> HIDE DEF k, sent, s, h, B
    <3> QED BY <1>1, <3>1, NextTargetContinues
  <2> HIDE DEF h, k
  <2>4. Kept(B, [S EXCEPT ![g] = k], R)
    BY <1>1, <2>3, BatchLeft
  <2> HIDE DEF B
  <2>5. Kept(B, [S EXCEPT ![g] = [h EXCEPT !.out = {}]], R) /\ Works(k, h)
    BY <1>1, <2>1, <2>2, <2>4, ThenTryBatch, TryBatchKept
  <2>6. h.out = Batch(s)
    BY <2>2, <2>5 DEF Works
  <2> QED BY <2>5, <2>6 DEF B
<1> QED BY <1>2, <1>3

\* a vehicle that sends a token on keeps the accounts, and so does one that keeps it
LEMMA ForwardKept ==
  ASSUME NEW A, NEW S, NEW R, Kept(A, S, R), Typed(A, S, R), NEW m \in A, m.to = NoGnb,
         NEW N, NEW B, NEW n, n = NextVisit(m.token, N),
         \A d \in B : d \in A \/ d.token = n
  PROVE  Kept(B, S, R)
<1> DEFINE t == m.token
<1>1. t \in Token /\ Located(A, S, NoGnb, t) /\ S \in [Gnbs -> SchedRecord]
  <2>1. m = [to |-> NoGnb, token |-> t] /\ t \in Token
    BY DEF Typed
  <2> QED BY <2>1 DEF Located, Typed
<1>2. Inherits(n, t)
  <2>1. CASE t.stage = "CandiSel"
    BY <1>1, <2>1 DEF NextVisit, Token, Inherits
  <2>2. CASE t.stage # "CandiSel"
    BY <1>1, <2>2 DEF NextVisit, Token, Inherits
  <2> QED BY <2>1, <2>2
<1>3. \A b \in Gnbs : Continues(S[b], S[b])
  BY <1>1, ContinuesReflexive
<1>4. ASSUME NEW w \in Gnbs \cup {NoGnb}, NEW v \in Token, Located(B, S, w, v)
      PROVE  \E x \in Gnbs \cup {NoGnb} : \E u \in Token : Located(A, S, x, u) /\ Inherits(v, u)
  <2>1. Inherits(v, v)
    BY DEF Inherits
  <2>2. CASE [to |-> w, token |-> v] \in B /\ [to |-> w, token |-> v] \notin A
    <3>1. v = n
      BY <2>2
    <3> QED BY <1>1, <1>2, <3>1
  <2>3. CASE Located(A, S, w, v)
    BY <2>1, <2>3
  <2> QED BY <1>4, <2>2, <2>3 DEF Located
<1> QED BY <1>3, <1>4, KeptCarries

\* at the start of a round there is nothing to account for
LEMMA KeptStarts ==
  ASSUME NEW A, NEW S, NEW R, S \in [Gnbs -> SchedRecord],
         \A g \in Gnbs : /\ S[g].candidateInsts = <<>> /\ S[g].finalSchedule = {}
                         /\ S[g].reductionRsu = 0 /\ S[g].reductAppInRsu = [a \in Apps |-> 0]
                         /\ S[g].started => S[g].maxRB = Bands /\ S[g].maxCU = Units
                         /\ \A a \in S[g].pendingApps : S[g].insts[a] # <<>>,
         \A w \in Gnbs \cup {NoGnb} : \A t \in Token :
             Located(A, S, w, t) => t.utilReduction = 0 /\ ~t.isScheduled
  PROVE  Kept(A, S, R)
<1> DEFINE z == [g \in Gnbs |-> 0]
           y == [g \in Gnbs |-> [i \in Nat |-> 0]]
           o == [g \in Gnbs |-> [i \in Nat |-> [a \in Apps |-> 0]]]
           r == [a \in Apps |-> 0]
           L == [n |-> z, at |-> y, gain |-> y, red |-> y, oth |-> o, r |-> r, y |-> z]
           Q == Candidates(S)
           X == Schedules(S)
           d == Reductions(S)
<1>1. /\ z \in [Gnbs -> Nat] /\ y \in [Gnbs -> [Nat -> Nat]]
      /\ o \in [Gnbs -> [Nat -> [Apps -> Nat]]] /\ r \in [Apps -> Nat]
  OBVIOUS
<1>2. /\ L.n = z /\ L.at = y /\ L.gain = y /\ L.red = y /\ L.oth = o /\ L.r = r /\ L.y = z
  OBVIOUS
<1>3. L \in Books
  <2> HIDE DEF z, y, o, r
  <2> QED BY <1>1 DEF Books
<1>4. /\ \A g \in Gnbs : L.n[g] = 0 /\ L.y[g] = 0 /\ L.red[g][0] = 0
      /\ \A g \in Gnbs : \A a \in Apps : L.oth[g][0][a] = 0
      /\ \A a \in Apps : L.r[a] = 0
  <2> HIDE DEF L
  <2> QED BY <1>2
<1> HIDE DEF L
<1>5. /\ Q \in [Gnbs -> Seq(Candidate)] /\ d \in [Gnbs -> Nat]
      /\ \A g \in Gnbs : Q[g] = <<>> /\ X[g] = {} /\ d[g] = 0
      /\ \A g \in Gnbs : Len(Q[g]) = 0
  BY DEF Candidates, Schedules, Reductions, SchedRecord
<1> HIDE DEF Q, X, d
<1>6. Stacked(L, Q) /\ Chained(L, Q, R) /\ Limited(L, Q)
  BY <1>4, <1>5 DEF Stacked, Chained, Limited
<1>7. IsFiniteSet({}) /\ Value({}) = 0
  <2>1. IsFiniteSet({}) /\ {} \subseteq Candidate
    BY FS_EmptySet
  <2>2. ValueOf({}) \in [{} -> Nat] /\ Value({}) = SumOver(ValueOf({}), {})
    BY <2>1, MeasuresAreSums
  <2> QED BY <2>1, <2>2, SumOverTyped
<1>8. ASSUME NEW g \in Gnbs PROVE Paid(L, g, X[g])
  <2>1. Due(L, g, {}) \in [{} -> Nat]
    BY DEF Due
  <2>2. SumOver(Due(L, g, {}), {}) = 0
    BY <1>7, <2>1, SumOverTyped
  <2>3. Whole \in Nat
    BY DistSchedulingAssumption DEF Whole
  <2>4. Whole * L.y[g] + SumOver(Due(L, g, {}), {}) <= Whole * Value({})
    BY <1>4, <1>7, <2>2, <2>3
  <2> QED BY <1>5, <2>4 DEF Paid
<1>9. Covered(L, d)
  <2> DEFINE e == [g \in Gnbs |-> L.y[g] + L.red[g][L.n[g]]]
  <2>1. e \in [Gnbs -> Nat] /\ \A g \in Gnbs : d[g] <= e[g]
    <3>1. \A g \in Gnbs : L.y[g] + L.red[g][L.n[g]] = 0
      BY <1>4
    <3>2. \A g \in Gnbs : e[g] = 0
      BY <3>1
    <3>3. e = [g \in Gnbs |-> 0]
      BY <3>2
    <3> HIDE DEF e
    <3> QED BY <1>5, <3>2, <3>3
  <2>2. IsFiniteSet(Gnbs)
    BY DistSchedulingAssumption
  <2> HIDE DEF e
  <2>3. SumOver(d, Gnbs) <= SumOver(e, Gnbs)
    BY <1>5, <2>1, <2>2, SumOverOrdered
  <2> QED BY <2>3 DEF Covered, e
<1>10. Audited(L, Q, R, X, d)
  BY <1>3, <1>5, <1>6, <1>7, <1>8, <1>9 DEF Audited
<1>11. ASSUME NEW g \in Gnbs
       PROVE  L.n[g] = Len(S[g].candidateInsts) /\ Pushing(L, g, S[g]) /\ Shape(S[g])
  <2>1. L.n[g] = Len(S[g].candidateInsts)
    BY <1>4
  <2>2. Pushing(L, g, S[g])
    BY <1>4 DEF Pushing
  <2>3. Bands \in Nat /\ Units \in Nat /\ S[g].maxRB \in Nat /\ S[g].maxCU \in Nat
    BY DistSchedulingAssumption DEF SchedRecord
  <2>4. /\ S[g].started => Rbs(S[g].finalSchedule) + S[g].maxRB = Bands
        /\ S[g].started => Cus(S[g].finalSchedule) + S[g].maxCU = Units
    <3>1. Rbs(S[g].finalSchedule) = 0 /\ Cus(S[g].finalSchedule) = 0
      BY SumsOfNone
    <3>2. S[g].started => S[g].maxRB = Bands /\ S[g].maxCU = Units
      OBVIOUS
    <3> QED BY <2>3, <3>1, <3>2
  <2>5. \A x \in S[g].finalSchedule : Category(x.inst) = "HI"
    OBVIOUS
  <2>6. Shape(S[g])
    BY <2>4, <2>5 DEF Shape
  <2> QED BY <2>1, <2>2, <2>6
<1>12. ASSUME NEW w \in Gnbs \cup {NoGnb}, NEW t \in Token, Located(A, S, w, t)
       PROVE  Knows(L, S, t)
  <2>1. t.app \in Apps
    BY DEF Token
  <2> QED BY <1>4, <1>12, <2>1 DEF Knows
<1>13. Ledger(L, A, S, R)
  BY <1>10, <1>11, <1>12 DEF Ledger, Q, X, d
<1> QED BY <1>13 DEF Kept

\* h has generated no instances since s, and no application is announced to it any more
Onward(s, h) == h.insts = s.insts /\ h.pendingApps \subseteq s.pendingApps

LEMMA TryBatchOnward ==
  ASSUME NEW A, NEW S, NEW R, NEW g \in Gnbs, NEW k, S \in [Gnbs -> SchedRecord],
         Core(A, [S EXCEPT ![g] = k], R)
  PROVE  Onward(k, [TryBatch(k) EXCEPT !.out = {}])
<1> DEFINE X == [S EXCEPT ![g] = k]
           h == TryBatch(k)
<1>1. X[g] = k /\ X \in [Gnbs -> SchedRecord] /\ Core(A, X, R)
  BY DEF Core, Typed
<1> HIDE DEF X
<1>2. Core(A, [X EXCEPT ![g] = TryBatch(X[g])], R) /\ Works(X[g], TryBatch(X[g]))
  BY <1>1, TryBatchKeeps
<1>3. [X EXCEPT ![g] = h] \in [Gnbs -> SchedRecord] /\ Works(k, h)
  BY <1>1, <1>2 DEF Core, Typed
<1> HIDE DEF h
<1>4. h \in SchedRecord
  <2>1. [X EXCEPT ![g] = h][g] = h
    BY <1>1
  <2> QED BY <1>3, <2>1
<1>5. [h EXCEPT !.out = {}].insts = h.insts /\ [h EXCEPT !.out = {}].pendingApps = h.pendingApps
  BY <1>4 DEF SchedRecord
<1> QED BY <1>3, <1>5 DEF Onward, Works, h

\* no handler of a round generates instances or hears of an application
LEMMA HandlersOnward ==
  ASSUME NEW A, NEW S, NEW R, Core(A, S, R), NEW g \in Gnbs
  PROVE  /\ S[g].instGenTimer => Onward(S[g], [HandleInstGenTimer(S[g]) EXCEPT !.out = {}])
         /\ \A m \in A : m.to = g => Onward(S[g], [RecordDistToken(S[g], m.token) EXCEPT !.out = {}])
         /\ S[g].postBatch => Onward(S[g], [PostBatchScheduling(S[g]) EXCEPT !.out = {}])
<1> DEFINE s == S[g]
<1>1. S \in [Gnbs -> SchedRecord] /\ s \in SchedRecord /\ s.targetPV \in PVs
  BY DEF Core, Typed, SchedRecord
<1>2. ASSUME s.instGenTimer PROVE Onward(s, [HandleInstGenTimer(s) EXCEPT !.out = {}])
  <2> DEFINE k == [s EXCEPT !.instGenTimer = FALSE, !.batchOngoing = FALSE]
  <2>1. HandleInstGenTimer(s) = TryBatch(k)
    BY DEF HandleInstGenTimer
  <2>2. k = [s EXCEPT !.instGenTimer = FALSE, !.batchOngoing = FALSE]
    OBVIOUS
  <2>3. k.insts = s.insts /\ k.pendingApps = s.pendingApps
    BY <1>1 DEF SchedRecord
  <2> HIDE DEF k
  <2>4. Core(A, [S EXCEPT ![g] = k], R)
    BY <1>2, <2>2, InstancesNoted, Zenon
  <2>5. Onward(k, [TryBatch(k) EXCEPT !.out = {}])
    BY <1>1, <2>4, TryBatchOnward
  <2> QED BY <2>1, <2>3, <2>5 DEF Onward
<1>3. ASSUME NEW m \in A, m.to = g
      PROVE  Onward(s, [RecordDistToken(s, m.token) EXCEPT !.out = {}])
  <2> DEFINE k == [s EXCEPT !.pv2Tokens = @ \cup {m.token}]
  <2>1. RecordDistToken(s, m.token) = TryBatch(k)
    BY DEF RecordDistToken
  <2>2. Core(A \ {m}, [S EXCEPT ![g] = k], R)
    BY <1>3, TokenJoins
  <2>3. k.insts = s.insts /\ k.pendingApps = s.pendingApps
    BY <1>1 DEF SchedRecord
  <2> HIDE DEF k
  <2>4. Onward(k, [TryBatch(k) EXCEPT !.out = {}])
    BY <1>1, <2>2, TryBatchOnward
  <2> QED BY <2>1, <2>3, <2>4 DEF Onward
<1>4. ASSUME s.postBatch PROVE Onward(s, [PostBatchScheduling(s) EXCEPT !.out = {}])
  <2> DEFINE h    == PostBatchScheduling(s)
             sent == [s EXCEPT !.postBatch = FALSE, !.out = Batch(s), !.pv2Tokens = @ \ Batch(s)]
             B    == A \cup {[to |-> NoGnb, token |-> t] : t \in Batch(s)}
             last == s.distStage = "SolSel" /\ s.targetPV = PvMin(s) /\ s.targetCategory = "LI"
  <2>1. CASE last
    <3>1. h = FinishRound(sent)
      BY <2>1 DEF PostBatchScheduling
    <3>2. [h EXCEPT !.out = {}].insts = s.insts /\ [h EXCEPT !.out = {}].pendingApps = {}
      BY <1>1, <3>1 DEF FinishRound, SchedRecord
    <3> HIDE DEF h
    <3> QED BY <3>2 DEF Onward, h
  <2>2. CASE ~last
    <3> DEFINE k == [NextTarget(sent) EXCEPT !.batchOngoing = FALSE]
    <3>1. h = TryBatch(k)
      BY <2>2 DEF PostBatchScheduling
    <3>2. Core(B, [S EXCEPT ![g] = k], R)
      BY <1>4, <2>2, NextTargetKeeps
    <3>3. Continues(s, k)
      <4>1. s.targetPV \in Announced(s)
        BY <1>4 DEF Core, SchedFine, Counted, Batches
      <4>2. /\ k = [NextTarget(sent) EXCEPT !.batchOngoing = FALSE]
            /\ sent = [s EXCEPT !.postBatch = FALSE, !.out = Batch(s), !.pv2Tokens = @ \ Batch(s)]
            /\ ~(s.distStage = "SolSel" /\ s.targetPV = PvMin(s) /\ s.targetCategory = "LI")
        BY <2>2
      <4> HIDE DEF k, sent, s, h, B
      <4> QED BY <1>1, <4>1, <4>2, NextTargetContinues
    <3> HIDE DEF k, h, B
    <3>4. Onward(k, [TryBatch(k) EXCEPT !.out = {}])
      BY <1>1, <3>2, TryBatchOnward
    <3> QED BY <3>1, <3>3, <3>4 DEF Onward, Continues, h
  <2> QED BY <2>1, <2>2
<1> QED BY <1>2, <1>3, <1>4

\* between two periods nothing has been added and nothing is scheduled
Fresh(A, S) ==
    /\ \A g \in Gnbs : S[g].reductionRsu = 0 /\ S[g].reductAppInRsu = [a \in Apps |-> 0]
    /\ \A w \in Gnbs \cup {NoGnb} : \A t \in Token :
          Located(A, S, w, t) => t.utilReduction = 0 /\ ~t.isScheduled

\* every application has an instance at the gNBs it is announced to
AllServed(S, R, apps) ==
    \A u \in Ues : \A g \in ToSet(R[u]) : \A a \in apps : UeOf[a] = u => S[g].insts[a] # <<>>

\* what keeps the guarantee: the applications that wait are known, nothing is added
\* before the round, and in the round there are accounts
GInv ==
    /\ \A g \in Gnbs : sched[g].pendingApps \subseteq distTokens
    /\ period = "prepare" => Fresh(air, sched)
    /\ period = "schedule" /\ AllServed(sched, pv2Rsu, distTokens) => Kept(air, sched, pv2Rsu)

LEMMA FreshBegins == Fresh({}, [g \in Gnbs |-> InitialSched])
<1> DEFINE S == [g \in Gnbs |-> InitialSched]
<1>1. \A g \in Gnbs : /\ S[g].reductionRsu = 0 /\ S[g].reductAppInRsu = [a \in Apps |-> 0]
                      /\ S[g].pv2Tokens = {}
  BY DEF InitialSched
<1> HIDE DEF S
<1>2. Fresh({}, S)
  BY <1>1 DEF Fresh, Located
<1> QED BY <1>2 DEF S

\* gNBs note the applications X, and the tokens of these are sent
Announces(A, S, X, B, Z) ==
    /\ \A g \in Gnbs : Z[g] = S[g] \/ \E p : Z[g] = RecordPreference(S[g], X, p)
    /\ \A m \in B : m \in A \/ \E a \in X : m.token = InitialToken(a)

\* a vehicle that announces itself adds nothing
LEMMA BroadcastFresh ==
  ASSUME NEW A, NEW S, S \in [Gnbs -> SchedRecord], Fresh(A, S), NEW X, NEW B, NEW Z,
         Announces(A, S, X, B, Z)
  PROVE  /\ Fresh(B, Z)
         /\ \A g \in Gnbs : Z[g].pendingApps \subseteq S[g].pendingApps \cup X
<1>1. ASSUME NEW g \in Gnbs
      PROVE  /\ Z[g].pv2Tokens = S[g].pv2Tokens /\ Z[g].reductionRsu = S[g].reductionRsu
             /\ Z[g].reductAppInRsu = S[g].reductAppInRsu
             /\ Z[g].pendingApps \subseteq S[g].pendingApps \cup X
  <2> DEFINE s == S[g]
  <2>0. Z[g] = s \/ \E p : Z[g] = RecordPreference(s, X, p)
    BY DEF Announces
  <2>1. CASE Z[g] = s
    BY <2>1
  <2>2. ASSUME NEW p, Z[g] = RecordPreference(s, X, p)
        PROVE  /\ Z[g].pv2Tokens = s.pv2Tokens /\ Z[g].reductionRsu = s.reductionRsu
               /\ Z[g].reductAppInRsu = s.reductAppInRsu /\ Z[g].pendingApps = s.pendingApps \cup X
    <3>1. s \in SchedRecord
      OBVIOUS
    <3> HIDE DEF s
    <3> QED BY <2>2, <3>1 DEF RecordPreference, SchedRecord
  <2> QED BY <2>0, <2>1, <2>2
<1>2. ASSUME NEW w \in Gnbs \cup {NoGnb}, NEW t \in Token, Located(B, Z, w, t)
      PROVE  t.utilReduction = 0 /\ ~t.isScheduled
  <2>1. CASE Located(A, S, w, t)
    BY <2>1 DEF Fresh
  <2>2. CASE ~Located(A, S, w, t)
    <3>1. [to |-> w, token |-> t] \in B /\ [to |-> w, token |-> t] \notin A
      BY <1>1, <1>2, <2>2 DEF Located
    <3>2. PICK a \in X : [to |-> w, token |-> t].token = InitialToken(a)
      BY <3>1 DEF Announces
    <3>3. t = InitialToken(a)
      BY <3>2
    <3> QED BY <3>3 DEF InitialToken
  <2> QED BY <2>1, <2>2
<1> QED BY <1>1, <1>2 DEF Fresh

\* a token that arrives before the round waits
LEMMA TokenWaits ==
  ASSUME NEW A, NEW S, S \in [Gnbs -> SchedRecord], Fresh(A, S), NEW g \in Gnbs, ~S[g].started,
         NEW m \in A, m.to = g, m.token \in Token, m = [to |-> g, token |-> m.token]
  PROVE  Fresh(A \ {m}, [S EXCEPT ![g] = [RecordDistToken(S[g], m.token) EXCEPT !.out = {}]])
<1> DEFINE s == S[g]
           t == m.token
           k == [s EXCEPT !.pv2Tokens = @ \cup {t}]
           h == [k EXCEPT !.out = {}]
           Z == [S EXCEPT ![g] = h]
<1>1. s \in SchedRecord
  OBVIOUS
<1>2. RecordDistToken(s, t) = k
  <2>1. ~k.started
    BY <1>1 DEF SchedRecord
  <2> QED BY <2>1 DEF RecordDistToken, TryBatch
<1>3. /\ h.pv2Tokens = s.pv2Tokens \cup {t} /\ h.reductionRsu = s.reductionRsu
      /\ h.reductAppInRsu = s.reductAppInRsu
  BY <1>1 DEF SchedRecord
<1>4. [S EXCEPT ![g] = [RecordDistToken(S[g], m.token) EXCEPT !.out = {}]] = Z
  BY <1>2
<1> HIDE DEF h
<1>5. Z[g] = h /\ \A b \in Gnbs : b # g => Z[b] = S[b]
  OBVIOUS
<1> HIDE DEF Z
<1>6. ASSUME NEW b \in Gnbs
      PROVE  Z[b].reductionRsu = 0 /\ Z[b].reductAppInRsu = [a \in Apps |-> 0]
  BY <1>3, <1>5 DEF Fresh
<1>7. Located(A, S, g, t)
  BY DEF Located
<1>8. ASSUME NEW w \in Gnbs \cup {NoGnb}, NEW v \in Token, Located(A \ {m}, Z, w, v)
      PROVE  v.utilReduction = 0 /\ ~v.isScheduled
  <2>1. Located(A, S, w, v) \/ v = t
    BY <1>3, <1>5, <1>8 DEF Located
  <2> QED BY <1>7, <2>1 DEF Fresh
<1>9. Fresh(A \ {m}, Z)
  BY <1>6, <1>8 DEF Fresh
<1> QED BY <1>4, <1>9

\* when the round begins there are accounts
LEMMA StartKept ==
  ASSUME NEW A, NEW S, NEW R, NEW ready, Core(A, S, R), Quiet(A, S, R, ready), Fresh(A, S),
         NEW menu \in [Gnbs -> [Apps -> Seq(Inst)]],
         NEW Z, Z = [g \in Gnbs |-> HandleDistributedScheduling(S[g], menu[g])],
         NEW apps, \A g \in Gnbs : S[g].pendingApps \subseteq apps, AllServed(Z, R, apps)
  PROVE  Kept(A, Z, R)
<1>1. /\ S \in [Gnbs -> SchedRecord] /\ \A g \in Gnbs : SchedFine(R, g, S[g])
      /\ \A g \in Gnbs : Starts(S[g], Z[g])
      /\ \A g \in Gnbs : ~S[g].started
  BY AllStart DEF Core, Typed, Quiet
<1>2. Z \in [Gnbs -> SchedRecord]
  <2>1. Z = [g \in Gnbs |-> Z[g]]
    OBVIOUS
  <2>2. \A g \in Gnbs : Z[g] \in SchedRecord
    BY <1>1 DEF Starts
  <2> QED BY <2>1, <2>2
<1>3. ASSUME NEW g \in Gnbs, NEW a \in S[g].pendingApps PROVE Z[g].insts[a] # <<>>
  <2>1. a \in apps /\ a \in Apps /\ UeOf[a] \in Ues
    BY <1>1, MecTypesAssumption DEF SchedRecord
  <2>2. PICK p \in PVs : HasNumber(R, g, a, p)
    BY <1>1 DEF SchedFine, Counted
  <2>3. g \in ToSet(R[UeOf[a]])
    BY <2>2 DEF HasNumber, Reach, ToSet
  <2> QED BY <2>1, <2>3 DEF AllServed
<1>4. ASSUME NEW g \in Gnbs
      PROVE  /\ Z[g].candidateInsts = <<>> /\ Z[g].finalSchedule = {}
             /\ Z[g].reductionRsu = 0 /\ Z[g].reductAppInRsu = [a \in Apps |-> 0]
             /\ Z[g].started => Z[g].maxRB = Bands /\ Z[g].maxCU = Units
             /\ \A a \in Z[g].pendingApps : Z[g].insts[a] # <<>>
             /\ Z[g].pv2Tokens = S[g].pv2Tokens
  <2>1. Starts(S[g], Z[g]) /\ ~S[g].started
    BY <1>1
  <2>2. S[g].reductionRsu = 0 /\ S[g].reductAppInRsu = [a \in Apps |-> 0]
    BY DEF Fresh
  <2>3. \A a \in Z[g].pendingApps : Z[g].insts[a] # <<>>
    BY <1>3, <2>1 DEF Starts
  <2>4. CASE S[g].pendingApps = {}
    BY <2>1, <2>2, <2>3, <2>4 DEF Starts
  <2>5. CASE S[g].pendingApps # {}
    BY <2>1, <2>3, <2>5 DEF Starts
  <2> QED BY <2>4, <2>5
<1>5. ASSUME NEW w \in Gnbs \cup {NoGnb}, NEW t \in Token, Located(A, Z, w, t)
      PROVE  t.utilReduction = 0 /\ ~t.isScheduled
  <2>1. Located(A, S, w, t)
    BY <1>4, <1>5 DEF Located
  <2> QED BY <2>1 DEF Fresh
<1> QED BY <1>2, <1>4, <1>5, KeptStarts, Zenon

\* when no candidate is left the accounts say what the guarantee does
LEMMA KeptSettles ==
  ASSUME NEW A, NEW S, NEW R, Kept(A, S, R),
         \A g \in Gnbs : S[g].candidateInsts = <<>>,
         NEW v, v = [g \in Gnbs |-> Value(S[g].finalSchedule)]
  PROVE  /\ Reductions(S) \in [Gnbs -> Nat] /\ v \in [Gnbs -> Nat]
         /\ SumOver(Reductions(S), Gnbs) <= SumOver(v, Gnbs)
<1>1. PICK L : Ledger(L, A, S, R)
  BY DEF Kept
<1> DEFINE X == Schedules(S)
           d == Reductions(S)
           e == [g \in Gnbs |-> L.y[g] + L.red[g][L.n[g]]]
<1>2. /\ L \in Books /\ d \in [Gnbs -> Nat]
      /\ \A g \in Gnbs : X[g] \subseteq Candidate /\ IsFiniteSet(X[g])
      /\ \A g \in Gnbs : L.red[g][0] = 0
      /\ \A g \in Gnbs : Paid(L, g, X[g])
      /\ SumOver(d, Gnbs) <= SumOver(e, Gnbs)
  BY <1>1 DEF Ledger, Audited, Stacked, Covered
<1>3. \A g \in Gnbs : L.n[g] = 0 /\ v[g] = Value(X[g])
  BY <1>1 DEF Ledger, Schedules
<1> HIDE DEF X, d, e
<1>4. Whole \in Nat /\ Whole > 0
  <2>1. Bands \in Nat /\ Units \in Nat /\ Bands # 0 /\ Units # 0
    BY DistSchedulingAssumption
  <2> QED BY <2>1 DEF Whole
<1>5. ASSUME NEW g \in Gnbs PROVE e[g] \in Nat /\ v[g] \in Nat /\ e[g] <= v[g]
  <2>1. L.y[g] \in Nat /\ e[g] = L.y[g]
    BY <1>2, <1>3, BookNumbers DEF e
  <2>2. Value(X[g]) \in Nat
    BY <1>2, MeasuresAreSums, SumOverTyped
  <2>3. Due(L, g, X[g]) \in [X[g] -> Nat]
    BY <1>2, OwedTyped
  <2>4. SumOver(Due(L, g, X[g]), X[g]) \in Nat
    BY <1>2, <2>3, SumOverTyped
  <2>5. Whole * L.y[g] <= Whole * Value(X[g])
    <3>1. Whole * L.y[g] \in Nat /\ Whole * Value(X[g]) \in Nat
      BY <1>4, <2>1, <2>2
    <3>2. Whole * L.y[g] + SumOver(Due(L, g, X[g]), X[g]) <= Whole * Value(X[g])
      BY <1>2 DEF Paid
    <3> QED BY <2>4, <3>1, <3>2
  <2>6. \A m, i, j \in Nat : m > 0 /\ m * i <= m * j => i <= j
    OBVIOUS
  <2>7. L.y[g] <= Value(X[g])
    BY <1>4, <2>1, <2>2, <2>5, <2>6
  <2> QED BY <1>3, <2>1, <2>2, <2>7
<1>6. e \in [Gnbs -> Nat] /\ v \in [Gnbs -> Nat]
  <2>1. e = [g \in Gnbs |-> e[g]] /\ v = [g \in Gnbs |-> v[g]]
    BY DEF e
  <2> QED BY <1>5, <2>1
<1>7. IsFiniteSet(Gnbs)
  BY DistSchedulingAssumption
<1>8. SumOver(e, Gnbs) <= SumOver(v, Gnbs)
  BY <1>5, <1>6, <1>7, SumOverOrdered
<1>9. /\ SumOver(d, Gnbs) \in Nat /\ SumOver(e, Gnbs) \in Nat /\ SumOver(v, Gnbs) \in Nat
  BY <1>2, <1>6, <1>7, SumOverTyped
<1>10. SumOver(d, Gnbs) <= SumOver(v, Gnbs)
  BY <1>2, <1>8, <1>9
<1> QED BY <1>2, <1>6, <1>10 DEF d

\* the two sums of the guarantee
LEMMA SumsOfGnbs ==
  ASSUME NEW v, v = [g \in Gnbs |-> Value(sched[g].finalSchedule)], v \in [Gnbs -> Nat],
         Reductions(sched) \in [Gnbs -> Nat]
  PROVE  /\ MapThenSumSet(LAMBDA g : Value(sched[g].finalSchedule), Gnbs) = SumOver(v, Gnbs)
         /\ MapThenSumSet(LAMBDA g : sched[g].reductionRsu, Gnbs) = SumOver(Reductions(sched), Gnbs)
<1>1. IsFiniteSet(Gnbs)
  BY DistSchedulingAssumption
<1>2. MapThenSumSet(LAMBDA g : Value(sched[g].finalSchedule), Gnbs) = SumOver(v, Gnbs)
  <2> DEFINE iter[T \in SUBSET Gnbs] ==
               IF T = {} THEN 0
               ELSE LET x == CHOOSE x \in T : TRUE IN Value(sched[x].finalSchedule) + iter[T \ {x}]
  <2>1. PICK f : SumsUp(f, Gnbs, v) /\ SumOver(v, Gnbs) = f[Gnbs]
    <3> HIDE DEF iter
    <3> QED BY <1>1, SumOverIs
  <2>2. f = [T \in SUBSET Gnbs |->
               IF T = {} THEN 0
               ELSE LET x == CHOOSE x \in T : TRUE IN Value(sched[x].finalSchedule) + f[T \ {x}]]
    <3> HIDE DEF iter
    <3> QED BY <2>1 DEF SumsUp
  <2>3. iter = [T \in SUBSET Gnbs |->
               IF T = {} THEN 0
               ELSE LET x == CHOOSE x \in T : TRUE IN Value(sched[x].finalSchedule) + iter[T \ {x}]]
    BY <2>2, Zenon
  <2>4. MapThenSumSet(LAMBDA g : Value(sched[g].finalSchedule), Gnbs) = iter[Gnbs]
    BY DEF MapThenSumSet, MapThenFoldSet
  <2> HIDE DEF iter
  <2>5. SumsUp(iter, Gnbs, v)
    BY <2>3 DEF SumsUp
  <2>6. iter[Gnbs] = f[Gnbs]
    BY <1>1, <2>1, <2>5, SumsAgree
  <2> QED BY <2>1, <2>4, <2>6
<1>3. MapThenSumSet(LAMBDA g : sched[g].reductionRsu, Gnbs) = SumOver(Reductions(sched), Gnbs)
  <2> DEFINE d == Reductions(sched)
             iter[T \in SUBSET Gnbs] ==
               IF T = {} THEN 0
               ELSE LET x == CHOOSE x \in T : TRUE IN sched[x].reductionRsu + iter[T \ {x}]
  <2>1. PICK f : SumsUp(f, Gnbs, d) /\ SumOver(d, Gnbs) = f[Gnbs]
    <3> HIDE DEF iter
    <3> QED BY <1>1, SumOverIs
  <2>2. f = [T \in SUBSET Gnbs |->
               IF T = {} THEN 0
               ELSE LET x == CHOOSE x \in T : TRUE IN sched[x].reductionRsu + f[T \ {x}]]
    <3> HIDE DEF iter
    <3> QED BY <2>1 DEF SumsUp, Reductions
  <2>3. iter = [T \in SUBSET Gnbs |->
               IF T = {} THEN 0
               ELSE LET x == CHOOSE x \in T : TRUE IN sched[x].reductionRsu + iter[T \ {x}]]
    BY <2>2, Zenon
  <2>4. MapThenSumSet(LAMBDA g : sched[g].reductionRsu, Gnbs) = iter[Gnbs]
    BY DEF MapThenSumSet, MapThenFoldSet
  <2> HIDE DEF iter
  <2>5. SumsUp(iter, Gnbs, d)
    BY <2>3 DEF SumsUp, Reductions
  <2>6. iter[Gnbs] = f[Gnbs]
    BY <1>1, <2>1, <2>5, SumsAgree
  <2> QED BY <2>1, <2>4, <2>6
<1> QED BY <1>2, <1>3

\* the accounts give the guarantee
LEMMA GuaranteeFollows == IInv /\ GInv => GuaranteeKept
<1> SUFFICES ASSUME IInv, GInv, period = "schedule", RoundIsOver, EachHasInstances
             PROVE  MapThenSumSet(LAMBDA g : sched[g].reductionRsu, Gnbs)
                      <= MapThenSumSet(LAMBDA g : Value(sched[g].finalSchedule), Gnbs)
  BY DEF GuaranteeKept
<1> DEFINE v == [g \in Gnbs |-> Value(sched[g].finalSchedule)]
<1>1. AllServed(sched, pv2Rsu, distTokens)
  BY DEF EachHasInstances, AllServed, AppsOf
<1>2. Kept(air, sched, pv2Rsu)
  BY <1>1 DEF GInv
<1>3. \A g \in Gnbs : sched[g].candidateInsts = <<>>
  BY DEF IInv, Core, SchedFine, Ordered, RoundIsOver
<1>4. v = [g \in Gnbs |-> Value(sched[g].finalSchedule)]
  OBVIOUS
<1> HIDE DEF v
<1>5. /\ Reductions(sched) \in [Gnbs -> Nat] /\ v \in [Gnbs -> Nat]
      /\ SumOver(Reductions(sched), Gnbs) <= SumOver(v, Gnbs)
  BY <1>2, <1>3, <1>4, KeptSettles
<1>6. /\ MapThenSumSet(LAMBDA g : Value(sched[g].finalSchedule), Gnbs) = SumOver(v, Gnbs)
      /\ MapThenSumSet(LAMBDA g : sched[g].reductionRsu, Gnbs) = SumOver(Reductions(sched), Gnbs)
  BY <1>4, <1>5, SumsOfGnbs
<1> QED BY <1>5, <1>6

\* the accounts hold initially
LEMMA AccountsBegin == Init => GInv
<1> SUFFICES ASSUME Init PROVE GInv
  OBVIOUS
<1>1. air = {} /\ sched = [g \in Gnbs |-> InitialSched] /\ period = "prepare"
  BY DEF Init
<1>2. Fresh(air, sched)
  BY <1>1, FreshBegins
<1>3. \A g \in Gnbs : sched[g].pendingApps = {}
  BY <1>1 DEF InitialSched
<1> QED BY <1>1, <1>2, <1>3 DEF GInv

\* if every application has instances after a handler, it had them before it
LEMMA ServedBefore ==
  ASSUME NEW S, S \in [Gnbs -> SchedRecord], NEW R, NEW apps, NEW g \in Gnbs, NEW h,
         Onward(S[g], h), AllServed([S EXCEPT ![g] = h], R, apps),
         R \in [Ues -> Orders \cup {<<>>}]
  PROVE  AllServed(S, R, apps)
<1> DEFINE Z == [S EXCEPT ![g] = h]
<1>1. Z[g] = h /\ \A b \in Gnbs : b # g => Z[b] = S[b]
  OBVIOUS
<1> HIDE DEF Z
<1>2. \A b \in Gnbs : Z[b].insts = S[b].insts
  BY <1>1 DEF Onward
<1>3. \A u \in Ues : ToSet(R[u]) \subseteq Gnbs
  <2> SUFFICES ASSUME NEW u \in Ues PROVE ToSet(R[u]) \subseteq Gnbs
    OBVIOUS
  <2>1. CASE R[u] = <<>>
    BY <2>1 DEF ToSet
  <2>2. CASE R[u] \in Orders
    <3>1. PICK n \in PVs : R[u] \in [1 .. n -> Gnbs]
      BY <2>2 DEF Orders
    <3> QED BY <3>1 DEF ToSet
  <2> QED BY <2>1, <2>2
<1>4. AllServed(Z, R, apps)
  BY DEF Z
<1> QED BY <1>2, <1>3, <1>4 DEF AllServed

\* every step keeps the accounts
LEMMA AccountsStay == IInv /\ GInv /\ [Next]_vars => GInv'
<1> SUFFICES ASSUME IInv, GInv, [Next]_vars PROVE GInv'
  OBVIOUS
<1>1. /\ distTokens \subseteq Apps /\ distReady \subseteq Ues /\ period \in {"prepare", "schedule"}
      /\ Core(air, sched, pv2Rsu)
      /\ period = "prepare" => Quiet(air, sched, pv2Rsu, distReady)
      /\ sched \in [Gnbs -> SchedRecord] /\ Typed(air, sched, pv2Rsu)
      /\ pv2Rsu \in [Ues -> Orders \cup {<<>>}]
  BY DEF IInv, Core, Typed
<1>2. /\ \A g \in Gnbs : sched[g].pendingApps \subseteq distTokens
      /\ period = "prepare" => Fresh(air, sched)
      /\ period = "schedule" /\ AllServed(sched, pv2Rsu, distTokens) => Kept(air, sched, pv2Rsu)
  BY DEF GInv
<1>3. ASSUME NEW a \in Apps, StartApp(a) PROVE GInv'
  <2>1. /\ period = "prepare" /\ period' = period /\ sched' = sched /\ air' = air
        /\ distTokens \subseteq distTokens'
    BY <1>3 DEF StartApp
  <2> QED BY <1>2, <2>1 DEF GInv
<1>4. ASSUME NEW u \in Ues, Broadcast(u) PROVE GInv'
  <2>1. period = "prepare" /\ distTokens' = distTokens /\ period' = period
    BY <1>4 DEF Broadcast
  <2>2. PICK o \in Orders :
          /\ sched' = [g \in Gnbs |->
                IF g \in ToSet(o)
                THEN RecordPreference(sched[g], AppsOf(u), CHOOSE p \in DOMAIN o : o[p] = g)
                ELSE sched[g]]
          /\ air' = air \cup {[to |-> o[1], token |-> InitialToken(a)] : a \in AppsOf(u)}
    BY <1>4 DEF Broadcast
  <2>3. Announces(air, sched, AppsOf(u), air', sched')
    BY <2>2 DEF Announces
  <2>4. /\ Fresh(air', sched')
        /\ \A g \in Gnbs : sched'[g].pendingApps \subseteq sched[g].pendingApps \cup AppsOf(u)
    BY <1>1, <1>2, <2>1, <2>3, BroadcastFresh
  <2>5. AppsOf(u) \subseteq distTokens
    BY DEF AppsOf
  <2> QED BY <1>2, <2>1, <2>4, <2>5 DEF GInv
<1>5. ASSUME NEW u \in Ues, ForwardToken(u) PROVE GInv'
  <2>1. PICK m \in air :
          /\ m.to = NoGnb /\ UeOf[m.token.app] = u
          /\ IF IsLastVisit(m.token)
             THEN air' = air \ {m}
             ELSE LET t == NextVisit(m.token, Len(pv2Rsu[u]))
                  IN  air' = (air \ {m}) \cup {[to |-> pv2Rsu[u][t.pv], token |-> t]}
          /\ UNCHANGED <<distTokens, period, pv2Rsu, sched>>
    BY <1>5 DEF ForwardToken
  <2>2. period # "prepare"
    <3>1. m.token \in Token /\ m = [to |-> NoGnb, token |-> m.token]
      BY <1>1, <2>1 DEF Typed
    <3>2. Located(air, sched, NoGnb, m.token)
      BY <3>1 DEF Located
    <3> QED BY <1>1, <3>1, <3>2 DEF Quiet
  <2>3. ASSUME Kept(air, sched, pv2Rsu) PROVE Kept(air', sched, pv2Rsu)
    <3> DEFINE N == Len(pv2Rsu[u])
               n == NextVisit(m.token, N)
    <3>1. \A d \in air' : d \in air \/ d.token = n
      <4>1. CASE IsLastVisit(m.token)
        BY <2>1, <4>1
      <4>2. CASE ~IsLastVisit(m.token)
        <5>1. air' = (air \ {m}) \cup {[to |-> pv2Rsu[u][n.pv], token |-> n]}
          BY <2>1, <4>2
        <5> HIDE DEF n
        <5> QED BY <5>1
      <4> QED BY <4>1, <4>2
    <3>2. n = NextVisit(m.token, N)
      OBVIOUS
    <3> HIDE DEF n, N
    <3> QED BY <1>1, <2>1, <2>3, <3>1, <3>2, ForwardKept
  <2> QED BY <1>1, <1>2, <2>1, <2>2, <2>3 DEF GInv
<1>6. CASE ScheduleStart
  <2>1. /\ period = "prepare" /\ period' = "schedule"
        /\ distTokens' = distTokens /\ pv2Rsu' = pv2Rsu /\ distReady' = distReady /\ air' = air
    BY <1>6 DEF ScheduleStart
  <2>2. PICK menu \in [Gnbs -> {m \in [Apps -> UNION Range(Menus)] : \A a \in Apps : m[a] \in Menus[a]}] :
          sched' = [g \in Gnbs |-> HandleDistributedScheduling(sched[g], menu[g])]
    BY <1>6 DEF ScheduleStart
  <2>3. menu \in [Gnbs -> [Apps -> Seq(Inst)]]
    <3>1. ASSUME NEW g \in Gnbs PROVE menu[g] \in [Apps -> Seq(Inst)]
      <4>1. menu[g] \in [Apps -> UNION Range(Menus)] /\ \A a \in Apps : menu[g][a] \in Menus[a]
        OBVIOUS
      <4>2. \A a \in Apps : menu[g][a] \in Seq(Inst)
        BY <4>1, DistSchedulingAssumption
      <4> QED BY <4>1, <4>2
    <3> QED BY <3>1
  <2>4. \A g \in Gnbs : sched'[g].pendingApps = sched[g].pendingApps
    <3>1. \A g \in Gnbs : Starts(sched[g], sched'[g])
      BY <1>1, <2>1, <2>2, <2>3, AllStart
    <3> QED BY <3>1 DEF Starts
  <2>5. ASSUME AllServed(sched', pv2Rsu, distTokens) PROVE Kept(air, sched', pv2Rsu)
    BY <1>1, <1>2, <2>1, <2>2, <2>3, <2>5, StartKept
  <2> QED BY <1>2, <2>1, <2>4, <2>5 DEF GInv
<1>7. ASSUME NEW g \in Gnbs, InstGenTimer(g) PROVE GInv'
  <2> DEFINE h == [HandleInstGenTimer(sched[g]) EXCEPT !.out = {}]
  <2>1. /\ sched[g].instGenTimer /\ sched' = [sched EXCEPT ![g] = h]
        /\ UNCHANGED <<distTokens, period, pv2Rsu, distReady, air>>
    BY <1>7 DEF InstGenTimer, Perform
  <2>2. period # "prepare"
    BY <1>1, <2>1 DEF Quiet
  <2>3. Onward(sched[g], h)
    BY <1>1, <2>1, HandlersOnward
  <2>4. ASSUME Kept(air, sched, pv2Rsu) PROVE Kept(air, sched', pv2Rsu)
    BY <1>1, <2>1, <2>4, InstGenTimerKept
  <2> HIDE DEF h
  <2>5. AllServed(sched', pv2Rsu, distTokens) => AllServed(sched, pv2Rsu, distTokens)
    BY <1>1, <2>1, <2>3, ServedBefore
  <2>6. \A b \in Gnbs : sched'[b].pendingApps \subseteq distTokens
    BY <1>1, <1>2, <2>1, <2>3 DEF Onward
  <2> QED BY <1>1, <1>2, <2>1, <2>2, <2>4, <2>5, <2>6 DEF GInv
<1>8. ASSUME NEW g \in Gnbs, ReceiveToken(g) PROVE GInv'
  <2>1. PICK m \in air :
          /\ m.to = g /\ air' = air \ {m}
          /\ sched' = [sched EXCEPT ![g] = [RecordDistToken(sched[g], m.token) EXCEPT !.out = {}]]
          /\ UNCHANGED <<distTokens, period, pv2Rsu, distReady>>
    BY <1>8 DEF ReceiveToken, Perform
  <2> DEFINE h == [RecordDistToken(sched[g], m.token) EXCEPT !.out = {}]
  <2>2. Onward(sched[g], h)
    BY <1>1, <2>1, HandlersOnward
  <2>3. period = "prepare" => Fresh(air', sched')
    <3>1. m.token \in Token /\ m = [to |-> g, token |-> m.token]
      BY <1>1, <2>1 DEF Typed
    <3>2. period = "prepare" => ~sched[g].started
      BY <1>1 DEF Quiet
    <3> QED BY <1>1, <1>2, <2>1, <3>1, <3>2, TokenWaits
  <2>4. ASSUME Kept(air, sched, pv2Rsu) PROVE Kept(air', sched', pv2Rsu)
    BY <1>1, <2>1, <2>4, RecordDistTokenKept
  <2>5. sched' = [sched EXCEPT ![g] = h]
    BY <2>1
  <2> HIDE DEF h
  <2>6. AllServed(sched', pv2Rsu, distTokens) => AllServed(sched, pv2Rsu, distTokens)
    BY <1>1, <2>2, <2>5, ServedBefore
  <2>7. \A b \in Gnbs : sched'[b].pendingApps \subseteq distTokens
    BY <1>1, <1>2, <2>2, <2>5 DEF Onward
  <2> QED BY <1>1, <1>2, <2>1, <2>3, <2>4, <2>6, <2>7 DEF GInv
<1>9. ASSUME NEW g \in Gnbs, PostBatch(g) PROVE GInv'
  <2> DEFINE e == PostBatchScheduling(sched[g])
             h == [e EXCEPT !.out = {}]
  <2>1. /\ sched[g].postBatch
        /\ sched' = [sched EXCEPT ![g] = h]
        /\ air' = air \cup {[to |-> NoGnb, token |-> t] : t \in e.out}
        /\ UNCHANGED <<distTokens, period, pv2Rsu, distReady>>
    BY <1>9 DEF PostBatch, Perform
  <2>2. period # "prepare"
    BY <1>1, <2>1 DEF Quiet
  <2>3. Onward(sched[g], h)
    BY <1>1, <2>1, HandlersOnward
  <2>4. ASSUME Kept(air, sched, pv2Rsu) PROVE Kept(air', sched', pv2Rsu)
    <3>1. Kept(air \cup {[to |-> NoGnb, token |-> t] : t \in e.out}, [sched EXCEPT ![g] = h], pv2Rsu)
      BY <1>1, <2>1, <2>4, PostBatchKept
    <3> HIDE DEF e, h
    <3> QED BY <2>1, <3>1
  <2> HIDE DEF e, h
  <2>5. AllServed(sched', pv2Rsu, distTokens) => AllServed(sched, pv2Rsu, distTokens)
    BY <1>1, <2>1, <2>3, ServedBefore
  <2>6. \A b \in Gnbs : sched'[b].pendingApps \subseteq distTokens
    BY <1>1, <1>2, <2>1, <2>3 DEF Onward
  <2> QED BY <1>1, <1>2, <2>1, <2>2, <2>4, <2>5, <2>6 DEF GInv
<1>10. CASE NextPeriod
  <2>1. air' = {} /\ sched' = [g \in Gnbs |-> InitialSched] /\ period' = "prepare"
    BY <1>10 DEF NextPeriod, RoundIsOver
  <2>2. Fresh(air', sched')
    BY <2>1, FreshBegins
  <2>3. \A g \in Gnbs : sched'[g].pendingApps = {}
    BY <2>1 DEF InitialSched
  <2> QED BY <2>1, <2>2, <2>3 DEF GInv
<1>11. CASE UNCHANGED vars
  BY <1>2, <1>11 DEF GInv, vars
<1> QED BY <1>3, <1>4, <1>5, <1>6, <1>7, <1>8, <1>9, <1>10, <1>11 DEF Next

\* What the candidates added when they were pushed (Consider, reductionRsu) is a lower
\* bound of what the schedules are worth over all gNBs when the round is over, in
\* whatever order the tokens came, if every application has an instance at the gNBs it
\* is announced to.
THEOREM GuaranteeIsKept == Spec => []GuaranteeKept
<1>1. Init => IInv /\ GInv
  BY InitHolds, AccountsBegin
<1>2. IInv /\ GInv /\ [Next]_vars => (IInv /\ GInv)'
  BY StepHolds, AccountsStay
<1>3. IInv /\ GInv => GuaranteeKept
  BY GuaranteeFollows
<1> QED BY <1>1, <1>2, <1>3, PTL DEF Spec

=============================================================================
