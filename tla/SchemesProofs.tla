---------------------------- MODULE SchemesProofs ----------------------------
(***************************************************************************)
(* Theorem about the centralized schemes: what a scheme hands to the       *)
(* gNBs is feasible, whatever it computes on the way.                      *)
(*                                                                         *)
(* The argument follows the instances.  Serving(s, p) are the instances    *)
(* that serve an application of the input p the way scheme s may: every    *)
(* loop of generateScheduleInstances yields only those (GenerateServes).   *)
(* The candidates are such instances with another gain; the linear         *)
(* programs, the graph and the matching are over their indices.  So the    *)
(* schedule is a set of them, and what is left is that it serves no        *)
(* application twice and fits: every scheme but SARound tests both at the  *)
(* step that adds an instance (ScheduleGrows).  SARound tests only the     *)
(* first.  It takes what the linear program of one gNB after another has   *)
(* rounded, so all its candidates fit together (RoundingTakes,             *)
(* CandidatesFit), and so does every part of them (UsedByPart).  IInv says *)
(* in which phase which of this holds.                                     *)
(*                                                                         *)
(* Fold and FlattenSeq are defined by recursive functions over the parts   *)
(* of a set; FoldExists and SubsetInduction of SumTheorems, which prove    *)
(* that there is one such function, stand for induction over data.         *)
(***************************************************************************)
EXTENDS SearchSchemes, SumTheorems, SequenceTheorems

-----------------------------------------------------------------------------
(* Sequences and the loops over them.                                       *)

\* f concatenates the first members of ss
Flat(f, ss, n) ==
    f = [i \in 1 .. n |-> IF i = 1 THEN ss[i] ELSE f[i - 1] \o ss[i]]

\* what does so stays in a set that is closed under concatenation
LEMMA FlatIn ==
  ASSUME NEW Q, \A u, v \in Q : u \o v \in Q, NEW N \in Nat, NEW ss \in [1 .. N -> Q]
  PROVE  \A n \in 0 .. N : \E f : f \in [1 .. n -> Q] /\ Flat(f, ss, n)
<1> DEFINE Good == {n \in 0 .. N : \E f : f \in [1 .. n -> Q] /\ Flat(f, ss, n)}
<1>0. N \in Nat
  OBVIOUS
<1>1. 0 \in Good
  <2> DEFINE e == [i \in 1 .. 0 |-> ss[i]]
  <2>1. e \in [1 .. 0 -> Q] /\ Flat(e, ss, 0)
    BY DEF Flat
  <2> HIDE DEF e
  <2>2. 0 \in 0 .. N
    OBVIOUS
  <2> QED BY <2>1, <2>2
<1>2. ASSUME NEW n \in 0 .. N, n # N, n \in Good PROVE n + 1 \in Good
  <2>1. PICK f : f \in [1 .. n -> Q] /\ Flat(f, ss, n)
    BY <1>2
  <2> DEFINE g == [i \in 1 .. n + 1 |-> IF i \in 1 .. n THEN f[i] ELSE IF n = 0 THEN ss[1] ELSE f[n] \o ss[n + 1]]
  <2>2. ASSUME NEW i \in 1 .. n + 1
        PROVE  g[i] \in Q /\ g[i] = IF i = 1 THEN ss[i] ELSE g[i - 1] \o ss[i]
    <3>1. CASE i \in 1 .. n
      <4>1. f[i] = IF i = 1 THEN ss[i] ELSE f[i - 1] \o ss[i]
        BY <2>1, <3>1 DEF Flat
      <4>2. g[i] = f[i] /\ f[i] \in Q
        BY <2>1, <3>1
      <4>3. i # 1 => i - 1 \in 1 .. n /\ i - 1 \in 1 .. n + 1 /\ g[i - 1] = f[i - 1]
        BY <3>1
      <4> HIDE DEF g
      <4> QED BY <4>1, <4>2, <4>3
    <3>2. CASE i \notin 1 .. n
      <4>1. i = n + 1 /\ ss[n + 1] \in Q
        BY <3>2, <1>2
      <4>2. CASE n = 0
        <5>1. i = 1 /\ g[i] = ss[1] /\ ss[1] \in Q
          BY <3>2, <4>1, <4>2
        <5> HIDE DEF g
        <5> QED BY <5>1
      <4>3. CASE n # 0
        <5>1. f[n] \in Q /\ f[n] \o ss[n + 1] \in Q
          BY <2>1, <4>1, <4>3
        <5>2. n \in 1 .. n /\ n + 1 \notin 1 .. n /\ n \in 1 .. n + 1 /\ i - 1 = n /\ i # 1
          BY <4>1, <4>3
        <5>3. g[i] = f[n] \o ss[n + 1] /\ g[i - 1] = f[n]
          BY <4>1, <4>3, <5>2
        <5> HIDE DEF g
        <5> QED BY <5>1, <5>2, <5>3, <4>1
      <4> QED BY <4>2, <4>3
    <3> QED BY <3>1, <3>2
  <2>3. g \in [1 .. n + 1 -> Q]
    BY <2>2
  <2>4. Flat(g, ss, n + 1)
    BY <2>2 DEF Flat
  <2>5. n + 1 \in 0 .. N
    BY <1>2
  <2> HIDE DEF g
  <2> QED BY <2>3, <2>4, <2>5
<1> HIDE DEF Good
<1>3. \A n \in 0 .. N : n \in Good
  <2>1. \A n \in 0 .. N : n # N /\ n \in Good => n + 1 \in Good
    BY <1>2
  <2> QED BY <1>0, <1>1, <2>1, UpTo
<1> QED BY <1>3 DEF Good

\* sequences of members, one after the other, are a sequence of members
LEMMA FlattenTyped ==
  ASSUME NEW S, NEW N \in Nat, NEW ss \in [1 .. N -> Seq(S)]
  PROVE  FlattenSeq(ss) \in Seq(S)
<1>0. N \in Nat
  OBVIOUS
<1>1. Len(ss) = N
  OBVIOUS
<1>2. CASE N = 0
  <2>1. FlattenSeq(ss) = ss /\ ss = <<>>
    BY <1>1, <1>2 DEF FlattenSeq
  <2> QED BY <2>1
<1>3. CASE N # 0
  <2> DEFINE Q == Seq(S)
  <2>1. (\A u, v \in Q : u \o v \in Q) /\ ss \in [1 .. N -> Q]
    OBVIOUS
  <2> HIDE DEF Q
  <2>2. PICK f : f \in [1 .. N -> Q] /\ Flat(f, ss, N)
    <3>1. N \in 0 .. N
      BY <1>0, SMTT(60)
    <3> QED BY <1>0, <2>1, <3>1, FlatIn, Zenon
  <2> DEFINE flatten[i \in 1 .. Len(ss)] == IF i = 1 THEN ss[i] ELSE flatten[i - 1] \o ss[i]
  <2>3. flatten = [i \in 1 .. Len(ss) |-> IF i = 1 THEN ss[i] ELSE flatten[i - 1] \o ss[i]]
    BY <2>2, <1>1, Zenon DEF Flat
  <2>4. FlattenSeq(ss) = flatten[Len(ss)]
    BY <1>1, <1>3 DEF FlattenSeq
  <2> HIDE DEF flatten
  <2>5. \A i \in 1 .. N : flatten[i] = IF i = 1 THEN ss[i] ELSE flatten[i - 1] \o ss[i]
    BY <2>3, <1>1
  <2> DEFINE Same == {n \in 0 .. N : n = 0 \/ flatten[n] \in Q}
  <2>6. ASSUME NEW n \in 0 .. N, n # N, n \in Same PROVE n + 1 \in Same
    <3>1. n + 1 \in 1 .. N /\ ss[n + 1] \in Q /\ (n + 1) - 1 = n
      BY <2>6, <2>1
    <3>2. flatten[n + 1] = IF n = 0 THEN ss[n + 1] ELSE flatten[n] \o ss[n + 1]
      BY <2>5, <3>1
    <3>3. flatten[n + 1] \in Q
      BY <3>1, <3>2, <2>1, <2>6
    <3> QED BY <3>1, <3>3
  <2>7. 0 \in Same
    OBVIOUS
  <2> HIDE DEF Same
  <2>8. \A n \in 0 .. N : n \in Same
    <3>1. \A n \in 0 .. N : n # N /\ n \in Same => n + 1 \in Same
      BY <2>6
    <3> QED BY <1>0, <2>7, <3>1, UpTo
  <2>9. flatten[N] \in Q
    BY <2>8, <1>3 DEF Same
  <2> QED BY <1>1, <2>4, <2>9 DEF Q
<1> QED BY <1>2, <1>3

LEMMA MemberOf ==
  ASSUME NEW S, NEW seq \in Seq(S)
  PROVE  \A k \in DOMAIN seq : seq[k] \in S
OBVIOUS

\* the body of a loop over members of T that yields members of S
LEMMA FlattenLoop ==
  ASSUME NEW S, NEW T, NEW seq \in Seq(T), NEW f,
         f = [k \in DOMAIN seq |-> f[k]], \A k \in DOMAIN seq : f[k] \in Seq(S)
  PROVE  FlattenSeq(f) \in Seq(S)
<1>1. Len(seq) \in Nat /\ DOMAIN seq = 1 .. Len(seq)
  OBVIOUS
<1>2. f \in [1 .. Len(seq) -> Seq(S)]
  BY <1>1
<1> QED BY <1>1, <1>2, FlattenTyped

\* a loop that ends at the first member that breaks it
LEMMA CutTyped ==
  ASSUME NEW S, NEW T, NEW seq \in Seq(S), NEW stops, stops \subseteq DOMAIN seq,
         \A k \in DOMAIN seq : k \notin stops => seq[k] \in T
  PROVE  (IF stops = {} THEN seq ELSE SubSeq(seq, 1, Min(stops) - 1)) \in Seq(T)
<1>1. Len(seq) \in Nat /\ DOMAIN seq = 1 .. Len(seq) /\ seq \in [1 .. Len(seq) -> S]
  OBVIOUS
<1>2. CASE stops = {}
  <2>1. seq \in [1 .. Len(seq) -> T]
    BY <1>1, <1>2
  <2> QED BY <2>1, <1>1, <1>2
<1>3. CASE stops # {}
  <2> DEFINE m == Min(stops)
  <2>1. m \in stops /\ \A k \in stops : m <= k
    <3>1. \E n \in stops : \A k \in stops : n <= k
      BY <1>1, <1>3, LeastNatural
    <3> QED BY <3>1 DEF Min
  <2> HIDE DEF m
  <2>2. m \in 1 .. Len(seq)
    BY <2>1, <1>1
  <2>3. \A i \in 1 .. m - 1 : i \in DOMAIN seq /\ i \notin stops
    BY <2>1, <2>2, <1>1
  <2>4. \A i \in 1 .. m - 1 : seq[i] \in T
    BY <2>3
  <2>5. SubSeq(seq, 1, m - 1) \in Seq(T)
    BY <2>2, <2>4, SubSeqProperties
  <2> QED BY <2>5, <1>3 DEF m
<1> QED BY <1>2, <1>3

\* what rounding up gives
LEMMA CeilDivIs ==
  ASSUME NEW n \in Nat, NEW d \in Nat \ {0}
  PROVE  /\ CeilDiv(n, d) \in Nat
         /\ n <= CeilDiv(n, d) * d
         /\ n > 0 => CeilDiv(n, d) > 0
         /\ \A k \in Nat : k > 0 /\ k <= CeilDiv(n, d) => (k - 1) * d < n
<1> DEFINE q == CeilDiv(n, d)
<1>1. q = (n + d - 1) \div d /\ n + d - 1 \in Nat
  BY DEF CeilDiv
<1>2. q \in Nat /\ q * d <= n + d - 1 /\ n + d - 1 < (q + 1) * d
  BY <1>1
<1> HIDE DEF q
<1>3. (q + 1) * d = q * d + d /\ q * d \in Nat
  BY <1>2
<1>4. n <= q * d
  BY <1>2, <1>3
<1>5. n > 0 => q > 0
  BY <1>2, <1>3
<1>6. ASSUME NEW k \in Nat, k > 0, k <= q PROVE (k - 1) * d < n
  <2>1. k * d <= q * d /\ (k - 1) * d = k * d - d /\ k * d \in Nat
    BY <1>6, <1>2
  <2> QED BY <2>1, <1>2, <1>3
<1> QED BY <1>2, <1>4, <1>5, <1>6 DEF q

Between(first, last) == {n \in Nat : first <= n /\ n <= last}

LEMMA UpTyped ==
  ASSUME NEW first \in Nat, NEW last \in Int, NEW step \in Nat \ {0}
  PROVE  Up(first, last, step) \in Seq(Between(first, last))
<1> DEFINE n == IF last < first THEN 0 ELSE last - first + 1
           S == Between(first, last)
<1>1. n \in Nat /\ CeilDiv(n, step) \in Nat
  <2>1. n \in Nat
    OBVIOUS
  <2> HIDE DEF n
  <2> QED BY <2>1, CeilDivIs
<1>2. ASSUME NEW k \in 1 .. CeilDiv(n, step) PROVE first + (k - 1) * step \in S
  <2>1. k \in Nat /\ k > 0 /\ k <= CeilDiv(n, step)
    BY <1>1, <1>2
  <2>2. (k - 1) * step < n
    BY <1>1, <2>1, CeilDivIs
  <2>3. (k - 1) * step \in Nat
    BY <2>1
  <2> QED BY <2>2, <2>3 DEF Between
<1>3. Up(first, last, step) \in [1 .. CeilDiv(n, step) -> S]
  BY <1>2 DEF Up
<1> HIDE DEF n, S
<1>4. Up(first, last, step) \in Seq(S)
  BY <1>1, <1>3
<1> QED BY <1>4 DEF S

LEMMA DownTyped ==
  ASSUME NEW first \in Nat, NEW step \in Nat \ {0}
  PROVE  Down(first, step) \in Seq(1 .. first)
<1>1. CeilDiv(first, step) \in Nat
  BY CeilDivIs
<1>2. ASSUME NEW k \in 1 .. CeilDiv(first, step) PROVE first - (k - 1) * step \in 1 .. first
  <2>1. k \in Nat /\ k > 0 /\ k <= CeilDiv(first, step)
    BY <1>1, <1>2
  <2>2. (k - 1) * step < first
    BY <2>1, CeilDivIs
  <2>3. (k - 1) * step \in Nat
    BY <2>1
  <2> QED BY <2>2, <2>3
<1>3. Down(first, step) \in [1 .. CeilDiv(first, step) -> 1 .. first]
  BY <1>2 DEF Down
<1> QED BY <1>1, <1>3

-----------------------------------------------------------------------------
(* Reachability, delays and resources.                                      *)

\* the numbers of hops up to n
Hops(f, n) ==
    f = [m \in 0 .. n |->
            [g \in Gnbs |-> IF m = 0 THEN {g} ELSE f[m - 1][g] \cup UNION {Links[h] : h \in f[m - 1][g]}]]

LEMMA HopsExist ==
  ASSUME NEW N \in Nat
  PROVE  \E f : Hops(f, N)
<1> DEFINE Good == {n \in 0 .. N : \E f : Hops(f, n)}
           step(r) == [g \in Gnbs |-> r[g] \cup UNION {Links[h] : h \in r[g]}]
<1>0. N \in Nat
  OBVIOUS
<1>1. 0 \in Good
  <2> DEFINE e == [m \in 0 .. 0 |-> [g \in Gnbs |-> {g}]]
  <2>1. e = [m \in 0 .. 0 |->
              [g \in Gnbs |-> IF m = 0 THEN {g} ELSE e[m - 1][g] \cup UNION {Links[h] : h \in e[m - 1][g]}]]
    OBVIOUS
  <2> HIDE DEF e
  <2>2. Hops(e, 0) /\ 0 \in 0 .. N
    BY <2>1 DEF Hops
  <2> QED BY <2>2
<1>2. ASSUME NEW n \in 0 .. N, n # N, n \in Good PROVE n + 1 \in Good
  <2>1. PICK f : Hops(f, n)
    BY <1>2
  <2>2. \A m \in 0 .. n : f[m] = IF m = 0 THEN [g \in Gnbs |-> {g}] ELSE step(f[m - 1])
    BY <2>1 DEF Hops
  <2> DEFINE k == [m \in 0 .. n + 1 |-> IF m \in 0 .. n THEN f[m] ELSE step(f[n])]
  <2>3. ASSUME NEW m \in 0 .. n + 1
        PROVE  k[m] = IF m = 0 THEN [g \in Gnbs |-> {g}] ELSE step(k[m - 1])
    <3> HIDE DEF step
    <3>1. CASE m \in 0 .. n
      <4>1. k[m] = f[m]
        BY <3>1
      <4>2. m # 0 => m - 1 \in 0 .. n /\ m - 1 \in 0 .. n + 1 /\ k[m - 1] = f[m - 1]
        BY <3>1
      <4> HIDE DEF k
      <4> QED BY <4>1, <4>2, <2>2, <3>1
    <3>2. CASE m \notin 0 .. n
      <4>1. m = n + 1 /\ m # 0 /\ m - 1 = n /\ n \in 0 .. n /\ n \in 0 .. n + 1
        BY <3>2
      <4>2. k[m] = step(f[n]) /\ k[m - 1] = f[n]
        BY <3>2, <4>1
      <4> HIDE DEF k
      <4> QED BY <4>1, <4>2
    <3> QED BY <3>1, <3>2
  <2>4. k = [m \in 0 .. n + 1 |-> k[m]]
    OBVIOUS
  <2> HIDE DEF k
  <2>5. k = [m \in 0 .. n + 1 |->
              [g \in Gnbs |-> IF m = 0 THEN {g} ELSE k[m - 1][g] \cup UNION {Links[h] : h \in k[m - 1][g]}]]
    <3>1. ASSUME NEW m \in 0 .. n + 1
          PROVE  k[m] = [g \in Gnbs |-> IF m = 0 THEN {g}
                                        ELSE k[m - 1][g] \cup UNION {Links[h] : h \in k[m - 1][g]}]
      <4>1. CASE m = 0
        BY <2>3, <4>1
      <4>2. CASE m # 0
        BY <2>3, <4>2
      <4> QED BY <4>1, <4>2
    <3> QED BY <2>4, <3>1
  <2>6. Hops(k, n + 1)
    BY <2>5 DEF Hops
  <2>7. n + 1 \in 0 .. N
    BY <1>2
  <2> QED BY <2>6, <2>7
<1> HIDE DEF Good
<1>3. \A n \in 0 .. N : n \in Good
  <2>1. \A n \in 0 .. N : n # N /\ n \in Good => n + 1 \in Good
    BY <1>2
  <2> QED BY <1>0, <1>1, <2>1, UpTo
<1>4. N \in Good
  BY <1>0, <1>3
<1> QED BY <1>4 DEF Good

\* a gNB is reached in no hop from itself, and what is reached are gNBs
LEMMA ReachedIs ==
  /\ \A n \in 0 .. MaxHops : \A g \in Gnbs : Reached[n][g] \subseteq Gnbs
  /\ \A g \in Gnbs : Reached[0][g] = {g}
<1>0. MaxHops \in Nat /\ Links \in [Gnbs -> SUBSET Gnbs]
  BY SchemesAssumption
<1>1. PICK f : Hops(f, MaxHops)
  BY <1>0, HopsExist, SMTT(60)
<1>2. f = [m \in 0 .. MaxHops |->
            [g \in Gnbs |-> IF m = 0 THEN {g} ELSE f[m - 1][g] \cup UNION {Links[h] : h \in f[m - 1][g]}]]
  BY <1>1, Zenon DEF Hops
<1>3. Reached = [m \in 0 .. MaxHops |->
            [g \in Gnbs |-> IF m = 0 THEN {g} ELSE Reached[m - 1][g] \cup UNION {Links[h] : h \in Reached[m - 1][g]}]]
  BY <1>2, Zenon DEF Reached
<1>4. \A g \in Gnbs : Reached[0][g] = {g}
  BY <1>0, <1>3
<1> DEFINE Good == {n \in 0 .. MaxHops : \A g \in Gnbs : Reached[n][g] \subseteq Gnbs}
<1>5. ASSUME NEW n \in 0 .. MaxHops, n # MaxHops, n \in Good PROVE n + 1 \in Good
  <2>1. n + 1 \in 0 .. MaxHops /\ n + 1 # 0 /\ (n + 1) - 1 = n
    BY <1>0, <1>5
  <2>2. ASSUME NEW g \in Gnbs PROVE Reached[n + 1][g] \subseteq Gnbs
    <3>1. Reached[n + 1][g] = Reached[n][g] \cup UNION {Links[h] : h \in Reached[n][g]}
      BY <1>3, <2>1
    <3>2. Reached[n][g] \subseteq Gnbs
      BY <1>5
    <3>3. \A h \in Reached[n][g] : Links[h] \subseteq Gnbs
      BY <1>0, <3>2
    <3> QED BY <3>1, <3>2, <3>3
  <2> QED BY <2>1, <2>2
<1>6. 0 \in Good
  BY <1>0, <1>4
<1> HIDE DEF Good
<1>7. \A n \in 0 .. MaxHops : n \in Good
  <2>1. \A n \in 0 .. MaxHops : n # MaxHops /\ n \in Good => n + 1 \in Good
    BY <1>5
  <2> QED BY <1>0, <1>6, <2>1, UpTo
<1> QED BY <1>4, <1>7 DEF Good

LEMMA HopCountTyped ==
  ASSUME NEW g \in Gnbs, NEW h \in ReachableRsus(g)
  PROVE  h \in Gnbs /\ HopCount(g, h) \in Nat
<1>1. MaxHops \in 0 .. MaxHops /\ h \in Reached[MaxHops][g]
  BY SchemesAssumption DEF ReachableRsus
<1>2. h \in Gnbs
  BY <1>1, ReachedIs
<1> DEFINE S == {n \in 0 .. MaxHops : h \in Reached[n][g]}
<1>3. S \subseteq Nat /\ S # {}
  BY <1>1
<1>4. HopCount(g, h) = Min(S)
  BY DEF HopCount
<1> HIDE DEF S
<1>5. \E n \in S : \A k \in S : n <= k
  BY <1>3, LeastNatural
<1>6. Min(S) \in S
  BY <1>5 DEF Min
<1> QED BY <1>2, <1>3, <1>4, <1>6

LEMMA NoHop ==
  ASSUME NEW g \in Gnbs
  PROVE  HopCount(g, g) = 0
<1> DEFINE S == {n \in 0 .. MaxHops : g \in Reached[n][g]}
<1>1. 0 \in S /\ S \subseteq Nat
  BY ReachedIs, SchemesAssumption
<1>2. HopCount(g, g) = Min(S)
  BY DEF HopCount
<1> HIDE DEF S
<1>3. \A k \in S : 0 <= k
  BY <1>1
<1>4. Min(S) \in S /\ \A k \in S : Min(S) <= k
  BY <1>1, <1>3 DEF Min
<1>5. Min(S) \in Nat /\ Min(S) <= 0
  BY <1>1, <1>4
<1> QED BY <1>2, <1>5

\* the fields of an application and of a problem
LEMMA AppFields ==
  ASSUME NEW a \in Apps
  PROVE  /\ App[a].size \in Nat \ {0} /\ App[a].link \in Nat /\ App[a].period \in Nat \ {0}
         /\ App[a].service \in Services
         /\ App[a].accuracy \in Nat /\ App[a].energy \in Nat /\ App[a].power \in Nat
         /\ UeOf[a] \in Ues
         /\ Scale \div App[a].period \in Nat
<1>1. App[a] \in AppRecord
  BY SchemesAssumption
<1>2. App[a].period \in Nat \ {0} /\ Scale \in Nat
  BY <1>1, SchemesAssumption DEF AppRecord
<1> QED BY <1>1, <1>2, MecTypesAssumption DEF AppRecord

InputType == [apps : SUBSET Apps, rate : [Ues -> [Gnbs -> Nat]],
              rbs : [Gnbs -> Nat], cus : [Gnbs -> Nat], fair : Shares]

LEMMA InputFields ==
  ASSUME NEW p \in InputType, NEW g \in Gnbs
  PROVE  /\ p.apps \subseteq Apps /\ p.rbs[g] \in Nat /\ p.cus[g] \in Nat
         /\ FairRBs(p, g) \in Nat /\ FairRBs(p, g) <= p.rbs[g]
         /\ FairCUs(p, g) \in Nat /\ FairCUs(p, g) <= p.cus[g]
         /\ \A a \in Apps : p.rate[UeOf[a]][g] \in Nat
<1>1. p.apps \subseteq Apps /\ p.rbs[g] \in Nat /\ p.cus[g] \in Nat
  BY DEF InputType
<1>2. \A a \in Apps : p.rate[UeOf[a]][g] \in Nat
  BY MecTypesAssumption DEF InputType
<1>3. (p.fair[1] = 1 /\ p.fair[2] = 1) \/ (p.fair[1] = 1 /\ p.fair[2] = 2)
  BY DEF InputType, Shares
<1>4. ASSUME NEW n \in Nat
      PROVE  (n * p.fair[1]) \div p.fair[2] \in Nat /\ (n * p.fair[1]) \div p.fair[2] <= n
  <2>1. n * 1 = n /\ n \div 1 = n /\ n \div 2 \in Nat /\ n \div 2 <= n
    OBVIOUS
  <2> QED BY <1>3, <2>1
<1> QED BY <1>1, <1>2, <1>4 DEF FairRBs, FairCUs

-----------------------------------------------------------------------------
(* Instances that serve an application.                                     *)

UtilityIn(s, p, a, off, rb, srv) ==
    IF s \in Energy THEN EnergyUtility(a, OffloadDelay(p, a, off, rb)) ELSE AccuracyUtility(a, srv)
InTime(p, a, off, pro, rb, cu, srv) ==
    OffloadDelay(p, a, off, rb) + ForwardingDelay(a, off, pro) + ExeDelay(srv, cu) + Overhead
        <= App[a].period
InTimeInParts(p, a, off, pro, rb, cu, srv) ==
    App[a].size * Tti <= (App[a].period - Overhead - ForwardingDelay(a, off, pro) - ExeDelay(srv, cu))
                         * rb * p.rate[UeOf[a]][off]
Timely(s, p, a, off, pro, rb, cu, srv) ==
    IF s \in InParts THEN InTimeInParts(p, a, off, pro, rb, cu, srv)
    ELSE InTime(p, a, off, pro, rb, cu, srv)
PathIn(s, off, pro) == IF s \in Forwarding THEN pro \in ReachableRsus(off) ELSE pro = off

\* what scheme s may give an application of a gNB
RBShare(s, p, g) == IF s \in Unshared THEN p.rbs[g] ELSE FairRBs(p, g)
CUShare(s, p, g) == IF s \in Unshared THEN p.cus[g] ELSE FairCUs(p, g)

\* what scheme s may serve an application with for the input p
InstanceType == [app : Apps, off : Gnbs, pro : Gnbs, rb : Nat \ {0}, cu : Nat \ {0},
                 srv : Services, value : Nat \ {0}, gain : Int]
Serving(s, p) ==
    {i \in InstanceType :
        /\ i.app \in p.apps /\ i.off \in VehAccessRsus(p, i.app) /\ PathIn(s, i.off, i.pro)
        /\ i.rb <= RBShare(s, p, i.off) /\ i.cu <= CUShare(s, p, i.pro)
        /\ Timely(s, p, i.app, i.off, i.pro, i.rb, i.cu, i.srv)
        /\ i.value = UtilityIn(s, p, i.app, i.off, i.rb, i.srv)}

LEMMA Numbers ==
  /\ Tti \in Nat \ {0} /\ Overhead \in Nat /\ RbStep \in Nat \ {0} /\ CuStep \in Nat \ {0}
  /\ ResourceSlack \in Nat /\ Scale \in Nat \ {0}
  /\ Services = 1 .. Len(Work) /\ Len(Work) \in Nat
  /\ \A s \in Services : Work[s] \in Nat \ {0} /\ Accuracy[s] \in Nat
  /\ IsFiniteSet(Gnbs) /\ Gnbs \subseteq Nat \ {0}
<1>1. Work \in Seq(Nat \ {0}) /\ IsFiniteSet(Gnbs) /\ Gnbs = 1 .. Cardinality(Gnbs)
  BY SchemesAssumption
<1>2. Services = 1 .. Len(Work) /\ Len(Work) \in Nat
  BY <1>1 DEF Services
<1>3. Cardinality(Gnbs) \in Nat
  BY <1>1, FS_CardinalityType
<1> QED BY <1>1, <1>2, <1>3, SchemesAssumption DEF Services

\* the delays are numbers, and an offload takes as long as its data need
LEMMA OffloadIs ==
  ASSUME NEW p \in InputType, NEW a \in Apps, NEW g \in VehAccessRsus(p, a), NEW rb \in Nat \ {0}
  PROVE  /\ g \in Gnbs /\ OffloadDelay(p, a, g, rb) \in Nat
         /\ p.rate[UeOf[a]][g] \in Nat \ {0}
         /\ App[a].size * Tti <= OffloadDelay(p, a, g, rb) * (rb * p.rate[UeOf[a]][g])
<1> DEFINE rate == p.rate[UeOf[a]][g]
           size == App[a].size
           q == CeilDiv(size, rate * rb)
<1>1. g \in Gnbs /\ rate \in Nat \ {0}
  BY InputFields DEF VehAccessRsus
<1>2. size \in Nat /\ Tti \in Nat
  BY AppFields, Numbers
<1>3. OffloadDelay(p, a, g, rb) = Tti * q
  BY DEF OffloadDelay
<1> HIDE DEF rate, size
<1>4. rate * rb \in Nat \ {0} /\ rate * rb = rb * rate
  BY <1>1
<1>5. q \in Nat /\ size <= q * (rate * rb)
  BY <1>2, <1>4, CeilDivIs
<1> HIDE DEF q
<1> DEFINE d == rb * rate
<1>6. d \in Nat /\ size <= q * d
  BY <1>4, <1>5
<1> HIDE DEF d
<1>7. q * d \in Nat /\ size * Tti <= (q * d) * Tti /\ (q * d) * Tti = (Tti * q) * d /\ Tti * q \in Nat
  BY <1>2, <1>5, <1>6
<1> QED BY <1>1, <1>3, <1>7 DEF d, rate, size

LEMMA ExeIs ==
  ASSUME NEW s \in Services, NEW cu \in Nat \ {0}
  PROVE  ExeDelay(s, cu) \in Nat
<1>1. Work[s] \in Nat
  BY Numbers
<1> QED BY <1>1 DEF ExeDelay

LEMMA ForwardingIs ==
  ASSUME NEW a \in Apps, NEW off \in Gnbs, NEW pro \in ReachableRsus(off)
  PROVE  pro \in Gnbs /\ ForwardingDelay(a, off, pro) \in Nat
<1>1. App[a].link \in Nat /\ pro \in Gnbs /\ HopCount(off, pro) \in Nat
  BY AppFields, HopCountTyped
<1> QED BY <1>1 DEF ForwardingDelay

LEMMA NoForwarding ==
  ASSUME NEW a \in Apps, NEW g \in Gnbs
  PROVE  ForwardingDelay(a, g, g) = 0
<1>1. App[a].link \in Nat /\ HopCount(g, g) = 0
  BY AppFields, NoHop
<1> QED BY <1>1 DEF ForwardingDelay

\* units that are enough for a threshold keep it
LEMMA EnoughUnits ==
  ASSUME NEW s \in Services, NEW threshold \in Nat \ {0}
  PROVE  /\ MinRequiredCUs(s, threshold) \in Nat \ {0}
         /\ \A cu \in Nat : cu >= MinRequiredCUs(s, threshold) => ExeDelay(s, cu) <= threshold
<1> DEFINE w == Work[s]
           m == MinRequiredCUs(s, threshold)
<1>1. w \in Nat \ {0}
  BY Numbers
<1>2. m = CeilDiv(w, threshold)
  BY DEF MinRequiredCUs
<1> HIDE DEF w
<1>3. m \in Nat \ {0} /\ w <= m * threshold
  BY <1>1, <1>2, CeilDivIs
<1> HIDE DEF m
<1>4. ASSUME NEW cu \in Nat, cu >= m PROVE w \div cu <= threshold
  <2>1. m * threshold <= cu * threshold /\ cu \in Nat \ {0}
    BY <1>3, <1>4
  <2>2. w <= cu * threshold
    BY <1>1, <1>3, <2>1
  <2> DEFINE q == w \div cu
  <2>3. q \in Nat /\ cu * q <= w
    BY <1>1, <2>1
  <2> HIDE DEF q
  <2>4. ASSUME q > threshold PROVE FALSE
    <3>1. q >= threshold + 1
      BY <2>3, <2>4
    <3>2. cu * q >= cu * (threshold + 1) /\ cu * (threshold + 1) = cu * threshold + cu
      BY <2>1, <2>3, <3>1
    <3> QED BY <3>2, <2>1, <2>2, <2>3, <1>1
  <2> QED BY <2>3, <2>4 DEF q
<1> QED BY <1>3, <1>4 DEF m, w, ExeDelay

\* a useful instance is one that serves
LEMMA InstServes ==
  ASSUME NEW p \in InputType, NEW s, NEW a \in p.apps, NEW off \in VehAccessRsus(p, a),
         NEW pro \in Gnbs, PathIn(s, off, pro), NEW srv \in Services,
         NEW rb \in Nat \ {0}, rb <= RBShare(s, p, off), NEW cu \in Nat \ {0}, cu <= CUShare(s, p, pro),
         NEW u, u = UtilityIn(s, p, a, off, rb, srv),
         Timely(s, p, a, off, pro, rb, cu, srv)
  PROVE  IfUseful(Inst(a, off, pro, rb, cu, srv, u)) \in Seq(Serving(s, p))
<1>1. a \in Apps
  BY InputFields DEF InputType
<1>2. off \in Gnbs /\ OffloadDelay(p, a, off, rb) \in Nat
  BY <1>1, OffloadIs
<1>3. u \in Int
  <2> DEFINE k == Scale \div App[a].period
             d == OffloadDelay(p, a, off, rb)
  <2>1. k \in Nat /\ App[a].energy \in Nat /\ App[a].power \in Nat /\ App[a].accuracy \in Nat
        /\ Accuracy[srv] \in Nat /\ d \in Nat
    BY <1>1, <1>2, AppFields, Numbers
  <2>2. u = (App[a].energy - App[a].power * d) * k \/ u = (Accuracy[srv] - App[a].accuracy) * k
    BY DEF UtilityIn, EnergyUtility, AccuracyUtility
  <2> HIDE DEF k, d
  <2> QED BY <2>1, <2>2
<1> DEFINE i == Inst(a, off, pro, rb, cu, srv, u)
<1>4. /\ i.app = a /\ i.off = off /\ i.pro = pro /\ i.rb = rb /\ i.cu = cu /\ i.srv = srv
      /\ i.value = u
  BY DEF Inst
<1>5. ASSUME u > 0 PROVE i \in Serving(s, p)
  <2>1. i \in InstanceType
    BY <1>1, <1>2, <1>3, <1>5 DEF Inst, InstanceType
  <2> HIDE DEF i
  <2> QED BY <2>1, <1>4 DEF Serving
<1> HIDE DEF i
<1>6. IfUseful(i) = IF u > 0 THEN <<i>> ELSE <<>>
  BY <1>4 DEF IfUseful
<1>7. IfUseful(i) \in Seq(Serving(s, p))
  BY <1>5, <1>6
<1> QED BY <1>7 DEF i

-----------------------------------------------------------------------------
(* What the schemes generate.                                               *)

\* the members of a set of gNBs or applications, in their order
LEMMA AscendingTyped ==
  ASSUME NEW S, S \subseteq Gnbs \cup Apps, Apps # {}
  PROVE  Ascending(S) \in Seq(S)
<1> DEFINE U == Gnbs \cup Apps
           m == Max(U)
           seq == Up(1, m, 1)
           body == [k \in DOMAIN seq |-> IF seq[k] \notin S THEN <<>> ELSE <<seq[k]>>]
<1>1. U \subseteq Nat /\ IsFiniteSet(U) /\ U # {}
  <2>1. Apps \subseteq Nat /\ IsFiniteSet(Apps)
    BY MecTypesAssumption, FS_Interval DEF Apps
  <2> QED BY <2>1, Numbers, FS_Union
<1>2. m \in Nat
  <2> HIDE DEF U
  <2>1. \E x \in U : \A y \in U : x >= y
    BY <1>1, GreatestNatural
  <2>2. m \in U
    BY <2>1 DEF Max
  <2> QED BY <1>1, <2>2
<1> HIDE DEF U, m
<1>3. seq \in Seq(Between(1, m))
  <2>1. 1 \in Nat /\ m \in Int /\ 1 \in Nat \ {0}
    BY <1>2
  <2> QED BY <2>1, UpTyped
<1> HIDE DEF seq
<1>4. FlattenSeq(body) \in Seq(S)
  <2>1. \A k \in DOMAIN seq : body[k] \in Seq(S)
    OBVIOUS
  <2>2. body = [k \in DOMAIN seq |-> body[k]]
    OBVIOUS
  <2> HIDE DEF body
  <2> QED BY <1>3, <2>1, <2>2, FlattenLoop
<1>5. Ascending(S) = FlattenSeq(body)
  BY DEF Ascending, Skipping, Loop, seq, m, U
<1> QED BY <1>4, <1>5

LEMMA GreedyServes ==
  ASSUME NEW p \in InputType, NEW s \in Unshared, Apps # {}
  PROVE  SchemeGreedyInstances(p) \in Seq(Serving(s, p))
<1> DEFINE S == Serving(s, p)
           Late(a, g, cu) == ExeDelay(App[a].service, cu) + Overhead >= App[a].period
           Later(a, g, cu, rb) ==
              OffloadDelay(p, a, g, rb) + ExeDelay(App[a].service, cu) + Overhead > App[a].period
           One(a, g, cu, rb) == IfUseful(Inst(a, g, g, rb, cu, App[a].service,
                                              EnergyUtility(a, OffloadDelay(p, a, g, rb))))
           Bands(a, g, cu) == UntilBreak(Down(p.rbs[g], RbStep), LAMBDA rb : Later(a, g, cu, rb))
           WithUnits(a, g, cu) == Loop(Bands(a, g, cu), LAMBDA rb : One(a, g, cu, rb))
           Units(a, g) == UntilBreak(Down(p.cus[g], CuStep), LAMBDA cu : Late(a, g, cu))
           AtGnb(a, g) == Loop(Units(a, g), LAMBDA cu : WithUnits(a, g, cu))
           OfApp(a) == Loop(Ascending(VehAccessRsus(p, a)), LAMBDA g : AtGnb(a, g))
<1>1. s \in Energy /\ s \notin Forwarding /\ s \notin InParts
  BY DEF Unshared, Energy, Forwarding, InParts, Matching
<1>2. p.apps \subseteq Apps /\ \A a \in p.apps : VehAccessRsus(p, a) \subseteq Gnbs
  BY DEF InputType, VehAccessRsus
<1>3. ASSUME NEW a \in p.apps, NEW g \in VehAccessRsus(p, a)
      PROVE  AtGnb(a, g) \in Seq(S)
  <2>1. g \in Gnbs /\ p.rbs[g] \in Nat /\ p.cus[g] \in Nat /\ a \in Apps /\ App[a].service \in Services
        /\ RBShare(s, p, g) = p.rbs[g] /\ CUShare(s, p, g) = p.cus[g]
    BY <1>2, InputFields, AppFields DEF RBShare, CUShare
  <2>2. ASSUME NEW cu \in 1 .. p.cus[g] PROVE WithUnits(a, g, cu) \in Seq(S)
    <3>0. cu \in Nat \ {0} /\ cu <= CUShare(s, p, g)
      BY <2>1
    <3> DEFINE T == {rb \in 1 .. p.rbs[g] : ~Later(a, g, cu, rb)}
               seq == Down(p.rbs[g], RbStep)
               stops == {k \in DOMAIN seq : Later(a, g, cu, seq[k])}
    <3>1. seq \in Seq(1 .. p.rbs[g])
      BY <2>1, Numbers, DownTyped
    <3>2. Bands(a, g, cu) \in Seq(T)
      <4>1. Bands(a, g, cu) = IF stops = {} THEN seq ELSE SubSeq(seq, 1, Min(stops) - 1)
        BY DEF UntilBreak
      <4>2. stops \subseteq DOMAIN seq /\ \A k \in DOMAIN seq : k \notin stops => seq[k] \in T
        <5> HIDE DEF seq, Later
        <5>1. \A k \in DOMAIN seq : seq[k] \in 1 .. p.rbs[g]
          BY <3>1, MemberOf
        <5> QED BY <5>1
      <4> HIDE DEF stops, seq, T, Bands
      <4>3. (IF stops = {} THEN seq ELSE SubSeq(seq, 1, Min(stops) - 1)) \in Seq(T)
        BY <3>1, <4>2, CutTyped
      <4> QED BY <4>1, <4>3
    <3>3. ASSUME NEW rb \in T PROVE One(a, g, cu, rb) \in Seq(S)
      <4>1. rb \in Nat \ {0} /\ rb <= RBShare(s, p, g) /\ ~Later(a, g, cu, rb)
        BY <2>1
      <4>2. OffloadDelay(p, a, g, rb) \in Nat /\ ForwardingDelay(a, g, g) = 0
            /\ ExeDelay(App[a].service, cu) \in Nat /\ Overhead \in Nat /\ App[a].period \in Nat
        BY <2>1, <3>0, <4>1, OffloadIs, NoForwarding, ExeIs, Numbers, AppFields
      <4>3. Timely(s, p, a, g, g, rb, cu, App[a].service)
        BY <1>1, <4>1, <4>2 DEF Timely, InTime
      <4>4. PathIn(s, g, g)
        BY <1>1 DEF PathIn
      <4>5. EnergyUtility(a, OffloadDelay(p, a, g, rb)) = UtilityIn(s, p, a, g, rb, App[a].service)
        BY <1>1 DEF UtilityIn
      <4> HIDE DEF T, Later
      <4> QED BY <2>1, <3>0, <4>1, <4>3, <4>4, <4>5, InstServes
    <3>4. WithUnits(a, g, cu) \in Seq(S)
      <4> HIDE DEF Bands, One, T, S
      <4> DEFINE f == [k \in DOMAIN Bands(a, g, cu) |-> One(a, g, cu, Bands(a, g, cu)[k])]
      <4>1. \A k \in DOMAIN Bands(a, g, cu) : f[k] \in Seq(S)
        BY <3>2, <3>3
      <4>2. f = [k \in DOMAIN Bands(a, g, cu) |-> f[k]] /\ WithUnits(a, g, cu) = FlattenSeq(f)
        BY DEF Loop
      <4> HIDE DEF f
      <4> QED BY <3>2, <4>1, <4>2, FlattenLoop
    <3> QED BY <3>4
  <2>3. Units(a, g) \in Seq(1 .. p.cus[g])
    <3> DEFINE seq == Down(p.cus[g], CuStep)
               stops == {k \in DOMAIN seq : Late(a, g, seq[k])}
    <3>1. seq \in Seq(1 .. p.cus[g])
      BY <2>1, Numbers, DownTyped
    <3>2. Units(a, g) = IF stops = {} THEN seq ELSE SubSeq(seq, 1, Min(stops) - 1)
      BY DEF UntilBreak
    <3>3. stops \subseteq DOMAIN seq /\ \A k \in DOMAIN seq : k \notin stops => seq[k] \in 1 .. p.cus[g]
      <4> HIDE DEF seq, Late
      <4> QED BY <3>1, MemberOf
    <3> HIDE DEF stops, seq, Units
    <3>4. (IF stops = {} THEN seq ELSE SubSeq(seq, 1, Min(stops) - 1)) \in Seq(1 .. p.cus[g])
      BY <3>1, <3>3, CutTyped
    <3> QED BY <3>2, <3>4
  <2> HIDE DEF Units, WithUnits, S
  <2> DEFINE f == [k \in DOMAIN Units(a, g) |-> WithUnits(a, g, Units(a, g)[k])]
  <2>4. \A k \in DOMAIN Units(a, g) : f[k] \in Seq(S)
    <3>1. \A k \in DOMAIN Units(a, g) : Units(a, g)[k] \in 1 .. p.cus[g]
      BY <2>3, MemberOf
    <3> QED BY <2>2, <3>1
  <2>5. f = [k \in DOMAIN Units(a, g) |-> f[k]] /\ AtGnb(a, g) = FlattenSeq(f)
    BY DEF Loop
  <2> HIDE DEF f
  <2> QED BY <2>3, <2>4, <2>5, FlattenLoop
<1>4. ASSUME NEW a \in p.apps PROVE OfApp(a) \in Seq(S)
  <2> HIDE DEF AtGnb, S
  <2> DEFINE seq == Ascending(VehAccessRsus(p, a))
             f == [k \in DOMAIN seq |-> AtGnb(a, seq[k])]
  <2>1. seq \in Seq(VehAccessRsus(p, a))
    BY <1>2, AscendingTyped
  <2>2. OfApp(a) = FlattenSeq(f)
    BY DEF Loop
  <2> HIDE DEF seq
  <2>3. \A k \in DOMAIN seq : f[k] \in Seq(S)
    BY <1>3, <2>1
  <2>4. f = [k \in DOMAIN seq |-> f[k]]
    OBVIOUS
  <2> HIDE DEF f
  <2> QED BY <2>1, <2>2, <2>3, <2>4, FlattenLoop
<1>5. Loop(Ascending(p.apps), OfApp) \in Seq(S)
  <2> HIDE DEF OfApp, S
  <2> DEFINE seq == Ascending(p.apps)
             f == [k \in DOMAIN seq |-> OfApp(seq[k])]
  <2>1. seq \in Seq(p.apps)
    BY <1>2, AscendingTyped
  <2>2. Loop(Ascending(p.apps), OfApp) = FlattenSeq(f)
    BY DEF Loop
  <2> HIDE DEF seq
  <2>3. \A k \in DOMAIN seq : f[k] \in Seq(S)
    BY <1>4, <2>1
  <2>4. f = [k \in DOMAIN seq |-> f[k]]
    OBVIOUS
  <2> HIDE DEF f
  <2> QED BY <2>1, <2>2, <2>3, <2>4, FlattenLoop
<1>6. SchemeGreedyInstances(p) = Loop(Ascending(p.apps), OfApp)
  BY DEF SchemeGreedyInstances
<1> QED BY <1>5, <1>6

\* bands and units in decreasing order, forwarded to any gNB in reach
LEMMA FwdGreedyServes ==
  ASSUME NEW p \in InputType, NEW s \in (Energy \cap Forwarding) \ InParts, Apps # {}
  PROVE  SchemeFwdGreedyInstances(p) \in Seq(Serving(s, p))
<1> DEFINE S == Serving(s, p)
           Delay(a, off, rb) == OffloadDelay(p, a, off, rb) + Overhead
           Late(a, off, rb) == Delay(a, off, rb) > App[a].period
           Far(a, off, rb, pro) == ForwardingDelay(a, off, pro) + Delay(a, off, rb) > App[a].period
           Slow(a, off, rb, pro, cu) ==
              Delay(a, off, rb) + ForwardingDelay(a, off, pro) + ExeDelay(App[a].service, cu) > App[a].period
           One(a, off, rb, pro, cu) == IfUseful(Inst(a, off, pro, rb, cu, App[a].service,
                                                     EnergyUtility(a, OffloadDelay(p, a, off, rb))))
           Units(a, off, rb, pro) ==
              UntilBreak(Down(FairCUs(p, pro), CuStep), LAMBDA cu : Slow(a, off, rb, pro, cu))
           AtPro(a, off, rb, pro) == Loop(Units(a, off, rb, pro), LAMBDA cu : One(a, off, rb, pro, cu))
           Pros(a, off, rb) == Skipping(Ascending(ReachableRsus(off)), LAMBDA pro : Far(a, off, rb, pro))
           WithBands(a, off, rb) == Loop(Pros(a, off, rb), LAMBDA pro : AtPro(a, off, rb, pro))
           Bands(a, off) == UntilBreak(Down(FairRBs(p, off), RbStep), LAMBDA rb : Late(a, off, rb))
           AtGnb(a, off) == Loop(Bands(a, off), LAMBDA rb : WithBands(a, off, rb))
           OfApp(a) == Loop(Ascending(VehAccessRsus(p, a)), LAMBDA off : AtGnb(a, off))
<1>1. s \in Energy /\ s \in Forwarding /\ s \notin InParts /\ s \notin Unshared
  BY DEF Unshared, Forwarding, Matching
<1>2. p.apps \subseteq Apps /\ \A a \in p.apps : VehAccessRsus(p, a) \subseteq Gnbs
  BY DEF InputType, VehAccessRsus
<1>3. \A g \in Gnbs : ReachableRsus(g) \subseteq Gnbs
  BY HopCountTyped
<1>4. ASSUME NEW a \in p.apps, NEW off \in VehAccessRsus(p, a)
      PROVE  AtGnb(a, off) \in Seq(S)
  <2>1. off \in Gnbs /\ FairRBs(p, off) \in Nat /\ FairRBs(p, off) = RBShare(s, p, off)
        /\ a \in Apps /\ App[a].service \in Services
    BY <1>1, <1>2, InputFields, AppFields DEF RBShare
  <2>2. ASSUME NEW rb \in 1 .. FairRBs(p, off), NEW pro \in ReachableRsus(off) PROVE AtPro(a, off, rb, pro) \in Seq(S)
    <3>1. rb \in Nat \ {0} /\ rb <= RBShare(s, p, off)
      BY <2>1
    <3>2. pro \in Gnbs /\ FairCUs(p, pro) \in Nat /\ FairCUs(p, pro) = CUShare(s, p, pro)
      BY <1>1, <1>3, <2>1, InputFields DEF CUShare
    <3> DEFINE T == {cu \in 1 .. FairCUs(p, pro) : ~Slow(a, off, rb, pro, cu)}
    <3>3. ASSUME NEW cu \in T PROVE One(a, off, rb, pro, cu) \in Seq(S)
      <4>1. cu \in Nat \ {0} /\ cu <= CUShare(s, p, pro) /\ ~Slow(a, off, rb, pro, cu)
        BY <3>2
      <4>2. OffloadDelay(p, a, off, rb) \in Nat /\ ForwardingDelay(a, off, pro) \in Nat
            /\ ExeDelay(App[a].service, cu) \in Nat /\ Overhead \in Nat /\ App[a].period \in Nat
        BY <2>1, <3>1, <4>1, OffloadIs, ForwardingIs, ExeIs, Numbers, AppFields
      <4>3. Timely(s, p, a, off, pro, rb, cu, App[a].service)
        BY <1>1, <4>1, <4>2 DEF Timely, InTime
      <4>4. PathIn(s, off, pro)
        BY <1>1 DEF PathIn
      <4>5. EnergyUtility(a, OffloadDelay(p, a, off, rb)) = UtilityIn(s, p, a, off, rb, App[a].service)
        BY <1>1 DEF UtilityIn
      <4> HIDE DEF T, Slow
      <4> QED BY <2>1, <3>1, <3>2, <4>1, <4>3, <4>4, <4>5, InstServes
    <3>4. Units(a, off, rb, pro) \in Seq(T)
      <4> DEFINE seq   == Down(FairCUs(p, pro), CuStep)
                 stops == {k \in DOMAIN seq : Slow(a, off, rb, pro, seq[k])}
      <4>1. seq \in Seq(1 .. FairCUs(p, pro))
        BY <3>2, Numbers, DownTyped
      <4>2. Units(a, off, rb, pro) = IF stops = {} THEN seq ELSE SubSeq(seq, 1, Min(stops) - 1)
        BY DEF UntilBreak
      <4> HIDE DEF Slow, Units, seq
      <4>3. stops \subseteq DOMAIN seq /\ \A k \in DOMAIN seq : k \notin stops => seq[k] \in T
        BY <4>1, MemberOf
      <4> HIDE DEF stops, T
      <4>4. (IF stops = {} THEN seq ELSE SubSeq(seq, 1, Min(stops) - 1)) \in Seq(T)
        BY <4>1, <4>3, CutTyped
      <4> QED BY <4>2, <4>4
    <3>5. AtPro(a, off, rb, pro) \in Seq(S)
      <4> HIDE DEF Units, One, T, S
      <4> DEFINE seq == Units(a, off, rb, pro)
                 f   == [k \in DOMAIN seq |-> One(a, off, rb, pro, seq[k])]
      <4>1. seq \in Seq(T)
        BY <3>4
      <4>2. AtPro(a, off, rb, pro) = FlattenSeq(f)
        BY DEF Loop
      <4> HIDE DEF seq
      <4>3. \A k \in DOMAIN seq : f[k] \in Seq(S)
        <5>1. \A k \in DOMAIN seq : seq[k] \in T
          BY <4>1, MemberOf
        <5> QED BY <5>1, <3>3
      <4>4. f = [k \in DOMAIN seq |-> f[k]]
        OBVIOUS
      <4> HIDE DEF f
      <4> QED BY <4>1, <4>2, <4>3, <4>4, FlattenLoop
    <3> QED BY <3>5
  <2>3. ASSUME NEW rb \in 1 .. FairRBs(p, off) PROVE WithBands(a, off, rb) \in Seq(S)
    <3> DEFINE R == {pro \in ReachableRsus(off) : ~Far(a, off, rb, pro)}
    <3>1. ReachableRsus(off) \subseteq Gnbs \cup Apps
      BY <1>3, <2>1
    <3>2. Pros(a, off, rb) \in Seq(R)
      <4> DEFINE seq == Ascending(ReachableRsus(off))
                 f   == [k \in DOMAIN seq |-> IF Far(a, off, rb, seq[k]) THEN <<>> ELSE <<seq[k]>>]
      <4>1. seq \in Seq(ReachableRsus(off))
        BY <3>1, AscendingTyped
      <4>2. Pros(a, off, rb) = FlattenSeq(f)
        BY DEF Skipping, Loop
      <4> HIDE DEF Far, Pros, seq
      <4>3. ASSUME NEW k \in DOMAIN seq PROVE f[k] \in Seq(R)
        <5>1. seq[k] \in ReachableRsus(off)
          BY <4>1, MemberOf
        <5>2. CASE Far(a, off, rb, seq[k])
          <6>1. f[k] = <<>>
            BY <5>2
          <6> HIDE DEF f
          <6> QED BY <6>1
        <5>3. CASE ~Far(a, off, rb, seq[k])
          <6>1. f[k] = <<seq[k]>> /\ seq[k] \in R
            BY <5>1, <5>3
          <6> HIDE DEF f, R
          <6> QED BY <6>1
        <5> QED BY <5>2, <5>3
      <4>4. f = [k \in DOMAIN seq |-> f[k]]
        OBVIOUS
      <4> HIDE DEF f, R
      <4> QED BY <4>1, <4>2, <4>3, <4>4, FlattenLoop
    <3>3. WithBands(a, off, rb) \in Seq(S)
      <4> HIDE DEF Pros, AtPro, S
      <4> DEFINE seq == Pros(a, off, rb)
                 f   == [k \in DOMAIN seq |-> AtPro(a, off, rb, seq[k])]
      <4>1. seq \in Seq(R)
        BY <3>2
      <4>2. WithBands(a, off, rb) = FlattenSeq(f)
        BY DEF Loop
      <4> HIDE DEF seq
      <4>3. \A k \in DOMAIN seq : f[k] \in Seq(S)
        <5>1. \A k \in DOMAIN seq : seq[k] \in R
          BY <4>1, MemberOf
        <5> QED BY <5>1, <2>2
      <4>4. f = [k \in DOMAIN seq |-> f[k]]
        OBVIOUS
      <4> HIDE DEF f
      <4> QED BY <4>1, <4>2, <4>3, <4>4, FlattenLoop
    <3> QED BY <3>3
  <2> DEFINE B == {rb \in 1 .. FairRBs(p, off) : ~Late(a, off, rb)}
  <2>4. Bands(a, off) \in Seq(B)
    <3> DEFINE seq   == Down(FairRBs(p, off), RbStep)
               stops == {k \in DOMAIN seq : Late(a, off, seq[k])}
    <3>1. seq \in Seq(1 .. FairRBs(p, off))
      BY <2>1, Numbers, DownTyped
    <3>2. Bands(a, off) = IF stops = {} THEN seq ELSE SubSeq(seq, 1, Min(stops) - 1)
      BY DEF UntilBreak
    <3> HIDE DEF Late, Bands, seq
    <3>3. stops \subseteq DOMAIN seq /\ \A k \in DOMAIN seq : k \notin stops => seq[k] \in B
      BY <3>1, MemberOf
    <3> HIDE DEF stops, B
    <3>4. (IF stops = {} THEN seq ELSE SubSeq(seq, 1, Min(stops) - 1)) \in Seq(B)
      BY <3>1, <3>3, CutTyped
    <3> QED BY <3>2, <3>4
  <2>5. AtGnb(a, off) \in Seq(S)
    <3> HIDE DEF Bands, WithBands, S
    <3> DEFINE seq == Bands(a, off)
               f   == [k \in DOMAIN seq |-> WithBands(a, off, seq[k])]
    <3>1. seq \in Seq(B)
      BY <2>4
    <3>2. AtGnb(a, off) = FlattenSeq(f)
      BY DEF Loop
    <3> HIDE DEF seq
    <3>3. \A k \in DOMAIN seq : f[k] \in Seq(S)
      <4>1. \A k \in DOMAIN seq : seq[k] \in B
        BY <3>1, MemberOf
      <4> QED BY <4>1, <2>3
    <3>4. f = [k \in DOMAIN seq |-> f[k]]
      OBVIOUS
    <3> HIDE DEF f
    <3> QED BY <3>1, <3>2, <3>3, <3>4, FlattenLoop
  <2> QED BY <2>5
<1>5. ASSUME NEW a \in p.apps PROVE OfApp(a) \in Seq(S)
  <2>1. OfApp(a) \in Seq(S)
    <3> HIDE DEF AtGnb, S
    <3> DEFINE seq == Ascending(VehAccessRsus(p, a))
               f   == [k \in DOMAIN seq |-> AtGnb(a, seq[k])]
    <3>1. seq \in Seq(VehAccessRsus(p, a))
      BY <1>2, AscendingTyped
    <3>2. OfApp(a) = FlattenSeq(f)
      BY DEF Loop
    <3> HIDE DEF seq
    <3>3. \A k \in DOMAIN seq : f[k] \in Seq(S)
      <4>1. \A k \in DOMAIN seq : seq[k] \in VehAccessRsus(p, a)
        BY <3>1, MemberOf
      <4> QED BY <4>1, <1>4
    <3>4. f = [k \in DOMAIN seq |-> f[k]]
      OBVIOUS
    <3> HIDE DEF f
    <3> QED BY <3>1, <3>2, <3>3, <3>4, FlattenLoop
  <2> QED BY <2>1
<1>6. Loop(Ascending(p.apps), OfApp) \in Seq(S)
  <2> HIDE DEF OfApp, S
  <2> DEFINE seq == Ascending(p.apps)
             f   == [k \in DOMAIN seq |-> OfApp(seq[k])]
  <2>1. seq \in Seq(p.apps)
    BY <1>2, AscendingTyped
  <2>2. Loop(Ascending(p.apps), OfApp) = FlattenSeq(f)
    BY DEF Loop
  <2> HIDE DEF seq
  <2>3. \A k \in DOMAIN seq : f[k] \in Seq(S)
    <3>1. \A k \in DOMAIN seq : seq[k] \in p.apps
      BY <2>1, MemberOf
    <3> QED BY <3>1, <1>5
  <2>4. f = [k \in DOMAIN seq |-> f[k]]
    OBVIOUS
  <2> HIDE DEF f
  <2> QED BY <2>1, <2>2, <2>3, <2>4, FlattenLoop
<1>7. SchemeFwdGreedyInstances(p) = Loop(Ascending(p.apps), OfApp)
  BY DEF SchemeFwdGreedyInstances
<1> QED BY <1>6, <1>7

\* any number of bands, and a few numbers of units from the smallest that will do
LEMMA AccuracyServes ==
  ASSUME NEW p \in InputType, NEW s, s \notin Energy, s \notin InParts,
         NEW forwards, forwards <=> s \in Forwarding, Apps # {}
  PROVE  AccuracyInstances(p, forwards) \in Seq(Serving(s, p))
<1> DEFINE S == Serving(s, p)
           Delay(a, off, pro, rb) == OffloadDelay(p, a, off, rb) + ForwardingDelay(a, off, pro) + Overhead
           Late(a, off, pro, rb) == Delay(a, off, pro, rb) >= App[a].period
           Least(a, off, pro, rb, srv) == MinRequiredCUs(srv, App[a].period - Delay(a, off, pro, rb))
           Most(a, off, pro, rb, srv) ==
              Min({Least(a, off, pro, rb, srv) + ResourceSlack, FairCUs(p, pro)})
           One(a, off, pro, rb, srv, cu) == IfUseful(Inst(a, off, pro, rb, cu, srv, AccuracyUtility(a, srv)))
           Units(a, off, pro, rb, srv) ==
              Up(Least(a, off, pro, rb, srv), Most(a, off, pro, rb, srv), CuStep)
           OfService(a, off, pro, rb, srv) ==
              Loop(Units(a, off, pro, rb, srv), LAMBDA cu : One(a, off, pro, rb, srv, cu))
           WithBands(a, off, pro, rb) == Loop(Up(1, Len(Work), 1), LAMBDA srv : OfService(a, off, pro, rb, srv))
           Bands(a, off, pro) == Skipping(Up(1, FairRBs(p, off), RbStep), LAMBDA rb : Late(a, off, pro, rb))
           AtPro(a, off, pro) == Loop(Bands(a, off, pro), LAMBDA rb : WithBands(a, off, pro, rb))
           AtGnb(a, off) == Loop(Ascending(ProRsus(off, forwards)), LAMBDA pro : AtPro(a, off, pro))
           OfApp(a) == Loop(Ascending(VehAccessRsus(p, a)), LAMBDA off : AtGnb(a, off))
<1>0. s \notin Unshared
  BY DEF Unshared, Energy
<1>1. p.apps \subseteq Apps /\ \A a \in p.apps : VehAccessRsus(p, a) \subseteq Gnbs
  BY DEF InputType, VehAccessRsus
<1>2. ASSUME NEW off \in Gnbs, NEW pro \in ProRsus(off, forwards)
      PROVE  PathIn(s, off, pro) /\ pro \in Gnbs /\ \A a \in Apps : ForwardingDelay(a, off, pro) \in Nat
  <2>1. CASE forwards
    BY <2>1, ForwardingIs DEF ProRsus, PathIn
  <2>2. CASE ~forwards
    BY <2>2, NoForwarding DEF ProRsus, PathIn
  <2> QED BY <2>1, <2>2
<1>3. ASSUME NEW a \in p.apps, NEW off \in VehAccessRsus(p, a), NEW pro \in ProRsus(off, forwards)
      PROVE  AtPro(a, off, pro) \in Seq(S)
  <2>1. off \in Gnbs /\ FairRBs(p, off) \in Nat /\ FairRBs(p, off) = RBShare(s, p, off)
        /\ a \in Apps /\ pro \in Gnbs
        /\ FairCUs(p, pro) \in Nat /\ FairCUs(p, pro) = CUShare(s, p, pro)
    BY <1>0, <1>1, <1>2, InputFields DEF RBShare, CUShare
  <2> DEFINE B == {rb \in Between(1, FairRBs(p, off)) : ~Late(a, off, pro, rb)}
  <2>2. ASSUME NEW rb \in B, NEW srv \in 1 .. Len(Work) PROVE OfService(a, off, pro, rb, srv) \in Seq(S)
    <3>1. rb \in Nat \ {0} /\ rb <= RBShare(s, p, off) /\ ~Late(a, off, pro, rb) /\ srv \in Services
      BY <2>1, Numbers DEF Between
    <3> HIDE DEF B
    <3>2. OffloadDelay(p, a, off, rb) \in Nat /\ ForwardingDelay(a, off, pro) \in Nat
          /\ Overhead \in Nat /\ App[a].period \in Nat
      BY <1>2, <2>1, <3>1, OffloadIs, Numbers, AppFields
    <3> DEFINE threshold == App[a].period - Delay(a, off, pro, rb)
               m == Least(a, off, pro, rb, srv)
               M == Most(a, off, pro, rb, srv)
               T == Between(m, M)
    <3>3. threshold \in Nat \ {0}
      BY <3>1, <3>2
    <3>4. m \in Nat \ {0} /\ \A cu \in Nat : cu >= m => ExeDelay(srv, cu) <= threshold
      <4> HIDE DEF threshold
      <4>1. m = MinRequiredCUs(srv, threshold)
        BY DEF threshold
      <4> HIDE DEF m
      <4> QED BY <3>1, <3>3, <4>1, EnoughUnits
    <3>5. M \in Nat /\ M <= FairCUs(p, pro)
      <4> HIDE DEF Least
      <4> DEFINE x == m + ResourceSlack
                 y == FairCUs(p, pro)
      <4>1. x \in Nat /\ y \in Nat
        BY <2>1, <3>4, Numbers
      <4>2. M = Min({x, y})
        OBVIOUS
      <4> HIDE DEF x, y, M
      <4>3. \E n \in {x, y} : \A k \in {x, y} : n <= k
        BY <4>1
      <4>4. M \in {x, y} /\ \A k \in {x, y} : M <= k
        BY <4>2, <4>3 DEF Min
      <4> QED BY <4>1, <4>4 DEF y
    <3>6. ASSUME NEW cu \in T PROVE One(a, off, pro, rb, srv, cu) \in Seq(S)
      <4>1. cu \in Nat \ {0} /\ cu <= CUShare(s, p, pro) /\ cu >= m
        <5> HIDE DEF m, M
        <5> QED BY <2>1, <3>4, <3>5 DEF Between
      <4>2. ExeDelay(srv, cu) <= threshold /\ ExeDelay(srv, cu) \in Nat
        BY <3>1, <3>4, <4>1, ExeIs
      <4> HIDE DEF m, M
      <4>3. Timely(s, p, a, off, pro, rb, cu, srv)
        BY <3>2, <4>2 DEF Timely, InTime
      <4>4. AccuracyUtility(a, srv) = UtilityIn(s, p, a, off, rb, srv)
        BY DEF UtilityIn
      <4> HIDE DEF T, threshold
      <4> QED BY <1>2, <2>1, <3>1, <4>1, <4>3, <4>4, InstServes
    <3> HIDE DEF threshold
    <3>7. OfService(a, off, pro, rb, srv) \in Seq(S)
      <4> HIDE DEF Least, Most, One, S
      <4> DEFINE seq == Units(a, off, pro, rb, srv)
                 f   == [k \in DOMAIN seq |-> One(a, off, pro, rb, srv, seq[k])]
      <4>1. seq \in Seq(T)
        <5>1. m \in Nat /\ M \in Int /\ CuStep \in Nat \ {0}
          BY <3>4, <3>5, Numbers
        <5> QED BY <5>1, UpTyped
      <4>2. OfService(a, off, pro, rb, srv) = FlattenSeq(f)
        BY DEF Loop
      <4> HIDE DEF seq
      <4>3. \A k \in DOMAIN seq : f[k] \in Seq(S)
        <5>1. \A k \in DOMAIN seq : seq[k] \in T
          BY <4>1, MemberOf
        <5> QED BY <5>1, <3>6
      <4>4. f = [k \in DOMAIN seq |-> f[k]]
        OBVIOUS
      <4> HIDE DEF f
      <4> QED BY <4>1, <4>2, <4>3, <4>4, FlattenLoop
    <3> QED BY <3>7
  <2>3. ASSUME NEW rb \in B PROVE WithBands(a, off, pro, rb) \in Seq(S)
    <3> DEFINE V == Between(1, Len(Work))
    <3>1. V = 1 .. Len(Work)
      BY Numbers DEF Between
    <3>2. WithBands(a, off, pro, rb) \in Seq(S)
      <4> HIDE DEF OfService, B, S
      <4> DEFINE seq == Up(1, Len(Work), 1)
                 f   == [k \in DOMAIN seq |-> OfService(a, off, pro, rb, seq[k])]
      <4>1. seq \in Seq(V)
        <5>1. 1 \in Nat /\ Len(Work) \in Int /\ 1 \in Nat \ {0}
          BY Numbers
        <5> QED BY <5>1, UpTyped
      <4>2. WithBands(a, off, pro, rb) = FlattenSeq(f)
        BY DEF Loop
      <4> HIDE DEF seq
      <4>3. \A k \in DOMAIN seq : f[k] \in Seq(S)
        <5>1. \A k \in DOMAIN seq : seq[k] \in V
          BY <4>1, MemberOf
        <5> QED BY <5>1, <3>1, <2>2
      <4>4. f = [k \in DOMAIN seq |-> f[k]]
        OBVIOUS
      <4> HIDE DEF f
      <4> QED BY <4>1, <4>2, <4>3, <4>4, FlattenLoop
    <3> QED BY <3>2
  <2> DEFINE U == Between(1, FairRBs(p, off))
  <2>4. Bands(a, off, pro) \in Seq(B)
    <3> DEFINE seq == Up(1, FairRBs(p, off), RbStep)
               f   == [k \in DOMAIN seq |-> IF Late(a, off, pro, seq[k]) THEN <<>> ELSE <<seq[k]>>]
    <3>1. seq \in Seq(U)
      <4>1. 1 \in Nat /\ FairRBs(p, off) \in Int /\ RbStep \in Nat \ {0}
        BY <2>1, Numbers
      <4> QED BY <4>1, UpTyped
    <3>2. Bands(a, off, pro) = FlattenSeq(f)
      BY DEF Skipping, Loop
    <3> HIDE DEF Late, Bands, seq
    <3>3. ASSUME NEW k \in DOMAIN seq PROVE f[k] \in Seq(B)
      <4>1. seq[k] \in U
        BY <3>1, MemberOf
      <4>2. CASE Late(a, off, pro, seq[k])
        <5>1. f[k] = <<>>
          BY <4>2
        <5> HIDE DEF f
        <5> QED BY <5>1
      <4>3. CASE ~Late(a, off, pro, seq[k])
        <5>1. f[k] = <<seq[k]>> /\ seq[k] \in B
          BY <4>1, <4>3
        <5> HIDE DEF f, B
        <5> QED BY <5>1
      <4> QED BY <4>2, <4>3
    <3>4. f = [k \in DOMAIN seq |-> f[k]]
      OBVIOUS
    <3> HIDE DEF f, B
    <3> QED BY <3>1, <3>2, <3>3, <3>4, FlattenLoop
  <2>5. AtPro(a, off, pro) \in Seq(S)
    <3> HIDE DEF Bands, WithBands, B, S
    <3> DEFINE seq == Bands(a, off, pro)
               f   == [k \in DOMAIN seq |-> WithBands(a, off, pro, seq[k])]
    <3>1. seq \in Seq(B)
      BY <2>4
    <3>2. AtPro(a, off, pro) = FlattenSeq(f)
      BY DEF Loop
    <3> HIDE DEF seq
    <3>3. \A k \in DOMAIN seq : f[k] \in Seq(S)
      <4>1. \A k \in DOMAIN seq : seq[k] \in B
        BY <3>1, MemberOf
      <4> QED BY <4>1, <2>3
    <3>4. f = [k \in DOMAIN seq |-> f[k]]
      OBVIOUS
    <3> HIDE DEF f
    <3> QED BY <3>1, <3>2, <3>3, <3>4, FlattenLoop
  <2> QED BY <2>5
<1>4. ASSUME NEW a \in p.apps, NEW off \in VehAccessRsus(p, a) PROVE AtGnb(a, off) \in Seq(S)
  <2>1. ProRsus(off, forwards) \subseteq Gnbs \cup Apps
    BY <1>1, <1>2
  <2>2. AtGnb(a, off) \in Seq(S)
    <3> HIDE DEF AtPro, S
    <3> DEFINE seq == Ascending(ProRsus(off, forwards))
               f   == [k \in DOMAIN seq |-> AtPro(a, off, seq[k])]
    <3>1. seq \in Seq(ProRsus(off, forwards))
      BY <2>1, AscendingTyped
    <3>2. AtGnb(a, off) = FlattenSeq(f)
      BY DEF Loop
    <3> HIDE DEF seq
    <3>3. \A k \in DOMAIN seq : f[k] \in Seq(S)
      <4>1. \A k \in DOMAIN seq : seq[k] \in ProRsus(off, forwards)
        BY <3>1, MemberOf
      <4> QED BY <4>1, <1>3
    <3>4. f = [k \in DOMAIN seq |-> f[k]]
      OBVIOUS
    <3> HIDE DEF f
    <3> QED BY <3>1, <3>2, <3>3, <3>4, FlattenLoop
  <2> QED BY <2>2
<1>5. ASSUME NEW a \in p.apps PROVE OfApp(a) \in Seq(S)
  <2>1. OfApp(a) \in Seq(S)
    <3> HIDE DEF AtGnb, S
    <3> DEFINE seq == Ascending(VehAccessRsus(p, a))
               f   == [k \in DOMAIN seq |-> AtGnb(a, seq[k])]
    <3>1. seq \in Seq(VehAccessRsus(p, a))
      BY <1>1, AscendingTyped
    <3>2. OfApp(a) = FlattenSeq(f)
      BY DEF Loop
    <3> HIDE DEF seq
    <3>3. \A k \in DOMAIN seq : f[k] \in Seq(S)
      <4>1. \A k \in DOMAIN seq : seq[k] \in VehAccessRsus(p, a)
        BY <3>1, MemberOf
      <4> QED BY <4>1, <1>4
    <3>4. f = [k \in DOMAIN seq |-> f[k]]
      OBVIOUS
    <3> HIDE DEF f
    <3> QED BY <3>1, <3>2, <3>3, <3>4, FlattenLoop
  <2> QED BY <2>1
<1>6. Loop(Ascending(p.apps), OfApp) \in Seq(S)
  <2> HIDE DEF OfApp, S
  <2> DEFINE seq == Ascending(p.apps)
             f   == [k \in DOMAIN seq |-> OfApp(seq[k])]
  <2>1. seq \in Seq(p.apps)
    BY <1>1, AscendingTyped
  <2>2. Loop(Ascending(p.apps), OfApp) = FlattenSeq(f)
    BY DEF Loop
  <2> HIDE DEF seq
  <2>3. \A k \in DOMAIN seq : f[k] \in Seq(S)
    <3>1. \A k \in DOMAIN seq : seq[k] \in p.apps
      BY <2>1, MemberOf
    <3> QED BY <3>1, <1>5
  <2>4. f = [k \in DOMAIN seq |-> f[k]]
    OBVIOUS
  <2> HIDE DEF f
  <2> QED BY <2>1, <2>2, <2>3, <2>4, FlattenLoop
<1>7. AccuracyInstances(p, forwards) = Loop(Ascending(p.apps), OfApp)
  BY DEF AccuracyInstances
<1> QED BY <1>6, <1>7

\* the smallest number of units for some bands, or of bands for some units, is enough for
\* data that are sent in parts of a TTI
LEMMA InPartsWithBands ==
  ASSUME NEW p \in InputType, NEW a \in Apps, NEW off \in VehAccessRsus(p, a), NEW pro,
         ForwardingDelay(a, off, pro) \in Nat, NEW rb \in Nat \ {0}, NEW srv \in Services,
         NEW threshold \in Nat \ {0},
         threshold = App[a].period - Overhead - ForwardingDelay(a, off, pro) - OffloadDelay(p, a, off, rb)
  PROVE  /\ MinRequiredCUs(srv, threshold) \in Nat \ {0}
         /\ InTimeInParts(p, a, off, pro, rb, MinRequiredCUs(srv, threshold), srv)
<1> DEFINE cu   == MinRequiredCUs(srv, threshold)
           d    == OffloadDelay(p, a, off, rb)
           e    == ExeDelay(srv, cu)
           x    == App[a].period - Overhead - ForwardingDelay(a, off, pro) - e
           rate == p.rate[UeOf[a]][off]
           need == App[a].size * Tti
<1>1. cu \in Nat \ {0} /\ e <= threshold /\ e \in Nat
  <2>1. cu \in Nat \ {0} /\ \A n \in Nat : n >= cu => ExeDelay(srv, n) <= threshold
    BY EnoughUnits
  <2> HIDE DEF cu
  <2> QED BY <2>1, ExeIs
<1>2. d \in Nat /\ rate \in Nat /\ need <= d * (rb * rate) /\ need \in Nat
  <2>1. d \in Nat /\ p.rate[UeOf[a]][off] \in Nat \ {0} /\ need <= d * (rb * rate)
    BY OffloadIs
  <2>2. App[a].size \in Nat /\ Tti \in Nat
    BY AppFields, Numbers
  <2>3. need \in Nat
    BY <2>2
  <2> QED BY <2>1, <2>3
<1>3. App[a].period \in Nat /\ Overhead \in Nat /\ ForwardingDelay(a, off, pro) \in Nat
  BY AppFields, Numbers
<1>4. x \in Int /\ x >= d
  <2> HIDE DEF d, e
  <2> QED BY <1>1, <1>2, <1>3 DEF d
<1> HIDE DEF cu, d, e, x, rate, need
<1> DEFINE w == rb * rate
<1>5. w \in Nat /\ (x * rb) * rate = x * w
  BY <1>2, <1>4
<1>6. need <= d * w
  BY <1>2
<1> HIDE DEF w
<1>7. d * w <= x * w /\ d * w \in Int /\ x * w \in Int
  BY <1>2, <1>4, <1>5
<1>8. need <= (x * rb) * rate
  BY <1>2, <1>5, <1>6, <1>7
<1> QED BY <1>1, <1>8 DEF InTimeInParts, need, x, rate, e, cu

LEMMA InPartsWithUnits ==
  ASSUME NEW p \in InputType, NEW a \in Apps, NEW off \in VehAccessRsus(p, a), NEW pro,
         NEW cu, NEW srv, NEW threshold \in Nat \ {0},
         threshold = App[a].period - Overhead - ForwardingDelay(a, off, pro) - ExeDelay(srv, cu)
  PROVE  /\ MinRequiredRBs(p, a, off, threshold) \in Nat \ {0}
         /\ InTimeInParts(p, a, off, pro, MinRequiredRBs(p, a, off, threshold), cu, srv)
<1> DEFINE rb   == MinRequiredRBs(p, a, off, threshold)
           rate == p.rate[UeOf[a]][off]
           need == App[a].size * Tti
           d    == threshold * rate
<1>1. rate \in Nat \ {0} /\ App[a].size \in Nat \ {0} /\ Tti \in Nat \ {0}
  BY InputFields, AppFields, Numbers DEF VehAccessRsus
<1>2. need \in Nat /\ need > 0
  BY <1>1
<1>3. rb = CeilDiv(need, d)
  BY DEF MinRequiredRBs
<1> HIDE DEF need, rb, rate
<1>4. d \in Nat \ {0}
  BY <1>1
<1> HIDE DEF d
<1>5. rb \in Nat \ {0} /\ need <= rb * d
  BY <1>2, <1>3, <1>4, CeilDivIs
<1>6. rb * d = (threshold * rb) * rate
  BY <1>1, <1>5 DEF d
<1> QED BY <1>5, <1>6 DEF InTimeInParts, need, rb, rate

LEMMA StepsTyped ==
  ASSUME NEW max \in Nat, NEW step \in Nat \ {0}, NEW downward
  PROVE  (IF downward THEN Down(max, step) ELSE Up(1, max, step)) \in Seq(Between(1, max))
<1>1. 1 .. max = Between(1, max)
  BY DEF Between
<1>2. Down(max, step) \in Seq(Between(1, max))
  BY <1>1, DownTyped
<1>3. Up(1, max, step) \in Seq(Between(1, max))
  <2>1. 1 \in Nat /\ max \in Int
    OBVIOUS
  <2> QED BY <2>1, UpTyped
<1> QED BY <1>2, <1>3

\* bands or units, whatever has fewer steps
LEMMA OneDimensionServes ==
  ASSUME NEW p \in InputType, NEW s \in InParts, NEW forwards, forwards <=> s \in Forwarding,
         NEW downward, NEW breaks, Apps # {}
  PROVE  OneDimension(p, forwards, downward, breaks) \in Seq(Serving(s, p))
<1> DEFINE S == Serving(s, p)
           Steps(max, step) == IF downward THEN Down(max, step) ELSE Up(1, max, step)
           Left(a, off, pro, used) == App[a].period - Overhead - ForwardingDelay(a, off, pro) - used
           LateRB(a, off, pro, rb) == Left(a, off, pro, OffloadDelay(p, a, off, rb)) <= 0
           MinCU(a, off, pro, rb, srv) ==
              MinRequiredCUs(srv, Left(a, off, pro, OffloadDelay(p, a, off, rb)))
           OneRB(a, off, pro, rb, srv) ==
              IF MinCU(a, off, pro, rb, srv) > FairCUs(p, pro) THEN <<>>
              ELSE IfUseful(Inst(a, off, pro, rb, MinCU(a, off, pro, rb, srv), srv, AccuracyUtility(a, srv)))
           Bands(a, off, pro) ==
              IF breaks THEN UntilBreak(Steps(FairRBs(p, off), RbStep), LAMBDA rb : LateRB(a, off, pro, rb))
              ELSE Skipping(Steps(FairRBs(p, off), RbStep), LAMBDA rb : LateRB(a, off, pro, rb))
           WithBands(a, off, pro, rb) == Loop(Up(1, Len(Work), 1), LAMBDA srv : OneRB(a, off, pro, rb, srv))
           ByRB(a, off, pro) == Loop(Bands(a, off, pro), LAMBDA rb : WithBands(a, off, pro, rb))
           MinRB(a, off, pro, srv, cu) == MinRequiredRBs(p, a, off, Left(a, off, pro, ExeDelay(srv, cu)))
           LateCU(a, off, pro, srv, cu) ==
              Left(a, off, pro, ExeDelay(srv, cu)) <= 0 \/ MinRB(a, off, pro, srv, cu) > FairRBs(p, off)
           OneCU(a, off, pro, srv, cu) ==
              IfUseful(Inst(a, off, pro, MinRB(a, off, pro, srv, cu), cu, srv, AccuracyUtility(a, srv)))
           Units(a, off, pro, srv) ==
              IF breaks THEN UntilBreak(Steps(FairCUs(p, pro), CuStep), LAMBDA cu : LateCU(a, off, pro, srv, cu))
              ELSE Skipping(Steps(FairCUs(p, pro), CuStep), LAMBDA cu : LateCU(a, off, pro, srv, cu))
           OfService(a, off, pro, srv) == Loop(Units(a, off, pro, srv), LAMBDA cu : OneCU(a, off, pro, srv, cu))
           ByCU(a, off, pro) == Loop(Up(1, Len(Work), 1), LAMBDA srv : OfService(a, off, pro, srv))
           AtPro(a, off, pro) ==
              IF FairRBs(p, off) \div RbStep < FairCUs(p, pro) \div CuStep
              THEN ByRB(a, off, pro) ELSE ByCU(a, off, pro)
           AtGnb(a, off) == Loop(Ascending(ProRsus(off, forwards)), LAMBDA pro : AtPro(a, off, pro))
           OfApp(a) == Loop(Ascending(VehAccessRsus(p, a)), LAMBDA off : AtGnb(a, off))
<1>0. s \notin Energy /\ s \notin Unshared
  BY DEF InParts, Energy, Unshared
<1>1. p.apps \subseteq Apps /\ \A a \in p.apps : VehAccessRsus(p, a) \subseteq Gnbs
  BY DEF InputType, VehAccessRsus
<1>2. ASSUME NEW off \in Gnbs, NEW pro \in ProRsus(off, forwards)
      PROVE  PathIn(s, off, pro) /\ pro \in Gnbs /\ \A a \in Apps : ForwardingDelay(a, off, pro) \in Nat
  <2>1. CASE forwards
    BY <2>1, ForwardingIs DEF ProRsus, PathIn
  <2>2. CASE ~forwards
    BY <2>2, NoForwarding DEF ProRsus, PathIn
  <2> QED BY <2>1, <2>2
<1>3. ASSUME NEW a \in p.apps, NEW off \in VehAccessRsus(p, a), NEW pro \in ProRsus(off, forwards)
      PROVE  AtPro(a, off, pro) \in Seq(S)
  <2>1. off \in Gnbs /\ FairRBs(p, off) \in Nat /\ FairRBs(p, off) = RBShare(s, p, off)
        /\ a \in Apps /\ pro \in Gnbs
        /\ FairCUs(p, pro) \in Nat /\ FairCUs(p, pro) = CUShare(s, p, pro)
    BY <1>0, <1>1, <1>2, InputFields DEF RBShare, CUShare
  <2>2. PathIn(s, off, pro) /\ ForwardingDelay(a, off, pro) \in Nat
        /\ Overhead \in Nat /\ App[a].period \in Nat
    BY <1>2, <2>1, Numbers, AppFields
  <2> DEFINE V == Between(1, Len(Work))
             P == Between(1, FairRBs(p, off))
             Q == Between(1, FairCUs(p, pro))
             B == {rb \in P : ~LateRB(a, off, pro, rb)}
  <2>3. V = Services
    BY Numbers DEF Between
  <2>4. \A srv, rb : AccuracyUtility(a, srv) = UtilityIn(s, p, a, off, rb, srv)
    BY <1>0 DEF UtilityIn
  <2>5. ASSUME NEW rb \in B, NEW srv \in V PROVE OneRB(a, off, pro, rb, srv) \in Seq(S)
    <3>1. rb \in Nat \ {0} /\ rb <= RBShare(s, p, off) /\ ~LateRB(a, off, pro, rb) /\ srv \in Services
      BY <2>1, <2>3 DEF Between
    <3> HIDE DEF B, V
    <3> DEFINE threshold == Left(a, off, pro, OffloadDelay(p, a, off, rb))
               cu        == MinCU(a, off, pro, rb, srv)
    <3>2. threshold \in Nat \ {0}
      <4>1. OffloadDelay(p, a, off, rb) \in Nat
        BY <2>1, <3>1, OffloadIs
      <4> QED BY <2>2, <3>1, <4>1
    <3>3. cu \in Nat \ {0} /\ InTimeInParts(p, a, off, pro, rb, cu, srv)
      <4>1. threshold = App[a].period - Overhead - ForwardingDelay(a, off, pro) - OffloadDelay(p, a, off, rb)
            /\ cu = MinRequiredCUs(srv, threshold)
        OBVIOUS
      <4> HIDE DEF threshold, cu
      <4> QED BY <2>1, <2>2, <3>1, <3>2, <4>1, InPartsWithBands
    <3> HIDE DEF MinCU, threshold
    <3>4. CASE cu > FairCUs(p, pro)
      BY <3>4
    <3>5. CASE ~(cu > FairCUs(p, pro))
      <4>1. OneRB(a, off, pro, rb, srv) = IfUseful(Inst(a, off, pro, rb, cu, srv, AccuracyUtility(a, srv)))
        BY <3>5
      <4> HIDE DEF cu, OneRB
      <4>2. cu <= CUShare(s, p, pro)
        BY <2>1, <3>3, <3>5
      <4>3. Timely(s, p, a, off, pro, rb, cu, srv)
        BY <3>3 DEF Timely
      <4> QED BY <2>1, <2>2, <2>4, <3>1, <3>3, <4>1, <4>2, <4>3, InstServes
    <3> QED BY <3>4, <3>5
  <2>6. ASSUME NEW rb \in B PROVE WithBands(a, off, pro, rb) \in Seq(S)
    <3>1. WithBands(a, off, pro, rb) \in Seq(S)
      <4> HIDE DEF OneRB, B, S
      <4> DEFINE seq == Up(1, Len(Work), 1)
                 f   == [k \in DOMAIN seq |-> OneRB(a, off, pro, rb, seq[k])]
      <4>1. seq \in Seq(V)
        <5>1. 1 \in Nat /\ Len(Work) \in Int /\ 1 \in Nat \ {0}
          BY Numbers
        <5> QED BY <5>1, UpTyped
      <4>2. WithBands(a, off, pro, rb) = FlattenSeq(f)
        BY DEF Loop
      <4> HIDE DEF seq
      <4>3. \A k \in DOMAIN seq : f[k] \in Seq(S)
        <5>1. \A k \in DOMAIN seq : seq[k] \in V
          BY <4>1, MemberOf
        <5> QED BY <5>1, <2>5
      <4>4. f = [k \in DOMAIN seq |-> f[k]]
        OBVIOUS
      <4> HIDE DEF f
      <4> QED BY <4>1, <4>2, <4>3, <4>4, FlattenLoop
    <3> QED BY <3>1
  <2>7. Bands(a, off, pro) \in Seq(B)
    <3> DEFINE Cut  == UntilBreak(Steps(FairRBs(p, off), RbStep), LAMBDA rb : LateRB(a, off, pro, rb))
               Skip == Skipping(Steps(FairRBs(p, off), RbStep), LAMBDA rb : LateRB(a, off, pro, rb))
    <3>1. Cut \in Seq(B)
      <4> DEFINE seq   == Steps(FairRBs(p, off), RbStep)
                 stops == {k \in DOMAIN seq : LateRB(a, off, pro, seq[k])}
      <4>1. seq \in Seq(P)
        BY <2>1, Numbers, StepsTyped
      <4>2. Cut = IF stops = {} THEN seq ELSE SubSeq(seq, 1, Min(stops) - 1)
        BY DEF UntilBreak
      <4> HIDE DEF LateRB, Cut, P, seq
      <4>3. stops \subseteq DOMAIN seq /\ \A k \in DOMAIN seq : k \notin stops => seq[k] \in B
        BY <4>1, MemberOf
      <4> HIDE DEF stops, B
      <4>4. (IF stops = {} THEN seq ELSE SubSeq(seq, 1, Min(stops) - 1)) \in Seq(B)
        BY <4>1, <4>3, CutTyped
      <4> QED BY <4>2, <4>4
    <3>2. Skip \in Seq(B)
      <4> DEFINE seq == Steps(FairRBs(p, off), RbStep)
                 f   == [k \in DOMAIN seq |-> IF LateRB(a, off, pro, seq[k]) THEN <<>> ELSE <<seq[k]>>]
      <4>1. seq \in Seq(P)
        BY <2>1, Numbers, StepsTyped
      <4>2. Skip = FlattenSeq(f)
        BY DEF Skipping, Loop
      <4> HIDE DEF LateRB, Skip, P, seq
      <4>3. ASSUME NEW k \in DOMAIN seq PROVE f[k] \in Seq(B)
        <5>1. seq[k] \in P
          BY <4>1, MemberOf
        <5>2. CASE LateRB(a, off, pro, seq[k])
          <6>1. f[k] = <<>>
            BY <5>2
          <6> HIDE DEF f
          <6> QED BY <6>1
        <5>3. CASE ~LateRB(a, off, pro, seq[k])
          <6>1. f[k] = <<seq[k]>> /\ seq[k] \in B
            BY <5>1, <5>3
          <6> HIDE DEF f, B
          <6> QED BY <6>1
        <5> QED BY <5>2, <5>3
      <4>4. f = [k \in DOMAIN seq |-> f[k]]
        OBVIOUS
      <4> HIDE DEF f, B
      <4> QED BY <4>1, <4>2, <4>3, <4>4, FlattenLoop
    <3>3. Bands(a, off, pro) = IF breaks THEN Cut ELSE Skip
      OBVIOUS
    <3> HIDE DEF Cut, Skip, Bands, B
    <3> QED BY <3>1, <3>2, <3>3
  <2>8. ByRB(a, off, pro) \in Seq(S)
    <3> HIDE DEF Bands, WithBands, B, S
    <3> DEFINE seq == Bands(a, off, pro)
               f   == [k \in DOMAIN seq |-> WithBands(a, off, pro, seq[k])]
    <3>1. seq \in Seq(B)
      BY <2>7
    <3>2. ByRB(a, off, pro) = FlattenSeq(f)
      BY DEF Loop
    <3> HIDE DEF seq
    <3>3. \A k \in DOMAIN seq : f[k] \in Seq(S)
      <4>1. \A k \in DOMAIN seq : seq[k] \in B
        BY <3>1, MemberOf
      <4> QED BY <4>1, <2>6
    <3>4. f = [k \in DOMAIN seq |-> f[k]]
      OBVIOUS
    <3> HIDE DEF f
    <3> QED BY <3>1, <3>2, <3>3, <3>4, FlattenLoop
  <2>9. ASSUME NEW srv \in V PROVE OfService(a, off, pro, srv) \in Seq(S)
    <3> DEFINE T == {cu \in Q : ~LateCU(a, off, pro, srv, cu)}
    <3>1. ASSUME NEW cu \in T PROVE OneCU(a, off, pro, srv, cu) \in Seq(S)
      <4>1. cu \in Nat \ {0} /\ cu <= CUShare(s, p, pro) /\ ~LateCU(a, off, pro, srv, cu) /\ srv \in Services
        BY <2>1, <2>3 DEF Between
      <4> HIDE DEF T, V
      <4> DEFINE threshold == Left(a, off, pro, ExeDelay(srv, cu))
                 rb        == MinRB(a, off, pro, srv, cu)
      <4>2. threshold \in Nat \ {0} /\ ~(rb > FairRBs(p, off))
        <5>1. ExeDelay(srv, cu) \in Nat
          BY <4>1, ExeIs
        <5> HIDE DEF MinRB
        <5> QED BY <2>2, <4>1, <5>1
      <4>3. rb \in Nat \ {0} /\ InTimeInParts(p, a, off, pro, rb, cu, srv)
        <5>1. threshold = App[a].period - Overhead - ForwardingDelay(a, off, pro) - ExeDelay(srv, cu)
              /\ rb = MinRequiredRBs(p, a, off, threshold)
          OBVIOUS
        <5> HIDE DEF threshold, rb
        <5> QED BY <2>1, <4>2, <5>1, InPartsWithUnits
      <4> HIDE DEF MinRB, threshold
      <4>4. OneCU(a, off, pro, srv, cu) = IfUseful(Inst(a, off, pro, rb, cu, srv, AccuracyUtility(a, srv)))
        OBVIOUS
      <4> HIDE DEF rb, OneCU
      <4>5. rb <= RBShare(s, p, off)
        BY <2>1, <4>2, <4>3
      <4>6. Timely(s, p, a, off, pro, rb, cu, srv)
        BY <4>3 DEF Timely
      <4> QED BY <2>1, <2>2, <2>4, <4>1, <4>3, <4>4, <4>5, <4>6, InstServes
    <3> DEFINE Cut  == UntilBreak(Steps(FairCUs(p, pro), CuStep), LAMBDA cu : LateCU(a, off, pro, srv, cu))
               Skip == Skipping(Steps(FairCUs(p, pro), CuStep), LAMBDA cu : LateCU(a, off, pro, srv, cu))
    <3>2. Cut \in Seq(T)
      <4> DEFINE seq   == Steps(FairCUs(p, pro), CuStep)
                 stops == {k \in DOMAIN seq : LateCU(a, off, pro, srv, seq[k])}
      <4>1. seq \in Seq(Q)
        BY <2>1, Numbers, StepsTyped
      <4>2. Cut = IF stops = {} THEN seq ELSE SubSeq(seq, 1, Min(stops) - 1)
        BY DEF UntilBreak
      <4> HIDE DEF LateCU, Cut, Q, seq
      <4>3. stops \subseteq DOMAIN seq /\ \A k \in DOMAIN seq : k \notin stops => seq[k] \in T
        BY <4>1, MemberOf
      <4> HIDE DEF stops, T
      <4>4. (IF stops = {} THEN seq ELSE SubSeq(seq, 1, Min(stops) - 1)) \in Seq(T)
        BY <4>1, <4>3, CutTyped
      <4> QED BY <4>2, <4>4
    <3>3. Skip \in Seq(T)
      <4> DEFINE seq == Steps(FairCUs(p, pro), CuStep)
                 f   == [k \in DOMAIN seq |-> IF LateCU(a, off, pro, srv, seq[k]) THEN <<>> ELSE <<seq[k]>>]
      <4>1. seq \in Seq(Q)
        BY <2>1, Numbers, StepsTyped
      <4>2. Skip = FlattenSeq(f)
        BY DEF Skipping, Loop
      <4> HIDE DEF LateCU, Skip, Q, seq
      <4>3. ASSUME NEW k \in DOMAIN seq PROVE f[k] \in Seq(T)
        <5>1. seq[k] \in Q
          BY <4>1, MemberOf
        <5>2. CASE LateCU(a, off, pro, srv, seq[k])
          <6>1. f[k] = <<>>
            BY <5>2
          <6> HIDE DEF f
          <6> QED BY <6>1
        <5>3. CASE ~LateCU(a, off, pro, srv, seq[k])
          <6>1. f[k] = <<seq[k]>> /\ seq[k] \in T
            BY <5>1, <5>3
          <6> HIDE DEF f, T
          <6> QED BY <6>1
        <5> QED BY <5>2, <5>3
      <4>4. f = [k \in DOMAIN seq |-> f[k]]
        OBVIOUS
      <4> HIDE DEF f, T
      <4> QED BY <4>1, <4>2, <4>3, <4>4, FlattenLoop
    <3>4. Units(a, off, pro, srv) \in Seq(T)
      <4>1. Units(a, off, pro, srv) = IF breaks THEN Cut ELSE Skip
        OBVIOUS
      <4> HIDE DEF Cut, Skip, Units, T
      <4> QED BY <3>2, <3>3, <4>1
    <3>5. OfService(a, off, pro, srv) \in Seq(S)
      <4> HIDE DEF Units, OneCU, T, S
      <4> DEFINE seq == Units(a, off, pro, srv)
                 f   == [k \in DOMAIN seq |-> OneCU(a, off, pro, srv, seq[k])]
      <4>1. seq \in Seq(T)
        BY <3>4
      <4>2. OfService(a, off, pro, srv) = FlattenSeq(f)
        BY DEF Loop
      <4> HIDE DEF seq
      <4>3. \A k \in DOMAIN seq : f[k] \in Seq(S)
        <5>1. \A k \in DOMAIN seq : seq[k] \in T
          BY <4>1, MemberOf
        <5> QED BY <5>1, <3>1
      <4>4. f = [k \in DOMAIN seq |-> f[k]]
        OBVIOUS
      <4> HIDE DEF f
      <4> QED BY <4>1, <4>2, <4>3, <4>4, FlattenLoop
    <3> QED BY <3>5
  <2>10. ByCU(a, off, pro) \in Seq(S)
    <3> HIDE DEF OfService, S
    <3> DEFINE seq == Up(1, Len(Work), 1)
               f   == [k \in DOMAIN seq |-> OfService(a, off, pro, seq[k])]
    <3>1. seq \in Seq(V)
      <4>1. 1 \in Nat /\ Len(Work) \in Int /\ 1 \in Nat \ {0}
        BY Numbers
      <4> QED BY <4>1, UpTyped
    <3>2. ByCU(a, off, pro) = FlattenSeq(f)
      BY DEF Loop
    <3> HIDE DEF seq
    <3>3. \A k \in DOMAIN seq : f[k] \in Seq(S)
      <4>1. \A k \in DOMAIN seq : seq[k] \in V
        BY <3>1, MemberOf
      <4> QED BY <4>1, <2>9
    <3>4. f = [k \in DOMAIN seq |-> f[k]]
      OBVIOUS
    <3> HIDE DEF f
    <3> QED BY <3>1, <3>2, <3>3, <3>4, FlattenLoop
  <2> HIDE DEF ByRB, ByCU, S
  <2> QED BY <2>8, <2>10
<1>4. ASSUME NEW a \in p.apps, NEW off \in VehAccessRsus(p, a) PROVE AtGnb(a, off) \in Seq(S)
  <2>1. ProRsus(off, forwards) \subseteq Gnbs \cup Apps
    BY <1>1, <1>2
  <2>2. AtGnb(a, off) \in Seq(S)
    <3> HIDE DEF AtPro, S
    <3> DEFINE seq == Ascending(ProRsus(off, forwards))
               f   == [k \in DOMAIN seq |-> AtPro(a, off, seq[k])]
    <3>1. seq \in Seq(ProRsus(off, forwards))
      BY <2>1, AscendingTyped
    <3>2. AtGnb(a, off) = FlattenSeq(f)
      BY DEF Loop
    <3> HIDE DEF seq
    <3>3. \A k \in DOMAIN seq : f[k] \in Seq(S)
      <4>1. \A k \in DOMAIN seq : seq[k] \in ProRsus(off, forwards)
        BY <3>1, MemberOf
      <4> QED BY <4>1, <1>3
    <3>4. f = [k \in DOMAIN seq |-> f[k]]
      OBVIOUS
    <3> HIDE DEF f
    <3> QED BY <3>1, <3>2, <3>3, <3>4, FlattenLoop
  <2> QED BY <2>2
<1>5. ASSUME NEW a \in p.apps PROVE OfApp(a) \in Seq(S)
  <2>1. OfApp(a) \in Seq(S)
    <3> HIDE DEF AtGnb, S
    <3> DEFINE seq == Ascending(VehAccessRsus(p, a))
               f   == [k \in DOMAIN seq |-> AtGnb(a, seq[k])]
    <3>1. seq \in Seq(VehAccessRsus(p, a))
      BY <1>1, AscendingTyped
    <3>2. OfApp(a) = FlattenSeq(f)
      BY DEF Loop
    <3> HIDE DEF seq
    <3>3. \A k \in DOMAIN seq : f[k] \in Seq(S)
      <4>1. \A k \in DOMAIN seq : seq[k] \in VehAccessRsus(p, a)
        BY <3>1, MemberOf
      <4> QED BY <4>1, <1>4
    <3>4. f = [k \in DOMAIN seq |-> f[k]]
      OBVIOUS
    <3> HIDE DEF f
    <3> QED BY <3>1, <3>2, <3>3, <3>4, FlattenLoop
  <2> QED BY <2>1
<1>6. Loop(Ascending(p.apps), OfApp) \in Seq(S)
  <2> HIDE DEF OfApp, S
  <2> DEFINE seq == Ascending(p.apps)
             f   == [k \in DOMAIN seq |-> OfApp(seq[k])]
  <2>1. seq \in Seq(p.apps)
    BY <1>1, AscendingTyped
  <2>2. Loop(Ascending(p.apps), OfApp) = FlattenSeq(f)
    BY DEF Loop
  <2> HIDE DEF seq
  <2>3. \A k \in DOMAIN seq : f[k] \in Seq(S)
    <3>1. \A k \in DOMAIN seq : seq[k] \in p.apps
      BY <2>1, MemberOf
    <3> QED BY <3>1, <1>5
  <2>4. f = [k \in DOMAIN seq |-> f[k]]
    OBVIOUS
  <2> HIDE DEF f
  <2> QED BY <2>1, <2>2, <2>3, <2>4, FlattenLoop
<1>7. OneDimension(p, forwards, downward, breaks) = Loop(Ascending(p.apps), OfApp)
  BY DEF OneDimension
<1> QED BY <1>6, <1>7

\* whatever a scheme generates serves
LEMMA GenerateServes ==
  ASSUME NEW s \in SchemeNames, NEW p \in InputType, p.apps # {}
  PROVE  GenerateScheduleInstances(s, p) \in Seq(Serving(s, p))
<1>0. Apps # {}
  BY DEF InputType
<1> DEFINE Known == ByEfficiency \cup ByUtility \cup Rounding \cup LocalRatio \cup Iterating \cup Matching
<1>1. s \in Known
  BY SchemesAssumption
<1>2. CASE s \in {"SchemeGreedy", "SchemeGameTheory", "SchemeFastLR", "SchemeSARound", "SchemeIterative"}
  <2>1. s \in Unshared
    BY <1>2 DEF Unshared
  <2>2. GenerateScheduleInstances(s, p) = SchemeGreedyInstances(p)
    BY <1>2 DEF GenerateScheduleInstances, SchemeSARoundInstances, SchemeIterativeInstances
  <2> QED BY <1>0, <2>1, <2>2, GreedyServes
<1>3. CASE s \in {"SchemeFwdGreedy", "SchemeFwdGameTheory", "SchemeFwdQuickLR", "SchemeFwdGraphMatch"}
  <2>1. s \in (Energy \cap Forwarding) \ InParts
    BY <1>3 DEF Energy, Forwarding, InParts, Matching
  <2>2. GenerateScheduleInstances(s, p) = SchemeFwdGreedyInstances(p)
    BY <1>3 DEF GenerateScheduleInstances, SchemeFwdGraphMatchInstances
  <2> QED BY <1>0, <2>1, <2>2, FwdGreedyServes
<1>4. CASE s \in {"AccuracyGreedy", "AccuracyGameTheory", "AccuracyFastSA", "AccuracyFastSAND"}
  <2>1. s \notin Energy /\ s \notin InParts /\ s \in Forwarding
    BY <1>4 DEF Energy, Forwarding, InParts
  <2>2. GenerateScheduleInstances(s, p) = AccuracyInstances(p, TRUE)
    BY <1>4 DEF GenerateScheduleInstances, AccuracyGreedyInstances
  <2> QED BY <1>0, <2>1, <2>2, AccuracyServes
<1>5. CASE s \in {"AccuracyFastIS", "AccuracyIDAssign", "AccuracyIterative"}
  <2>1. s \notin Energy /\ s \notin InParts /\ s \notin Forwarding
    BY <1>5 DEF Energy, Forwarding, InParts, Matching
  <2>2. GenerateScheduleInstances(s, p) = AccuracyInstances(p, FALSE)
    BY <1>5 DEF GenerateScheduleInstances, IDAssignInstances, AccuracyIterativeInstances, FastISInstances
  <2> QED BY <1>0, <2>1, <2>2, AccuracyServes
<1>6. CASE s = "AccuracyFastSANF"
  <2>1. s \in InParts /\ s \notin Forwarding
    BY <1>6 DEF Forwarding, InParts, Matching
  <2>2. GenerateScheduleInstances(s, p) = OneDimension(p, FALSE, FALSE, TRUE)
    BY <1>6 DEF GenerateScheduleInstances, FastSANFInstances
  <2> QED BY <1>0, <2>1, <2>2, OneDimensionServes
<1>7. CASE s = "AccuracySARound"
  <2>1. s \in InParts /\ s \notin Forwarding
    BY <1>7 DEF Forwarding, InParts, Matching
  <2>2. GenerateScheduleInstances(s, p) = OneDimension(p, FALSE, FALSE, FALSE)
    BY <1>7 DEF GenerateScheduleInstances, AccuracySARoundInstances
  <2> QED BY <1>0, <2>1, <2>2, OneDimensionServes
<1>8. CASE s = "AccuracyGraphMatch"
  <2>1. s \in InParts /\ s \in Forwarding
    BY <1>8 DEF Forwarding, InParts, Matching
  <2>2. GenerateScheduleInstances(s, p) = OneDimension(p, TRUE, TRUE, TRUE)
    BY <1>8 DEF GenerateScheduleInstances, AccuracyGraphMatchInstances
  <2> QED BY <1>0, <2>1, <2>2, OneDimensionServes
<1> QED BY <1>1, <1>2, <1>3, <1>4, <1>5, <1>6, <1>7, <1>8
        DEF ByEfficiency, ByUtility, Rounding, LocalRatio, ByShare, Iterating, Matching

-----------------------------------------------------------------------------
(* The bands and the units of a schedule.                                   *)

\* sums are sums of weights
LEMMA SumOfRbs ==
  ASSUME NEW S, IsFiniteSet(S), \A i \in S : i.rb \in Nat
  PROVE  MapThenSumSet(LAMBDA i : i.rb, S) = SumOver([i \in S |-> i.rb], S)
<1> DEFINE w == [i \in S |-> i.rb]
           iter[T \in SUBSET S] ==
             IF T = {} THEN 0 ELSE LET x == CHOOSE x \in T : TRUE IN x.rb + iter[T \ {x}]
<1>1. w \in [S -> Nat]
  OBVIOUS
<1>2. PICK f : SumsUp(f, S, w) /\ SumOver(w, S) = f[S]
  <2> HIDE DEF iter, w
  <2> QED BY <1>1, SumOverIs
<1>3. f = [T \in SUBSET S |->
             IF T = {} THEN 0 ELSE LET x == CHOOSE x \in T : TRUE IN x.rb + f[T \ {x}]]
  <2> HIDE DEF iter
  <2> QED BY <1>2 DEF SumsUp
<1>4. iter = [T \in SUBSET S |->
                IF T = {} THEN 0 ELSE LET x == CHOOSE x \in T : TRUE IN x.rb + iter[T \ {x}]]
  BY <1>3, Zenon
<1>5. MapThenSumSet(LAMBDA i : i.rb, S) = iter[S]
  BY DEF MapThenSumSet, MapThenFoldSet
<1> HIDE DEF iter
<1>6. SumsUp(iter, S, w)
  BY <1>4 DEF SumsUp
<1> HIDE DEF w
<1>7. iter[S] = f[S]
  BY <1>2, <1>6, SumsAgree
<1> QED BY <1>2, <1>5, <1>7 DEF w

LEMMA SumOfCus ==
  ASSUME NEW S, IsFiniteSet(S), \A i \in S : i.cu \in Nat
  PROVE  MapThenSumSet(LAMBDA i : i.cu, S) = SumOver([i \in S |-> i.cu], S)
<1> DEFINE w == [i \in S |-> i.cu]
           iter[T \in SUBSET S] ==
             IF T = {} THEN 0 ELSE LET x == CHOOSE x \in T : TRUE IN x.cu + iter[T \ {x}]
<1>1. w \in [S -> Nat]
  OBVIOUS
<1>2. PICK f : SumsUp(f, S, w) /\ SumOver(w, S) = f[S]
  <2> HIDE DEF iter, w
  <2> QED BY <1>1, SumOverIs
<1>3. f = [T \in SUBSET S |->
             IF T = {} THEN 0 ELSE LET x == CHOOSE x \in T : TRUE IN x.cu + f[T \ {x}]]
  <2> HIDE DEF iter
  <2> QED BY <1>2 DEF SumsUp
<1>4. iter = [T \in SUBSET S |->
                IF T = {} THEN 0 ELSE LET x == CHOOSE x \in T : TRUE IN x.cu + iter[T \ {x}]]
  BY <1>3, Zenon
<1>5. MapThenSumSet(LAMBDA i : i.cu, S) = iter[S]
  BY DEF MapThenSumSet, MapThenFoldSet
<1> HIDE DEF iter
<1>6. SumsUp(iter, S, w)
  BY <1>4 DEF SumsUp
<1> HIDE DEF w
<1>7. iter[S] = f[S]
  BY <1>2, <1>6, SumsAgree
<1> QED BY <1>2, <1>5, <1>7 DEF w

LEMMA SumOfInstRbs ==
  ASSUME NEW S, IsFiniteSet(S), \A k \in S : insts[k].rb \in Nat
  PROVE  MapThenSumSet(LAMBDA k : insts[k].rb, S) = SumOver([k \in S |-> insts[k].rb], S)
<1> DEFINE w == [k \in S |-> insts[k].rb]
           iter[T \in SUBSET S] ==
             IF T = {} THEN 0 ELSE LET x == CHOOSE x \in T : TRUE IN insts[x].rb + iter[T \ {x}]
<1>1. w \in [S -> Nat]
  OBVIOUS
<1>2. PICK f : SumsUp(f, S, w) /\ SumOver(w, S) = f[S]
  <2> HIDE DEF iter, w
  <2> QED BY <1>1, SumOverIs
<1>3. f = [T \in SUBSET S |->
             IF T = {} THEN 0 ELSE LET x == CHOOSE x \in T : TRUE IN insts[x].rb + f[T \ {x}]]
  <2> HIDE DEF iter
  <2> QED BY <1>2 DEF SumsUp
<1>4. iter = [T \in SUBSET S |->
                IF T = {} THEN 0 ELSE LET x == CHOOSE x \in T : TRUE IN insts[x].rb + iter[T \ {x}]]
  BY <1>3, ZenonT(60)
<1>5. MapThenSumSet(LAMBDA k : insts[k].rb, S) = iter[S]
  BY DEF MapThenSumSet, MapThenFoldSet
<1> HIDE DEF iter
<1>6. SumsUp(iter, S, w)
  BY <1>4 DEF SumsUp
<1> HIDE DEF w
<1>7. iter[S] = f[S]
  BY <1>2, <1>6, SumsAgree
<1> QED BY <1>2, <1>5, <1>7 DEF w

LEMMA SumOfInstCus ==
  ASSUME NEW S, IsFiniteSet(S), \A k \in S : insts[k].cu \in Nat
  PROVE  MapThenSumSet(LAMBDA k : insts[k].cu, S) = SumOver([k \in S |-> insts[k].cu], S)
<1> DEFINE w == [k \in S |-> insts[k].cu]
           iter[T \in SUBSET S] ==
             IF T = {} THEN 0 ELSE LET x == CHOOSE x \in T : TRUE IN insts[x].cu + iter[T \ {x}]
<1>1. w \in [S -> Nat]
  OBVIOUS
<1>2. PICK f : SumsUp(f, S, w) /\ SumOver(w, S) = f[S]
  <2> HIDE DEF iter, w
  <2> QED BY <1>1, SumOverIs
<1>3. f = [T \in SUBSET S |->
             IF T = {} THEN 0 ELSE LET x == CHOOSE x \in T : TRUE IN insts[x].cu + f[T \ {x}]]
  <2> HIDE DEF iter
  <2> QED BY <1>2 DEF SumsUp
<1>4. iter = [T \in SUBSET S |->
                IF T = {} THEN 0 ELSE LET x == CHOOSE x \in T : TRUE IN insts[x].cu + iter[T \ {x}]]
  BY <1>3, ZenonT(60)
<1>5. MapThenSumSet(LAMBDA k : insts[k].cu, S) = iter[S]
  BY DEF MapThenSumSet, MapThenFoldSet
<1> HIDE DEF iter
<1>6. SumsUp(iter, S, w)
  BY <1>4 DEF SumsUp
<1> HIDE DEF w
<1>7. iter[S] = f[S]
  BY <1>2, <1>6, SumsAgree
<1> QED BY <1>2, <1>5, <1>7 DEF w

LEMMA SumOfGains ==
  ASSUME NEW S, IsFiniteSet(S), \A k \in S : cands[k].gain \in Nat
  PROVE  MapThenSumSet(LAMBDA k : cands[k].gain, S) = SumOver([k \in S |-> cands[k].gain], S)
<1> DEFINE w == [k \in S |-> cands[k].gain]
           iter[T \in SUBSET S] ==
             IF T = {} THEN 0 ELSE LET x == CHOOSE x \in T : TRUE IN cands[x].gain + iter[T \ {x}]
<1>1. w \in [S -> Nat]
  OBVIOUS
<1>2. PICK f : SumsUp(f, S, w) /\ SumOver(w, S) = f[S]
  <2> HIDE DEF iter, w
  <2> QED BY <1>1, SumOverIs
<1>3. f = [T \in SUBSET S |->
             IF T = {} THEN 0 ELSE LET x == CHOOSE x \in T : TRUE IN cands[x].gain + f[T \ {x}]]
  <2> HIDE DEF iter
  <2> QED BY <1>2 DEF SumsUp
<1>4. iter = [T \in SUBSET S |->
                IF T = {} THEN 0 ELSE LET x == CHOOSE x \in T : TRUE IN cands[x].gain + iter[T \ {x}]]
  BY <1>3, Zenon
<1>5. MapThenSumSet(LAMBDA k : cands[k].gain, S) = iter[S]
  BY DEF MapThenSumSet, MapThenFoldSet
<1> HIDE DEF iter
<1>6. SumsUp(iter, S, w)
  BY <1>4 DEF SumsUp
<1> HIDE DEF w
<1>7. iter[S] = f[S]
  BY <1>2, <1>6, SumsAgree
<1> QED BY <1>2, <1>5, <1>7 DEF w

\* what a set of instances takes of a gNB
Takers(S) == IsFiniteSet(S) /\ \A i \in S : i.rb \in Nat /\ i.cu \in Nat

LEMMA UsedTyped ==
  ASSUME NEW S, Takers(S), NEW g
  PROVE  UsedRBs(S, g) \in Nat /\ UsedCUs(S, g) \in Nat
<1> DEFINE A == {i \in S : i.off = g}
           B == {i \in S : i.pro = g}
<1>1. IsFiniteSet(A) /\ IsFiniteSet(B) /\ (\A i \in A : i.rb \in Nat) /\ \A i \in B : i.cu \in Nat
  BY FS_Subset DEF Takers
<1>2. UsedRBs(S, g) = MapThenSumSet(LAMBDA i : i.rb, A) /\ UsedCUs(S, g) = MapThenSumSet(LAMBDA i : i.cu, B)
  BY DEF UsedRBs, UsedCUs
<1> HIDE DEF A, B
<1>3. UsedRBs(S, g) = SumOver([i \in A |-> i.rb], A) /\ [i \in A |-> i.rb] \in [A -> Nat]
  BY <1>1, <1>2, SumOfRbs
<1>4. UsedCUs(S, g) = SumOver([i \in B |-> i.cu], B) /\ [i \in B |-> i.cu] \in [B -> Nat]
  BY <1>1, <1>2, SumOfCus
<1>5. SumOver([i \in A |-> i.rb], A) \in Nat
  BY <1>1, <1>3, SumOverTyped
<1>6. SumOver([i \in B |-> i.cu], B) \in Nat
  BY <1>1, <1>4, SumOverTyped
<1> QED BY <1>3, <1>4, <1>5, <1>6

\* an empty one nothing
LEMMA UsedByNone ==
  ASSUME NEW g
  PROVE  UsedRBs({}, g) = 0 /\ UsedCUs({}, g) = 0
<1> DEFINE none == {}
<1>1. IsFiniteSet(none) /\ none = {}
  BY FS_EmptySet
<1>2. UsedRBs({}, g) = MapThenSumSet(LAMBDA i : i.rb, none) /\ UsedCUs({}, g) = MapThenSumSet(LAMBDA i : i.cu, none)
  <2>1. none = {i \in {} : i.off = g} /\ none = {i \in {} : i.pro = g}
    OBVIOUS
  <2> HIDE DEF none
  <2> QED BY <2>1 DEF UsedRBs, UsedCUs
<1>3. /\ MapThenSumSet(LAMBDA i : i.rb, none) = SumOver([i \in none |-> i.rb], none)
      /\ MapThenSumSet(LAMBDA i : i.cu, none) = SumOver([i \in none |-> i.cu], none)
  <2> HIDE DEF none
  <2>1. (\A i \in none : i.rb \in Nat) /\ \A i \in none : i.cu \in Nat
    BY <1>1
  <2> QED BY <1>1, <2>1, SumOfRbs, SumOfCus
<1>4. ASSUME NEW w \in [none -> Nat] PROVE SumOver(w, none) = 0
  <2>1. \A x \in none : w[x] = 0
    OBVIOUS
  <2> HIDE DEF none
  <2> QED BY <1>1, <2>1, SumOverTyped
<1>5. [i \in none |-> i.rb] \in [none -> Nat] /\ [i \in none |-> i.cu] \in [none -> Nat]
  OBVIOUS
<1> HIDE DEF none
<1> QED BY <1>2, <1>3, <1>4, <1>5

\* with one instance more, what that takes more
LEMMA UsedByMore ==
  ASSUME NEW S, Takers(S), NEW z, z \notin S, z.rb \in Nat, z.cu \in Nat, NEW g
  PROVE  /\ Takers(S \cup {z})
         /\ UsedRBs(S \cup {z}, g) = UsedRBs(S, g) + IF z.off = g THEN z.rb ELSE 0
         /\ UsedCUs(S \cup {z}, g) = UsedCUs(S, g) + IF z.pro = g THEN z.cu ELSE 0
<1> DEFINE D == S \cup {z}
           A == {i \in S : i.off = g}
           B == {i \in S : i.pro = g}
<1>1. Takers(D)
  BY FS_AddElement DEF Takers
<1>2. UsedRBs(S, g) \in Nat /\ UsedCUs(S, g) \in Nat
  BY UsedTyped
<1>3. UsedRBs(D, g) = UsedRBs(S, g) + IF z.off = g THEN z.rb ELSE 0
  <2>1. UsedRBs(S, g) = MapThenSumSet(LAMBDA i : i.rb, A)
    BY DEF UsedRBs
  <2>2. CASE z.off = g
    <3>1. {i \in D : i.off = g} = A \cup {z}
      BY <2>2
    <3>2. UsedRBs(D, g) = MapThenSumSet(LAMBDA i : i.rb, A \cup {z})
      BY <3>1 DEF UsedRBs
    <3>3. IsFiniteSet(A) /\ z \notin A /\ IsFiniteSet(A \cup {z}) /\ \A i \in A \cup {z} : i.rb \in Nat
      BY FS_Subset, FS_AddElement DEF Takers
    <3> HIDE DEF A, D
    <3> DEFINE w == [i \in A \cup {z} |-> i.rb]
               v == [i \in A |-> i.rb]
    <3>4. UsedRBs(D, g) = SumOver(w, A \cup {z}) /\ UsedRBs(S, g) = SumOver(v, A)
      BY <2>1, <3>2, <3>3, SumOfRbs
    <3>5. w \in [A \cup {z} -> Nat] /\ v \in [A -> Nat] /\ (\A x \in A : w[x] = v[x]) /\ w[z] = z.rb
      BY <3>3
    <3> HIDE DEF w, v
    <3>6. IsFiniteSet(A) /\ z \notin A
      BY <3>3
    <3>7. w \in [A \cup {z} -> Nat] /\ v \in [A -> Nat]
      BY <3>5
    <3>8. \A x \in A : w[x] = v[x]
      BY <3>5
    <3>9. SumOver(w, A \cup {z}) = SumOver(v, A) + w[z]
      BY <3>6, <3>7, <3>8, SumOverMore
    <3> QED BY <2>2, <3>4, <3>5, <3>9
  <2>3. CASE z.off # g
    <3>1. {i \in D : i.off = g} = A
      BY <2>3
    <3>2. UsedRBs(D, g) = UsedRBs(S, g)
      BY <2>1, <3>1 DEF UsedRBs
    <3> QED BY <1>2, <2>3, <3>2
  <2> QED BY <2>2, <2>3
<1>4. UsedCUs(D, g) = UsedCUs(S, g) + IF z.pro = g THEN z.cu ELSE 0
  <2>1. UsedCUs(S, g) = MapThenSumSet(LAMBDA i : i.cu, B)
    BY DEF UsedCUs
  <2>2. CASE z.pro = g
    <3>1. {i \in D : i.pro = g} = B \cup {z}
      BY <2>2
    <3>2. UsedCUs(D, g) = MapThenSumSet(LAMBDA i : i.cu, B \cup {z})
      BY <3>1 DEF UsedCUs
    <3>3. IsFiniteSet(B) /\ z \notin B /\ IsFiniteSet(B \cup {z}) /\ \A i \in B \cup {z} : i.cu \in Nat
      BY FS_Subset, FS_AddElement DEF Takers
    <3> HIDE DEF B, D
    <3> DEFINE w == [i \in B \cup {z} |-> i.cu]
               v == [i \in B |-> i.cu]
    <3>4. UsedCUs(D, g) = SumOver(w, B \cup {z}) /\ UsedCUs(S, g) = SumOver(v, B)
      BY <2>1, <3>2, <3>3, SumOfCus
    <3>5. w \in [B \cup {z} -> Nat] /\ v \in [B -> Nat] /\ (\A x \in B : w[x] = v[x]) /\ w[z] = z.cu
      BY <3>3
    <3> HIDE DEF w, v
    <3>6. IsFiniteSet(B) /\ z \notin B
      BY <3>3
    <3>7. w \in [B \cup {z} -> Nat] /\ v \in [B -> Nat]
      BY <3>5
    <3>8. \A x \in B : w[x] = v[x]
      BY <3>5
    <3>9. SumOver(w, B \cup {z}) = SumOver(v, B) + w[z]
      BY <3>6, <3>7, <3>8, SumOverMore
    <3> QED BY <2>2, <3>4, <3>5, <3>9
  <2>3. CASE z.pro # g
    <3>1. {i \in D : i.pro = g} = B
      BY <2>3
    <3>2. UsedCUs(D, g) = UsedCUs(S, g)
      BY <2>1, <3>1 DEF UsedCUs
    <3> QED BY <1>2, <2>3, <3>2
  <2> QED BY <2>2, <2>3
<1> QED BY <1>1, <1>3, <1>4

\* a part of them no more than all
LEMMA UsedByPart ==
  ASSUME NEW S, Takers(S), NEW T, T \subseteq S, NEW g
  PROVE  UsedRBs(T, g) <= UsedRBs(S, g) /\ UsedCUs(T, g) <= UsedCUs(S, g)
<1> DEFINE Good == {X \in SUBSET S : UsedRBs(T, g) <= UsedRBs(T \cup X, g) /\ UsedCUs(T, g) <= UsedCUs(T \cup X, g)}
<1>0. \A X \in SUBSET S : Takers(T \cup X) /\ UsedRBs(T \cup X, g) \in Nat /\ UsedCUs(T \cup X, g) \in Nat
  <2>1. ASSUME NEW X \in SUBSET S PROVE Takers(T \cup X)
    <3>1. T \cup X \subseteq S
      OBVIOUS
    <3> QED BY <3>1, FS_Subset DEF Takers
  <2> QED BY <2>1, UsedTyped
<1>1. {} \in Good
  <2>1. T \cup {} = T /\ {} \in SUBSET S
    OBVIOUS
  <2>2. UsedRBs(T \cup {}, g) \in Nat /\ UsedCUs(T \cup {}, g) \in Nat
    BY <1>0
  <2> QED BY <2>1, <2>2
<1>2. ASSUME NEW X \in SUBSET S, X # {}, \A x \in X : X \ {x} \in Good PROVE X \in Good
  <2>1. PICK z \in X : TRUE
    BY <1>2
  <2> DEFINE Y == X \ {z}
  <2>2. Y \in SUBSET S /\ UsedRBs(T, g) <= UsedRBs(T \cup Y, g) /\ UsedCUs(T, g) <= UsedCUs(T \cup Y, g)
    BY <1>2
  <2>3. CASE z \in T
    <3>1. T \cup X = T \cup Y
      BY <2>3
    <3> QED BY <2>2, <3>1
  <2>4. CASE z \notin T
    <3>1. T \cup X = (T \cup Y) \cup {z} /\ z \notin T \cup Y
      BY <2>1, <2>4
    <3>2. z.rb \in Nat /\ z.cu \in Nat
      BY <2>1 DEF Takers
    <3> HIDE DEF Y
    <3>3. Takers(T \cup Y) /\ UsedRBs(T \cup Y, g) \in Nat /\ UsedCUs(T \cup Y, g) \in Nat
      BY <1>0, <2>2
    <3>4. /\ UsedRBs(T \cup X, g) = UsedRBs(T \cup Y, g) + IF z.off = g THEN z.rb ELSE 0
          /\ UsedCUs(T \cup X, g) = UsedCUs(T \cup Y, g) + IF z.pro = g THEN z.cu ELSE 0
      BY <3>1, <3>2, <3>3, UsedByMore
    <3>5. UsedRBs(T, g) \in Nat /\ UsedCUs(T, g) \in Nat
      <4>1. Takers(T)
        BY FS_Subset DEF Takers
      <4> QED BY <4>1, UsedTyped
    <3>6. UsedRBs(T, g) <= UsedRBs(T \cup X, g)
      BY <2>2, <3>2, <3>3, <3>4, <3>5
    <3>7. UsedCUs(T, g) <= UsedCUs(T \cup X, g)
      BY <2>2, <3>2, <3>3, <3>4, <3>5
    <3> QED BY <3>6, <3>7
  <2> QED BY <2>3, <2>4
<1>3. \A X \in SUBSET S : X \in Good
  <2>1. \A X \in SUBSET S : X # {} /\ (\A x \in X : X \ {x} \in Good) => X \in Good
    BY <1>2
  <2>2. IsFiniteSet(S)
    BY DEF Takers
  <2> HIDE DEF Good
  <2> QED BY <1>1, <2>1, <2>2, SubsetInduction
<1>4. T \cup S = S /\ S \in Good
  BY <1>3
<1> QED BY <1>4

\* images of indices take no more than what stands for them
LEMMA UsedByImages ==
  ASSUME NEW T, IsFiniteSet(T), NEW F, NEW g,
         \A k \in T : F[k].off = g /\ F[k].pro = g
                      /\ F[k].rb = insts[k].rb /\ F[k].cu = insts[k].cu
                      /\ insts[k].rb \in Nat /\ insts[k].cu \in Nat
  PROVE  /\ Takers({F[k] : k \in T})
         /\ UsedRBs({F[k] : k \in T}, g) <= MapThenSumSet(LAMBDA k : insts[k].rb, T)
         /\ UsedCUs({F[k] : k \in T}, g) <= MapThenSumSet(LAMBDA k : insts[k].cu, T)
<1> DEFINE w == [k \in T |-> insts[k].rb]
           v == [k \in T |-> insts[k].cu]
           Image(X) == {F[k] : k \in X}
<1>1. w \in [T -> Nat] /\ v \in [T -> Nat]
  OBVIOUS
<1>2. MapThenSumSet(LAMBDA k : insts[k].rb, T) = SumOver(w, T) /\ MapThenSumSet(LAMBDA k : insts[k].cu, T) = SumOver(v, T)
  BY SumOfInstRbs, SumOfInstCus
<1>w. \A k \in T : w[k] = insts[k].rb /\ v[k] = insts[k].cu
  OBVIOUS
<1> HIDE DEF w, v
<1>3. PICK a : PartSums(a, T, w)
  BY <1>1, SumOverParts
<1>4. PICK b : PartSums(b, T, v)
  BY <1>1, SumOverParts
<1> DEFINE Good == {X \in SUBSET T : Takers(Image(X)) /\ UsedRBs(Image(X), g) <= a[X] /\ UsedCUs(Image(X), g) <= b[X]}
<1>5. {} \in Good
  <2>1. Image({}) = {}
    OBVIOUS
  <2>2. Takers({})
    BY FS_EmptySet DEF Takers
  <2>3. a[{}] = 0 /\ b[{}] = 0
    BY <1>3, <1>4 DEF PartSums
  <2> QED BY <2>1, <2>2, <2>3, UsedByNone, SMTT(60)
<1>6. ASSUME NEW X \in SUBSET T, X # {}, \A x \in X : X \ {x} \in Good PROVE X \in Good
  <2>1. PICK z \in X : TRUE
    BY <1>6
  <2> DEFINE Y == X \ {z}
  <2>2. Y \in SUBSET T /\ Takers(Image(Y)) /\ UsedRBs(Image(Y), g) <= a[Y] /\ UsedCUs(Image(Y), g) <= b[Y]
    BY <1>6
  <2>3. a[X] = w[z] + a[Y] /\ a[Y] \in Nat /\ b[X] = v[z] + b[Y] /\ b[Y] \in Nat
    BY <1>3, <1>4, <2>1, <2>2 DEF PartSums
  <2>4. Image(X) = Image(Y) \cup {F[z]}
    OBVIOUS
  <2>5. /\ F[z].rb = w[z] /\ F[z].cu = v[z] /\ w[z] \in Nat /\ v[z] \in Nat
        /\ F[z].off = g /\ F[z].pro = g
    BY <1>w, <1>1, <2>1
  <2> HIDE DEF Y, Image
  <2>6. UsedRBs(Image(Y), g) \in Nat /\ UsedCUs(Image(Y), g) \in Nat
    BY <2>2, UsedTyped
  <2>7. CASE F[z] \in Image(Y)
    <3>1. Image(X) = Image(Y)
      BY <2>4, <2>7
    <3> QED BY <2>2, <2>3, <2>5, <2>6, <3>1
  <2>8. CASE F[z] \notin Image(Y)
    <3>1. /\ Takers(Image(X))
          /\ UsedRBs(Image(X), g) = UsedRBs(Image(Y), g) + w[z]
          /\ UsedCUs(Image(X), g) = UsedCUs(Image(Y), g) + v[z]
      <4> DEFINE A == Image(Y)
                 e == F[z]
      <4>1. Takers(A) /\ e \notin A /\ e.rb \in Nat /\ e.cu \in Nat /\ Image(X) = A \cup {e}
            /\ e.rb = w[z] /\ e.cu = v[z] /\ e.off = g /\ e.pro = g
        BY <2>2, <2>4, <2>5, <2>8
      <4> HIDE DEF A, e
      <4>2. /\ Takers(A \cup {e})
            /\ UsedRBs(A \cup {e}, g) = UsedRBs(A, g) + IF e.off = g THEN e.rb ELSE 0
            /\ UsedCUs(A \cup {e}, g) = UsedCUs(A, g) + IF e.pro = g THEN e.cu ELSE 0
        BY <4>1, UsedByMore
      <4> QED BY <4>1, <4>2 DEF A
    <3> QED BY <2>2, <2>3, <2>5, <2>6, <3>1
  <2> QED BY <2>7, <2>8
<1>7. \A X \in SUBSET T : X \in Good
  <2>1. \A X \in SUBSET T : X # {} /\ (\A x \in X : X \ {x} \in Good) => X \in Good
    BY <1>6
  <2> HIDE DEF Good
  <2> QED BY <1>5, <2>1, SubsetInduction
<1>8. T \in SUBSET T /\ a[T] = SumOver(w, T) /\ b[T] = SumOver(v, T)
  BY <1>3, <1>4 DEF PartSums
<1> QED BY <1>2, <1>7, <1>8

\* what a gNB gives is no more than it has, and no application gets anything twice
FitIn(set, p) == \A g \in Gnbs : UsedRBs(set, g) <= p.rbs[g] /\ UsedCUs(set, g) <= p.cus[g]
OnePerApp(set) == \A i, j \in set : i.app = j.app => i = j
Schedule(set, s, p) == set \subseteq Serving(s, p) /\ IsFiniteSet(set) /\ OnePerApp(set) /\ FitIn(set, p)

\* what is served
LEMMA ServingFields ==
  ASSUME NEW s, NEW p \in InputType, NEW i \in Serving(s, p)
  PROVE  /\ i.app \in Apps /\ i.off \in Gnbs /\ i.pro \in Gnbs /\ i.rb \in Nat \ {0} /\ i.cu \in Nat \ {0}
         /\ i.srv \in Services /\ i.value \in Nat \ {0} /\ i.gain \in Int
         /\ i.rb <= p.rbs[i.off] /\ i.cu <= p.cus[i.pro]
         /\ i.rb <= RBShare(s, p, i.off) /\ i.cu <= CUShare(s, p, i.pro)
<1>1. i \in InstanceType /\ i.rb <= RBShare(s, p, i.off) /\ i.cu <= CUShare(s, p, i.pro)
  BY DEF Serving
<1>2. /\ i.app \in Apps /\ i.off \in Gnbs /\ i.pro \in Gnbs /\ i.rb \in Nat \ {0} /\ i.cu \in Nat \ {0}
      /\ i.srv \in Services /\ i.value \in Nat \ {0} /\ i.gain \in Int
  BY <1>1 DEF InstanceType
<1>3. RBShare(s, p, i.off) \in Nat /\ RBShare(s, p, i.off) <= p.rbs[i.off] /\ p.rbs[i.off] \in Nat
  BY <1>2, InputFields DEF RBShare
<1>4. CUShare(s, p, i.pro) \in Nat /\ CUShare(s, p, i.pro) <= p.cus[i.pro] /\ p.cus[i.pro] \in Nat
  BY <1>2, InputFields DEF CUShare
<1> QED BY <1>1, <1>2, <1>3, <1>4

LEMMA ScheduleTakes ==
  ASSUME NEW s, NEW p \in InputType, NEW S, S \subseteq Serving(s, p), IsFiniteSet(S)
  PROVE  Takers(S)
BY ServingFields DEF Takers

LEMMA ScheduleOfNone ==
  ASSUME NEW s, NEW p \in InputType
  PROVE  Schedule({}, s, p)
<1>1. FitIn({}, p)
  BY UsedByNone, InputFields DEF FitIn
<1> QED BY <1>1, FS_EmptySet DEF Schedule, OnePerApp

\* one more instance, of another application, that fits
LEMMA ScheduleGrows ==
  ASSUME NEW s, NEW p \in InputType, NEW S, Schedule(S, s, p), NEW i \in Serving(s, p),
         \A j \in S : j.app # i.app,
         i.rb + UsedRBs(S, i.off) <= p.rbs[i.off], i.cu + UsedCUs(S, i.pro) <= p.cus[i.pro]
  PROVE  Schedule(S \cup {i}, s, p)
<1>1. Takers(S) /\ i \notin S /\ i.rb \in Nat /\ i.cu \in Nat
  BY ScheduleTakes, ServingFields DEF Schedule
<1>2. ASSUME NEW g \in Gnbs
      PROVE  UsedRBs(S \cup {i}, g) <= p.rbs[g] /\ UsedCUs(S \cup {i}, g) <= p.cus[g]
  <2>1. /\ Takers(S \cup {i})
        /\ UsedRBs(S \cup {i}, g) = UsedRBs(S, g) + IF i.off = g THEN i.rb ELSE 0
        /\ UsedCUs(S \cup {i}, g) = UsedCUs(S, g) + IF i.pro = g THEN i.cu ELSE 0
    BY <1>1, UsedByMore
  <2>2. UsedRBs(S, g) \in Nat /\ UsedCUs(S, g) \in Nat
    BY <1>1, UsedTyped
  <2>3. UsedRBs(S, g) <= p.rbs[g] /\ UsedCUs(S, g) <= p.cus[g]
    BY DEF Schedule, FitIn
  <2>4. UsedRBs(S \cup {i}, g) <= p.rbs[g]
    BY <1>1, <2>1, <2>2, <2>3
  <2>5. UsedCUs(S \cup {i}, g) <= p.cus[g]
    BY <1>1, <2>1, <2>2, <2>3
  <2> QED BY <2>4, <2>5
<1>3. OnePerApp(S \cup {i})
  BY DEF Schedule, OnePerApp
<1>4. S \cup {i} \subseteq Serving(s, p) /\ IsFiniteSet(S \cup {i})
  BY FS_AddElement DEF Schedule
<1> QED BY <1>2, <1>3, <1>4 DEF Schedule, FitIn

\* the schedule that is returned of a sequence of instances
LEMMA AsFarAsItFitsServes ==
  ASSUME problem \in InputType, NEW seq \in Seq(Serving(scheme, problem))
  PROVE  Schedule(AsFarAsItFits(seq), scheme, problem)
<1> DEFINE S == Serving(scheme, problem)
           D == DOMAIN seq
           Ok == {T \in SUBSET S : Schedule(T, scheme, problem)}
           Fitting(set, i) == /\ \A j \in set : j.app # i.app
                              /\ UsedRBs(set, i.off) + i.rb <= problem.rbs[i.off]
                              /\ UsedCUs(set, i.pro) + i.cu <= problem.cus[i.pro]
           With(set, i) == IF Fitting(set, i) THEN set \cup {i} ELSE set
           choice == [T \in SUBSET D |-> Max(T)]
           step == [k \in D |-> [set \in Ok |-> With(set, seq[k])]]
           iter[T \in SUBSET D] == IF T = {} THEN {} ELSE LET k == Max(T) IN With(iter[T \ {k}], seq[k])
<1>1. D \subseteq Nat /\ IsFiniteSet(D) /\ \A k \in D : seq[k] \in S
  <2>1. D = 1 .. Len(seq) /\ Len(seq) \in Nat
    OBVIOUS
  <2> QED BY <2>1, FS_Interval, SMTT(60)
<1>2. {} \in Ok
  BY ScheduleOfNone
<1>3. ASSUME NEW T \in SUBSET D, T # {} PROVE Max(T) \in T
  <2>1. \E x \in T : \A y \in T : x >= y
    BY <1>1, <1>3, FS_Subset, GreatestNatural
  <2> QED BY <2>1 DEF Max
<1>4. ASSUME NEW set \in Ok, NEW i \in S PROVE With(set, i) \in Ok
  <2>1. CASE Fitting(set, i)
    <3>1. i.rb \in Nat /\ i.cu \in Nat /\ Takers(set)
      BY ServingFields, ScheduleTakes DEF Schedule
    <3>2. UsedRBs(set, i.off) \in Nat /\ UsedCUs(set, i.pro) \in Nat
      BY <3>1, UsedTyped
    <3>3. i.rb + UsedRBs(set, i.off) <= problem.rbs[i.off] /\ i.cu + UsedCUs(set, i.pro) <= problem.cus[i.pro]
      BY <2>1, <3>1, <3>2
    <3>4. Schedule(set \cup {i}, scheme, problem)
      BY <2>1, <3>3, ScheduleGrows
    <3> QED BY <2>1, <3>4
  <2>2. CASE ~Fitting(set, i)
    BY <2>2
  <2> QED BY <2>1, <2>2
<1>5. CanFold(D, Ok, {}, choice, step)
  <2>1. step \in [D -> [Ok -> Ok]]
    <3> HIDE DEF Ok, With
    <3> QED BY <1>1, <1>4
  <2> HIDE DEF Ok, step
  <2> QED BY <1>1, <1>2, <1>3, <2>1 DEF CanFold
<1>6. PICK f : f \in [SUBSET D -> Ok] /\ IsFold(f, D, {}, choice, step)
  <2> HIDE DEF D, Ok, choice, step, iter
  <2> QED BY <1>5, FoldExists
<1>7. \A T \in SUBSET D : f[T] = IF T = {} THEN {} ELSE LET k == Max(T) IN With(f[T \ {k}], seq[k])
  <2> SUFFICES ASSUME NEW T \in SUBSET D PROVE f[T] = IF T = {} THEN {} ELSE LET k == Max(T) IN With(f[T \ {k}], seq[k])
    OBVIOUS
  <2>1. CASE T = {}
    BY <1>6, <2>1, Zenon DEF IsFold
  <2>2. CASE T # {}
    <3> DEFINE k == Max(T)
    <3>1. k \in D /\ T \ {k} \in SUBSET D /\ choice[T] = k
      BY <1>3, <2>2
    <3>2. f[T] = step[k][f[T \ {k}]] /\ f[T \ {k}] \in Ok
      <4> HIDE DEF Ok, step, D, k, choice
      <4> QED BY <1>6, <2>2, <3>1 DEF IsFold
    <3>3. step[k][f[T \ {k}]] = With(f[T \ {k}], seq[k])
      <4> HIDE DEF Ok, With, D, k
      <4> QED BY <3>1, <3>2
    <3> QED BY <2>2, <3>2, <3>3, Zenon
  <2> QED BY <2>1, <2>2, ZenonT(60)
<1>8. f = [T \in SUBSET D |-> IF T = {} THEN {} ELSE LET k == Max(T) IN With(f[T \ {k}], seq[k])]
  <2> HIDE DEF D, With, Ok, iter, step, choice
  <2> QED BY <1>6, <1>7
<1>9. iter = [T \in SUBSET D |-> IF T = {} THEN {} ELSE LET k == Max(T) IN With(iter[T \ {k}], seq[k])]
  <2> HIDE DEF D, With
  <2> QED BY <1>8
<1>10. AsFarAsItFits(seq) = iter[D]
  BY DEF AsFarAsItFits, FoldLeft, MapThenFoldSet
<1> DEFINE Good == {T \in SUBSET D : iter[T] \in Ok}
<1>11. \A T \in SUBSET D : T \in Good
  <2> HIDE DEF iter, With, Ok
  <2>1. {} \in Good
    BY <1>2, <1>9
  <2>2. ASSUME NEW T \in SUBSET D, T # {}, \A x \in T : T \ {x} \in Good PROVE T \in Good
    <3>1. iter[T] = With(iter[T \ {Max(T)}], seq[Max(T)])
      BY <1>9, <2>2
    <3>2. Max(T) \in T /\ iter[T \ {Max(T)}] \in Ok /\ seq[Max(T)] \in S
      BY <1>1, <1>3, <2>2
    <3> QED BY <1>4, <3>1, <3>2
  <2>3. \A T \in SUBSET D : T # {} /\ (\A x \in T : T \ {x} \in Good) => T \in Good
    BY <2>2
  <2> HIDE DEF Good, D
  <2> QED BY <1>1, <2>1, <2>3, SubsetInduction
<1> HIDE DEF iter
<1> QED BY <1>10, <1>11

-----------------------------------------------------------------------------
(* Sorted sequences.                                                        *)

\* R orders the members of S
Orders(R, S) ==
    /\ \A k \in S : <<k, k>> \notin R
    /\ \A k, l \in S : k # l => <<k, l>> \in R \/ <<l, k>> \in R
    /\ \A k, l, m \in S : <<k, l>> \in R /\ <<l, m>> \in R => <<k, m>> \in R

\* there is a last one
LEMMA LastInOrder ==
  ASSUME NEW S, IsFiniteSet(S), S # {}, NEW R, Orders(R, S)
  PROVE  \E k \in S : \A l \in S \ {k} : <<l, k>> \in R
<1> DEFINE Good == {T \in SUBSET S : T # {} => \E k \in T : \A l \in T \ {k} : <<l, k>> \in R}
<1>1. ASSUME NEW T \in SUBSET S, T # {}, \A x \in T : T \ {x} \in Good PROVE T \in Good
  <2>1. PICK z \in T : TRUE
    BY <1>1
  <2>2. CASE T = {z}
    BY <2>2
  <2>3. CASE T # {z}
    <3>1. PICK k \in T \ {z} : \A l \in (T \ {z}) \ {k} : <<l, k>> \in R
      BY <1>1, <2>1, <2>3
    <3>2. k \in S /\ z \in S /\ k # z
      BY <3>1
    <3>3. CASE <<z, k>> \in R
      <4>1. \A l \in T \ {k} : <<l, k>> \in R
        BY <3>1, <3>3
      <4> QED BY <3>1, <4>1
    <3>4. CASE <<k, z>> \in R
      <4>1. ASSUME NEW l \in T \ {z} PROVE <<l, z>> \in R
        <5>1. CASE l = k
          BY <3>4, <5>1
        <5>2. CASE l # k
          <6>1. <<l, k>> \in R /\ l \in S
            BY <3>1, <5>2
          <6> QED BY <3>2, <3>4, <6>1 DEF Orders
        <5> QED BY <5>1, <5>2
      <4> QED BY <2>1, <4>1
    <3> QED BY <3>2, <3>3, <3>4 DEF Orders
  <2> QED BY <2>2, <2>3
<1>2. \A T \in SUBSET S : T \in Good
  <2>1. {} \in Good
    OBVIOUS
  <2>2. \A T \in SUBSET S : T # {} /\ (\A x \in T : T \ {x} \in Good) => T \in Good
    BY <1>1
  <2> HIDE DEF Good
  <2> QED BY <2>1, <2>2, SubsetInduction
<1> QED BY <1>2

\* and one of every rank
LEMMA EveryRankTaken ==
  ASSUME NEW S, IsFiniteSet(S), NEW R, Orders(R, S)
  PROVE  \A n \in 1 .. Cardinality(S) : \E k \in S : Cardinality({l \in S : <<l, k>> \in R}) = n - 1
<1> DEFINE Below(T, k) == {l \in T : <<l, k>> \in R}
           Good == {T \in SUBSET S : \A n \in 1 .. Cardinality(T) : \E k \in T : Cardinality(Below(T, k)) = n - 1}
<1>1. ASSUME NEW T \in SUBSET S, T # {}, \A x \in T : T \ {x} \in Good PROVE T \in Good
  <2>0. IsFiniteSet(T) /\ Orders(R, T)
    BY FS_Subset DEF Orders
  <2>1. PICK z \in T : \A l \in T \ {z} : <<l, z>> \in R
    BY <1>1, <2>0, LastInOrder
  <2> DEFINE U == T \ {z}
  <2>2. Cardinality(U) = Cardinality(T) - 1 /\ Cardinality(T) \in Nat
    BY <2>0, FS_RemoveElement, FS_CardinalityType
  <2>3. Below(T, z) = U
    <3>1. <<z, z>> \notin R
      BY <2>0 DEF Orders
    <3> QED BY <2>1, <3>1
  <2>4. ASSUME NEW k \in U PROVE Below(T, k) = Below(U, k)
    <3>1. <<k, z>> \in R /\ <<k, k>> \notin R
      BY <2>0, <2>1 DEF Orders
    <3>2. <<z, k>> \notin R
      BY <2>0, <3>1 DEF Orders
    <3> QED BY <3>2
  <2>5. ASSUME NEW n \in 1 .. Cardinality(T) PROVE \E k \in T : Cardinality(Below(T, k)) = n - 1
    <3>1. CASE n = Cardinality(T)
      BY <2>2, <2>3, <3>1
    <3>2. CASE n # Cardinality(T)
      <4>1. n \in 1 .. Cardinality(U)
        BY <2>2, <3>2
      <4>2. U \in Good
        BY <1>1
      <4>3. PICK k \in U : Cardinality(Below(U, k)) = n - 1
        BY <4>1, <4>2
      <4> QED BY <2>4, <4>3
    <3> QED BY <3>1, <3>2
  <2> HIDE DEF Below
  <2> QED BY <2>5
<1>2. \A T \in SUBSET S : T \in Good
  <2>1. {} \in Good
    BY FS_EmptySet
  <2>2. \A T \in SUBSET S : T # {} /\ (\A x \in T : T \ {x} \in Good) => T \in Good
    BY <1>1
  <2> HIDE DEF Good
  <2> QED BY <2>1, <2>2, SubsetInduction
<1>3. S \in SUBSET S
  OBVIOUS
<1>4. S \in Good
  BY <1>2, <1>3
<1> QED BY <1>4

\* the members of S in the order R
Ranked(S, R) ==
    [n \in 1 .. Cardinality(S) |-> CHOOSE k \in S : Cardinality({l \in S : <<l, k>> \in R}) = n - 1]

LEMMA RankedTyped ==
  ASSUME NEW S, IsFiniteSet(S), NEW R, Orders(R, S)
  PROVE  Ranked(S, R) \in Seq(S)
<1> DEFINE Rank(k) == Cardinality({l \in S : <<l, k>> \in R})
           seq == [n \in 1 .. Cardinality(S) |-> CHOOSE k \in S : Rank(k) = n - 1]
<1>1. \A n \in 1 .. Cardinality(S) : \E k \in S : Rank(k) = n - 1
  BY EveryRankTaken
<1> HIDE DEF Rank
<1>2. \A n \in 1 .. Cardinality(S) : (CHOOSE k \in S : Rank(k) = n - 1) \in S
  BY <1>1
<1>3. Cardinality(S) \in Nat
  BY FS_CardinalityType
<1>4. seq \in [1 .. Cardinality(S) -> S]
  BY <1>2
<1> HIDE DEF seq
<1>5. seq \in Seq(S)
  BY <1>3, <1>4
<1> QED BY <1>5 DEF Rank, seq, Ranked

\* the schedule in the order of the applications
LEMMA SortedByApp ==
  ASSUME NEW S, IsFiniteSet(S), OnePerApp(S), \A i \in S : i.app \in Nat
  PROVE  Sorted(S, LAMBDA i, j : i.app < j.app) \in Seq(S)
<1> DEFINE R == {r \in S \X S : r[1].app < r[2].app}
<1>1. \A k, l \in S : <<k, l>> \in R <=> k.app < l.app
  OBVIOUS
<1> HIDE DEF R
<1>2. Orders(R, S)
  BY <1>1 DEF Orders, OnePerApp
<1>3. \A k \in S : {l \in S : <<l, k>> \in R} = {l \in S : l.app < k.app}
  BY <1>1
<1>4. Sorted(S, LAMBDA i, j : i.app < j.app)
        = [n \in 1 .. Cardinality(S) |-> CHOOSE k \in S : Cardinality({l \in S : l.app < k.app}) = n - 1]
  BY DEF Sorted
<1>5. Sorted(S, LAMBDA i, j : i.app < j.app) = Ranked(S, R)
  <2>1. \A n : (CHOOSE k \in S : Cardinality({l \in S : l.app < k.app}) = n - 1)
                = (CHOOSE k \in S : Cardinality({l \in S : <<l, k>> \in R}) = n - 1)
    BY <1>3
  <2> QED BY <1>4, <2>1 DEF Ranked
<1> QED BY <1>2, <1>5, RankedTyped

\* the instances of the solution, the most valuable first
LEMMA SortedByValue ==
  ASSUME NEW S, IsFiniteSet(S), S \subseteq Nat, \A k \in S : insts[k].value \in Nat
  PROVE  Sorted(S, LAMBDA k, l : Precedence(k, l, LAMBDA n : insts[n].value)) \in Seq(S)
<1> DEFINE Before(k, l) == insts[k].value > insts[l].value \/ (insts[k].value = insts[l].value /\ k < l)
           R == {r \in S \X S : Before(r[1], r[2])}
<1>1. \A k, l \in S : <<k, l>> \in R <=> Before(k, l)
  BY Zenon
<1> HIDE DEF R
<1>2. Orders(R, S)
  <2>1. ASSUME NEW k \in S, NEW l \in S, NEW m \in S, Before(k, l), Before(l, m) PROVE Before(k, m)
    <3>1. insts[k].value \in Nat /\ insts[l].value \in Nat /\ insts[m].value \in Nat
          /\ k \in Nat /\ l \in Nat /\ m \in Nat
      OBVIOUS
    <3> QED BY <2>1, <3>1
  <2>2. ASSUME NEW k \in S, NEW l \in S
        PROVE  ~Before(k, k) /\ (k # l => Before(k, l) \/ Before(l, k))
    <3>1. insts[k].value \in Nat /\ insts[l].value \in Nat /\ k \in Nat /\ l \in Nat
      OBVIOUS
    <3> QED BY <3>1
  <2> HIDE DEF Before
  <2> QED BY <1>1, <2>1, <2>2 DEF Orders
<1>3. \A k \in S : {l \in S : <<l, k>> \in R} = {l \in S : Before(l, k)}
  BY <1>1
<1>4. Sorted(S, LAMBDA k, l : Precedence(k, l, LAMBDA n : insts[n].value))
        = [n \in 1 .. Cardinality(S) |-> CHOOSE k \in S : Cardinality({l \in S : Before(l, k)}) = n - 1]
  BY DEF Sorted, Precedence
<1>5. Sorted(S, LAMBDA k, l : Precedence(k, l, LAMBDA n : insts[n].value)) = Ranked(S, R)
  <2> HIDE DEF Before
  <2>1. \A n : (CHOOSE k \in S : Cardinality({l \in S : Before(l, k)}) = n - 1)
                = (CHOOSE k \in S : Cardinality({l \in S : <<l, k>> \in R}) = n - 1)
    BY <1>3
  <2> QED BY <1>4, <2>1 DEF Ranked
<1> QED BY <1>2, <1>5, RankedTyped

\* the hyperedges are those of its instances
LEMMA EdgesOfInstances ==
  ASSUME IsFiniteSet(DOMAIN share), DOMAIN share \subseteq Nat, \A k \in DOMAIN share : insts[k].value \in Nat
  PROVE  MergeBipartiteGraphs \in Seq({Edge(k) : k \in DOMAIN share})
<1> DEFINE E == {Edge(k) : k \in DOMAIN share}
           Ok == Seq(E)
           seq == Sorted(DOMAIN share, LAMBDA k, l : Precedence(k, l, LAMBDA n : insts[n].value))
           D == DOMAIN seq
           With(es, k) == IF \E n \in DOMAIN es : SameEdge(es[n], Edge(k)) THEN es ELSE Append(es, Edge(k))
           choice == [T \in SUBSET D |-> Max(T)]
           step == [k \in D |-> [es \in Ok |-> With(es, seq[k])]]
           iter[T \in SUBSET D] == IF T = {} THEN <<>> ELSE LET k == Max(T) IN With(iter[T \ {k}], seq[k])
<1>0. seq \in Seq(DOMAIN share)
  BY SortedByValue
<1>1. D \subseteq Nat /\ IsFiniteSet(D) /\ \A k \in D : seq[k] \in DOMAIN share
  <2> HIDE DEF seq
  <2>1. D = 1 .. Len(seq) /\ Len(seq) \in Nat
    BY <1>0
  <2> QED BY <1>0, <2>1, FS_Interval, MemberOf, SMTT(60)
<1>2. <<>> \in Ok
  <2> HIDE DEF E
  <2> QED OBVIOUS
<1>3. ASSUME NEW T \in SUBSET D, T # {} PROVE Max(T) \in T
  <2> HIDE DEF D
  <2>1. \E x \in T : \A y \in T : x >= y
    BY <1>1, <1>3, FS_Subset, GreatestNatural
  <2> QED BY <2>1 DEF Max
<1>4. ASSUME NEW es \in Ok, NEW k \in DOMAIN share PROVE With(es, k) \in Ok
  <2>1. Edge(k) \in E
    OBVIOUS
  <2> HIDE DEF E
  <2> QED BY <2>1
<1>5. CanFold(D, Ok, <<>>, choice, step)
  <2>1. step \in [D -> [Ok -> Ok]]
    <3> HIDE DEF Ok, With, D, seq
    <3> QED BY <1>1, <1>4
  <2> HIDE DEF Ok, step, D, seq
  <2> QED BY <1>1, <1>2, <1>3, <2>1 DEF CanFold
<1>6. PICK f : f \in [SUBSET D -> Ok] /\ IsFold(f, D, <<>>, choice, step)
  <2> HIDE DEF D, Ok, choice, step, iter, seq
  <2> QED BY <1>5, FoldExists
<1>7. \A T \in SUBSET D : f[T] = IF T = {} THEN <<>> ELSE LET k == Max(T) IN With(f[T \ {k}], seq[k])
  <2> SUFFICES ASSUME NEW T \in SUBSET D PROVE f[T] = IF T = {} THEN <<>> ELSE LET k == Max(T) IN With(f[T \ {k}], seq[k])
    OBVIOUS
  <2>1. CASE T = {}
    <3> HIDE DEF D, With, seq, Ok, choice, step
    <3> QED BY <1>6, <2>1 DEF IsFold
  <2>2. CASE T # {}
    <3> DEFINE k == Max(T)
    <3>1. k \in D /\ T \ {k} \in SUBSET D /\ choice[T] = k
      <4> HIDE DEF D
      <4> QED BY <1>3, <2>2
    <3>2. f[T] = step[k][f[T \ {k}]] /\ f[T \ {k}] \in Ok
      <4> HIDE DEF Ok, step, D, k, choice
      <4> QED BY <1>6, <2>2, <3>1 DEF IsFold
    <3>3. step[k][f[T \ {k}]] = With(f[T \ {k}], seq[k])
      <4> HIDE DEF Ok, With, D, k, seq
      <4> QED BY <3>1, <3>2
    <3> HIDE DEF With, seq, step, Ok, D
    <3> QED BY <2>2, <3>2, <3>3
  <2> QED BY <2>1, <2>2
<1>8. f = [T \in SUBSET D |-> IF T = {} THEN <<>> ELSE LET k == Max(T) IN With(f[T \ {k}], seq[k])]
  <2> HIDE DEF D, With, Ok, iter, step, choice, seq
  <2> QED BY <1>6, <1>7
<1>9. iter = [T \in SUBSET D |-> IF T = {} THEN <<>> ELSE LET k == Max(T) IN With(iter[T \ {k}], seq[k])]
  <2> HIDE DEF D, With, seq
  <2> QED BY <1>8
<1>10. MergeBipartiteGraphs = iter[D]
  BY DEF MergeBipartiteGraphs, FoldLeft, MapThenFoldSet
<1> DEFINE Good == {T \in SUBSET D : iter[T] \in Ok}
<1>11. \A T \in SUBSET D : T \in Good
  <2> HIDE DEF iter, With, Ok, seq
  <2>1. {} \in Good
    BY <1>2, <1>9
  <2>2. ASSUME NEW T \in SUBSET D, T # {}, \A x \in T : T \ {x} \in Good PROVE T \in Good
    <3> HIDE DEF D
    <3>1. iter[T] = With(iter[T \ {Max(T)}], seq[Max(T)])
      BY <1>9, <2>2
    <3>2. Max(T) \in T /\ iter[T \ {Max(T)}] \in Ok /\ seq[Max(T)] \in DOMAIN share
      BY <1>1, <1>3, <2>2
    <3> QED BY <1>4, <3>1, <3>2
  <2>3. \A T \in SUBSET D : T # {} /\ (\A x \in T : T \ {x} \in Good) => T \in Good
    BY <2>2
  <2> HIDE DEF Good, D
  <2> QED BY <1>1, <2>1, <2>3, SubsetInduction
<1> HIDE DEF iter, D
<1>12. D \in SUBSET D
  OBVIOUS
<1> QED BY <1>10, <1>11, <1>12

\* an image of a finite set is finite
LEMMA ImageFinite ==
  ASSUME NEW f, IsFiniteSet(DOMAIN f)
  PROVE  IsFiniteSet({f[x] : x \in DOMAIN f})
<1> DEFINE T == {f[x] : x \in DOMAIN f}
           g == [x \in DOMAIN f |-> f[x]]
<1>1. g \in Surjection(DOMAIN f, T)
  BY DEF Surjection
<1> HIDE DEF g, T
<1>2. IsFiniteSet(T)
  BY <1>1, FS_Surjection
<1> QED BY <1>2 DEF T

-----------------------------------------------------------------------------
(* Solutions of linear programs.                                            *)

\* a solution gives shares to some of the items
Weights(items) == UNION {[T -> Nat] : T \in SUBSET items}

LEMMA PortionsTyped ==
  ASSUME NEW items, NEW S, S \subseteq items
  PROVE  Portions(S) \subseteq Weights(items)
<1>1. Grain \in Nat
  BY SearchAssumption
<1>2. <<>> \in Weights(items)
  <2>1. <<>> \in [{} -> Nat] /\ {} \in SUBSET items
    OBVIOUS
  <2> QED BY <2>1 DEF Weights
<1>3. ASSUME NEW k \in S, NEW l \in S PROVE [m \in {k, l} |-> 1] \in Weights(items)
  <2>1. [m \in {k, l} |-> 1] \in [{k, l} -> Nat] /\ {k, l} \in SUBSET items
    OBVIOUS
  <2> QED BY <2>1 DEF Weights
<1> DEFINE One == {[m \in {k} |-> s] : k \in S, s \in 1 .. Grain}
           Two == {[m \in pair |-> 1] : pair \in {{k, l} : k, l \in S}}
<1>4. Portions(S) = {<<>>} \cup One \cup Two
  BY DEF Portions
<1>5. ASSUME NEW x \in One PROVE x \in Weights(items)
  <2>1. \E k \in S : \E s \in 1 .. Grain : x = [m \in {k} |-> s]
    OBVIOUS
  <2> HIDE DEF One
  <2>2. PICK j \in S, t \in 1 .. Grain : x = [m \in {j} |-> t]
    BY <2>1
  <2>3. [m \in {j} |-> t] \in [{j} -> Nat] /\ {j} \in SUBSET items
    BY <1>1
  <2> QED BY <2>2, <2>3 DEF Weights
<1>6. ASSUME NEW x \in Two PROVE x \in Weights(items)
  <2>1. PICK pair \in {{k, l} : k, l \in S} : x = [m \in pair |-> 1]
    OBVIOUS
  <2>2. PICK k \in S, l \in S : pair = {k, l}
    OBVIOUS
  <2> QED BY <1>3, <2>1, <2>2
<1> HIDE DEF One, Two
<1> QED BY <1>2, <1>4, <1>5, <1>6

LEMMA JoinedTyped ==
  ASSUME NEW items, NEW x \in Weights(items), NEW y \in Weights(items)
  PROVE  Joined(x, y) \in Weights(items)
<1>1. PICK T \in SUBSET items : x \in [T -> Nat]
  BY DEF Weights
<1>2. PICK U \in SUBSET items : y \in [U -> Nat]
  BY DEF Weights
<1>3. Joined(x, y) \in [T \cup U -> Nat] /\ T \cup U \in SUBSET items
  BY <1>1, <1>2 DEF Joined
<1> QED BY <1>3 DEF Weights

\* a solution of the first program is one of instances
LEMMA LPOfInstances ==
  ASSUME IsFiniteSet(DOMAIN insts)
  PROVE  \A x \in LPSolutions : DOMAIN x \subseteq DOMAIN insts
<1> DEFINE items == DOMAIN insts
           W == Weights(items)
           Ok == SUBSET W
           D == {AppOfInst(k) : k \in items}
           Within(x) == WithinLimits(x)
           At(a) == Portions({k \in items : AppOfInst(k) = a})
           Of(a, set) == {x \in {Joined(x, y) : x \in set, y \in At(a)} : Within(x)}
           choice == [T \in SUBSET D |-> CHOOSE a \in T : TRUE]
           step == [a \in D |-> [set \in Ok |-> Of(a, set)]]
           iter[T \in SUBSET D] == IF T = {} THEN {<<>>} ELSE LET a == CHOOSE a \in T : TRUE IN Of(a, iter[T \ {a}])
<1>1. IsFiniteSet(D)
  <2> HIDE DEF items
  <2> DEFINE app == [k \in items |-> AppOfInst(k)]
  <2>1. IsFiniteSet(items)
    BY DEF items
  <2>2. DOMAIN app = items /\ D = {app[k] : k \in DOMAIN app}
    OBVIOUS
  <2> HIDE DEF app, D
  <2> QED BY <2>1, <2>2, ImageFinite
<1>2. {<<>>} \in Ok
  <2>1. <<>> \in Portions({})
    BY DEF Portions
  <2>2. Portions({}) \subseteq W
    <3> HIDE DEF items
    <3> QED BY PortionsTyped
  <2> QED BY <2>1, <2>2
<1>3. ASSUME NEW T \in SUBSET D, T # {} PROVE (CHOOSE a \in T : TRUE) \in T
  BY <1>3
<1>4. ASSUME NEW set \in Ok, NEW a PROVE Of(a, set) \in Ok
  <2>1. At(a) \subseteq W
    <3> HIDE DEF items
    <3> QED BY PortionsTyped
  <2>2. ASSUME NEW x \in set, NEW y \in At(a) PROVE Joined(x, y) \in W
    <3> HIDE DEF items, At
    <3> QED BY <2>1, JoinedTyped
  <2> HIDE DEF W, At, Within
  <2> QED BY <2>2
<1>5. CanFold(D, Ok, {<<>>}, choice, step)
  <2>1. step \in [D -> [Ok -> Ok]]
    <3> HIDE DEF Ok, Of, D
    <3> QED BY <1>4
  <2> HIDE DEF Ok, step, D
  <2> QED BY <1>1, <1>2, <1>3, <2>1 DEF CanFold
<1>6. PICK f : f \in [SUBSET D -> Ok] /\ IsFold(f, D, {<<>>}, choice, step)
  <2> HIDE DEF D, Ok, choice, step, iter
  <2> QED BY <1>5, FoldExists
<1>7. \A T \in SUBSET D : f[T] = IF T = {} THEN {<<>>} ELSE LET a == CHOOSE a \in T : TRUE IN Of(a, f[T \ {a}])
  <2>1. ASSUME NEW T \in SUBSET D, T = {} PROVE f[T] = {<<>>}
    <3> HIDE DEF D, Of, Ok, choice, step
    <3> QED BY <1>6, <2>1 DEF IsFold
  <2>2. ASSUME NEW T \in SUBSET D, T # {}
        PROVE  f[T] = LET a == CHOOSE a \in T : TRUE IN Of(a, f[T \ {a}])
    <3> DEFINE b == CHOOSE a \in T : TRUE
    <3>1. b \in D /\ T \ {b} \in SUBSET D /\ choice[T] = b
      <4> HIDE DEF D
      <4> QED BY <1>3, <2>2
    <3>2. f[T] = step[b][f[T \ {b}]] /\ f[T \ {b}] \in Ok
      <4> HIDE DEF Ok, step, D, b, choice
      <4> QED BY <1>6, <2>2, <3>1 DEF IsFold
    <3>3. step[b][f[T \ {b}]] = Of(b, f[T \ {b}])
      <4> HIDE DEF Ok, Of, D, b
      <4> QED BY <3>1, <3>2
    <3> HIDE DEF Of, step, Ok, D
    <3> QED BY <2>2, <3>2, <3>3
  <2> HIDE DEF D, Of
  <2> QED BY <2>1, <2>2
<1>8. f = [T \in SUBSET D |-> IF T = {} THEN {<<>>} ELSE LET a == CHOOSE a \in T : TRUE IN Of(a, f[T \ {a}])]
  <2> HIDE DEF D, Of, Ok, iter, step, choice
  <2> QED BY <1>6, <1>7
<1>9. iter = [T \in SUBSET D |-> IF T = {} THEN {<<>>} ELSE LET a == CHOOSE a \in T : TRUE IN Of(a, iter[T \ {a}])]
  <2> HIDE DEF D, Of
  <2> QED BY <1>8, Zenon
<1>10. LPSolutions \subseteq iter[D]
  BY DEF LPSolutions, Optima, FoldSet, MapThenFoldSet
<1> DEFINE Good == {T \in SUBSET D : iter[T] \in Ok}
<1>11. \A T \in SUBSET D : T \in Good
  <2> HIDE DEF iter, Of, Ok
  <2>1. {} \in Good
    BY <1>2, <1>9
  <2>2. ASSUME NEW T \in SUBSET D, T # {}, \A x \in T : T \ {x} \in Good PROVE T \in Good
    <3> DEFINE b == CHOOSE a \in T : TRUE
    <3> HIDE DEF D
    <3>1. iter[T] = Of(b, iter[T \ {b}])
      BY <1>9, <2>2
    <3>2. b \in T /\ iter[T \ {b}] \in Ok
      BY <1>3, <2>2
    <3> QED BY <1>4, <3>1, <3>2
  <2>3. \A T \in SUBSET D : T # {} /\ (\A x \in T : T \ {x} \in Good) => T \in Good
    BY <2>2
  <2> HIDE DEF Good, D
  <2> QED BY <1>1, <2>1, <2>3, SubsetInduction
<1> HIDE DEF iter, D
<1>12. \A x \in LPSolutions : x \in W
  BY <1>10, <1>11
<1>13. \A x \in W : DOMAIN x \subseteq items
  BY DEF Weights
<1> HIDE DEF W
<1> QED BY <1>12, <1>13

\* and one of the second program of edges
LEMMA MatchingOfEdges ==
  ASSUME IsFiniteSet(DOMAIN edges)
  PROVE  \A x \in Optima(DOMAIN edges, AppOfEdge, WeightOfEdge, AtMostOnePerNode) : DOMAIN x \subseteq DOMAIN edges
<1> DEFINE items == DOMAIN edges
           W == Weights(items)
           Ok == SUBSET W
           D == {AppOfEdge(k) : k \in items}
           Within(x) == AtMostOnePerNode(x)
           At(a) == Portions({k \in items : AppOfEdge(k) = a})
           Of(a, set) == {x \in {Joined(x, y) : x \in set, y \in At(a)} : Within(x)}
           choice == [T \in SUBSET D |-> CHOOSE a \in T : TRUE]
           step == [a \in D |-> [set \in Ok |-> Of(a, set)]]
           iter[T \in SUBSET D] == IF T = {} THEN {<<>>} ELSE LET a == CHOOSE a \in T : TRUE IN Of(a, iter[T \ {a}])
<1>1. IsFiniteSet(D)
  <2> HIDE DEF items
  <2> DEFINE app == [k \in items |-> AppOfEdge(k)]
  <2>1. IsFiniteSet(items)
    BY DEF items
  <2>2. DOMAIN app = items /\ D = {app[k] : k \in DOMAIN app}
    OBVIOUS
  <2> HIDE DEF app, D
  <2> QED BY <2>1, <2>2, ImageFinite
<1>2. {<<>>} \in Ok
  <2>1. <<>> \in Portions({})
    BY DEF Portions
  <2>2. Portions({}) \subseteq W
    <3> HIDE DEF items
    <3> QED BY PortionsTyped
  <2> QED BY <2>1, <2>2
<1>3. ASSUME NEW T \in SUBSET D, T # {} PROVE (CHOOSE a \in T : TRUE) \in T
  BY <1>3
<1>4. ASSUME NEW set \in Ok, NEW a PROVE Of(a, set) \in Ok
  <2>1. At(a) \subseteq W
    <3> HIDE DEF items
    <3> QED BY PortionsTyped
  <2>2. ASSUME NEW x \in set, NEW y \in At(a) PROVE Joined(x, y) \in W
    <3> HIDE DEF items, At
    <3> QED BY <2>1, JoinedTyped
  <2> HIDE DEF W, At, Within
  <2> QED BY <2>2
<1>5. CanFold(D, Ok, {<<>>}, choice, step)
  <2>1. step \in [D -> [Ok -> Ok]]
    <3> HIDE DEF Ok, Of, D
    <3> QED BY <1>4
  <2> HIDE DEF Ok, step, D
  <2> QED BY <1>1, <1>2, <1>3, <2>1 DEF CanFold
<1>6. PICK f : f \in [SUBSET D -> Ok] /\ IsFold(f, D, {<<>>}, choice, step)
  <2> HIDE DEF D, Ok, choice, step, iter
  <2> QED BY <1>5, FoldExists
<1>7. \A T \in SUBSET D : f[T] = IF T = {} THEN {<<>>} ELSE LET a == CHOOSE a \in T : TRUE IN Of(a, f[T \ {a}])
  <2>1. ASSUME NEW T \in SUBSET D, T = {} PROVE f[T] = {<<>>}
    <3> HIDE DEF D, Of, Ok, choice, step
    <3> QED BY <1>6, <2>1 DEF IsFold
  <2>2. ASSUME NEW T \in SUBSET D, T # {}
        PROVE  f[T] = LET a == CHOOSE a \in T : TRUE IN Of(a, f[T \ {a}])
    <3> DEFINE b == CHOOSE a \in T : TRUE
    <3>1. b \in D /\ T \ {b} \in SUBSET D /\ choice[T] = b
      <4> HIDE DEF D
      <4> QED BY <1>3, <2>2
    <3>2. f[T] = step[b][f[T \ {b}]] /\ f[T \ {b}] \in Ok
      <4> HIDE DEF Ok, step, D, b, choice
      <4> QED BY <1>6, <2>2, <3>1 DEF IsFold
    <3>3. step[b][f[T \ {b}]] = Of(b, f[T \ {b}])
      <4> HIDE DEF Ok, Of, D, b
      <4> QED BY <3>1, <3>2
    <3> HIDE DEF Of, step, Ok, D
    <3> QED BY <2>2, <3>2, <3>3
  <2> HIDE DEF D, Of
  <2> QED BY <2>1, <2>2
<1>8. f = [T \in SUBSET D |-> IF T = {} THEN {<<>>} ELSE LET a == CHOOSE a \in T : TRUE IN Of(a, f[T \ {a}])]
  <2> HIDE DEF D, Of, Ok, iter, step, choice
  <2> QED BY <1>6, <1>7
<1>9. iter = [T \in SUBSET D |-> IF T = {} THEN {<<>>} ELSE LET a == CHOOSE a \in T : TRUE IN Of(a, iter[T \ {a}])]
  <2> HIDE DEF D, Of
  <2> QED BY <1>8
<1>10. Optima(DOMAIN edges, AppOfEdge, WeightOfEdge, AtMostOnePerNode) \subseteq iter[D]
  BY DEF Optima, FoldSet, MapThenFoldSet
<1> DEFINE Good == {T \in SUBSET D : iter[T] \in Ok}
<1>11. \A T \in SUBSET D : T \in Good
  <2> HIDE DEF iter, Of, Ok
  <2>1. {} \in Good
    BY <1>2, <1>9
  <2>2. ASSUME NEW T \in SUBSET D, T # {}, \A x \in T : T \ {x} \in Good PROVE T \in Good
    <3> DEFINE b == CHOOSE a \in T : TRUE
    <3> HIDE DEF D
    <3>1. iter[T] = Of(b, iter[T \ {b}])
      BY <1>9, <2>2
    <3>2. b \in T /\ iter[T \ {b}] \in Ok
      BY <1>3, <2>2
    <3> QED BY <1>4, <3>1, <3>2
  <2>3. \A T \in SUBSET D : T # {} /\ (\A x \in T : T \ {x} \in Good) => T \in Good
    BY <2>2
  <2> HIDE DEF Good, D
  <2> QED BY <1>1, <2>1, <2>3, SubsetInduction
<1> HIDE DEF iter, D
<1>12. \A x \in Optima(DOMAIN edges, AppOfEdge, WeightOfEdge, AtMostOnePerNode) : x \in W
  BY <1>10, <1>11
<1>13. \A x \in W : DOMAIN x \subseteq items
  BY DEF Weights
<1> HIDE DEF W
<1> QED BY <1>12, <1>13

-----------------------------------------------------------------------------
(* The updated utility of an instance.                                      *)

\* the gains of the candidates are what was added
Counted == (\E S : cands \in Seq(S)) /\ \A k \in DOMAIN cands : cands[k].gain \in Nat

LEMMA TakenTyped ==
  ASSUME Counted, NEW i
  PROVE  TakenByApp(i) \in Nat /\ TakenAtOff(i) \in Nat /\ TakenAtPro(i) \in Nat
<1>1. IsFiniteSet(DOMAIN cands)
  <2>1. PICK S : cands \in Seq(S)
    BY DEF Counted
  <2>2. DOMAIN cands = 1 .. Len(cands) /\ Len(cands) \in Nat
    BY <2>1
  <2> QED BY <2>2, FS_Interval
<1>2. ASSUME NEW S, S \subseteq DOMAIN cands
      PROVE  MapThenSumSet(LAMBDA k : cands[k].gain, S) \in Nat
  <2>1. IsFiniteSet(S) /\ \A k \in S : cands[k].gain \in Nat
    BY <1>1, <1>2, FS_Subset DEF Counted
  <2>2. [k \in S |-> cands[k].gain] \in [S -> Nat]
    BY <2>1
  <2>3. SumOver([k \in S |-> cands[k].gain], S) \in Nat
    BY <2>1, <2>2, SumOverTyped
  <2> QED BY <2>1, <2>3, SumOfGains
<1> DEFINE A == {k \in DOMAIN cands : cands[k].app = i.app}
           B == {k \in DOMAIN cands : cands[k].app # i.app /\ cands[k].off = i.off}
           C == {k \in DOMAIN cands : cands[k].app # i.app /\ cands[k].pro = i.pro}
<1>3. /\ TakenByApp(i) = MapThenSumSet(LAMBDA k : cands[k].gain, A)
      /\ TakenAtOff(i) = MapThenSumSet(LAMBDA k : cands[k].gain, B)
      /\ TakenAtPro(i) = MapThenSumSet(LAMBDA k : cands[k].gain, C)
  BY DEF TakenByApp, TakenAtOff, TakenAtPro, Taken
<1>4. A \subseteq DOMAIN cands /\ B \subseteq DOMAIN cands /\ C \subseteq DOMAIN cands
  OBVIOUS
<1> HIDE DEF A, B, C
<1> QED BY <1>2, <1>3, <1>4

\* the resources a utility is reduced by are not 0
LEMMA ResourcesOf ==
  ASSUME problem \in InputType, NEW i \in Serving(scheme, problem)
  PROVE  RBsOf(i.off) \in Nat \ {0} /\ CUsOf(i.pro) \in Nat \ {0}
<1>1. /\ i.off \in Gnbs /\ i.pro \in Gnbs /\ i.rb \in Nat \ {0} /\ i.cu \in Nat \ {0}
      /\ i.rb <= problem.rbs[i.off] /\ i.cu <= problem.cus[i.pro]
      /\ i.rb <= RBShare(scheme, problem, i.off) /\ i.cu <= CUShare(scheme, problem, i.pro)
  BY ServingFields
<1>2. /\ problem.rbs[i.off] \in Nat /\ problem.cus[i.pro] \in Nat
      /\ FairRBs(problem, i.off) \in Nat /\ FairCUs(problem, i.pro) \in Nat
  BY <1>1, InputFields
<1>3. CASE scheme \in ByShare
  <2>1. scheme \notin Unshared
    BY <1>3 DEF ByShare, Unshared
  <2> QED BY <1>1, <1>2, <1>3, <2>1 DEF RBsOf, CUsOf, RBShare, CUShare
<1>4. CASE scheme \notin ByShare
  BY <1>1, <1>2, <1>4 DEF RBsOf, CUsOf
<1> QED BY <1>3, <1>4

LEMMA GainTyped ==
  ASSUME problem \in InputType, Counted, NEW i \in Serving(scheme, problem)
  PROVE  Gain(i) \in Int
<1>1. i.rb \in Nat /\ i.cu \in Nat /\ i.value \in Nat
  BY ServingFields
<1>2. RBsOf(i.off) \in Nat \ {0} /\ CUsOf(i.pro) \in Nat \ {0}
  BY ResourcesOf
<1>3. TakenByApp(i) \in Nat /\ TakenAtOff(i) \in Nat /\ TakenAtPro(i) \in Nat /\ Factor \in Nat
  BY TakenTyped DEF Factor
<1> DEFINE m == Factor * i.rb * TakenAtOff(i)
           n == Factor * i.cu * TakenAtPro(i)
<1>4. m \in Nat /\ n \in Nat
  <2>1. \A a, b, c \in Nat : a * b * c \in Nat
    OBVIOUS
  <2> QED BY <1>1, <1>3, <2>1
<1> HIDE DEF m, n
<1>5. m \div RBsOf(i.off) \in Int /\ n \div CUsOf(i.pro) \in Int
  BY <1>2, <1>4
<1>6. Gain(i) = IF scheme \in Rounding THEN i.value - TakenByApp(i)
                ELSE i.value - TakenByApp(i) - m \div RBsOf(i.off)
                     - IF scheme = "SchemeFwdQuickLR" /\ pass = 2 THEN TakenAtPro(i) ELSE n \div CUsOf(i.pro)
  BY DEF Gain, m, n
<1> QED BY <1>1, <1>3, <1>5, <1>6

\* a candidate serves like its instance
LEMMA CandidateServes ==
  ASSUME problem \in InputType, Counted, NEW k, insts[k] \in Serving(scheme, problem)
  PROVE  /\ WithGain(k) \in Serving(scheme, problem) /\ WithGain(k).gain = Gain(insts[k])
         /\ WithGain(k).off = insts[k].off /\ WithGain(k).pro = insts[k].pro
         /\ WithGain(k).rb = insts[k].rb /\ WithGain(k).cu = insts[k].cu
<1> DEFINE i == insts[k]
           g == Gain(insts[k])
           j == [i EXCEPT !.gain = g]
<1>1. g \in Int
  BY GainTyped
<1>2. WithGain(k) = j
  BY DEF WithGain
<1>3. i \in Serving(scheme, problem) /\ i \in InstanceType
  BY DEF Serving
<1> HIDE DEF i, g
<1>4. /\ j \in InstanceType /\ j.gain = g /\ j.app = i.app /\ j.off = i.off /\ j.pro = i.pro
      /\ j.rb = i.rb /\ j.cu = i.cu /\ j.srv = i.srv /\ j.value = i.value
  BY <1>1, <1>3 DEF InstanceType
<1> HIDE DEF j
<1>5. j \in Serving(scheme, problem)
  BY <1>3, <1>4 DEF Serving
<1> QED BY <1>2, <1>4, <1>5 DEF i, g

-----------------------------------------------------------------------------
(* What SARound takes at a gNB.                                             *)

\* some of the instances in at that the gNB g can serve together
TakenAt(g, at, set) ==
    /\ set \subseteq at
    /\ MapThenSumSet(LAMBDA k : insts[k].rb, set) <= problem.rbs[g]
    /\ MapThenSumSet(LAMBDA k : insts[k].cu, set) <= problem.cus[g]

LEMMA IntegralFits ==
  ASSUME NEW at, IsFiniteSet(at), TakenAt(pass, at, {})
  PROVE  \A set \in Integral(at) : TakenAt(pass, at, set)
<1> DEFINE Alone(set, k) == \A l \in set : insts[l].app # insts[k].app
           InLimits(set) == /\ MapThenSumSet(LAMBDA k : insts[k].rb, set) <= problem.rbs[pass]
                            /\ MapThenSumSet(LAMBDA k : insts[k].cu, set) <= problem.cus[pass]
           W == {T \in SUBSET at : TakenAt(pass, at, T)}
           Ok == SUBSET W
           Of(k, sets) == sets \cup {set \cup {k} : set \in {t \in sets : Alone(t, k) /\ InLimits(t \cup {k})}}
           choice == [T \in SUBSET at |-> CHOOSE a \in T : TRUE]
           step == [a \in at |-> [sets \in Ok |-> Of(a, sets)]]
           iter[T \in SUBSET at] == IF T = {} THEN {{}} ELSE LET a == CHOOSE a \in T : TRUE IN Of(a, iter[T \ {a}])
<1>2. {{}} \in Ok
  OBVIOUS
<1>3. ASSUME NEW T \in SUBSET at, T # {} PROVE (CHOOSE a \in T : TRUE) \in T
  BY <1>3
<1>4. ASSUME NEW sets \in Ok, NEW a \in at PROVE Of(a, sets) \in Ok
  <2>1. ASSUME NEW t \in sets, InLimits(t \cup {a}) PROVE t \cup {a} \in W
    <3>1. t \cup {a} \in SUBSET at
      OBVIOUS
    <3> QED BY <2>1, <3>1 DEF TakenAt
  <2> HIDE DEF W, InLimits, Alone
  <2>2. ASSUME NEW x \in {set \cup {a} : set \in {t \in sets : Alone(t, a) /\ InLimits(t \cup {a})}} PROVE x \in W
    BY <2>1
  <2> QED BY <2>2
<1>5. CanFold(at, Ok, {{}}, choice, step)
  <2>1. step \in [at -> [Ok -> Ok]]
    <3> HIDE DEF Ok, Of
    <3> QED BY <1>4
  <2> HIDE DEF Ok, step
  <2> QED BY <1>2, <1>3, <2>1 DEF CanFold
<1>6. PICK f : f \in [SUBSET at -> Ok] /\ IsFold(f, at, {{}}, choice, step)
  <2> HIDE DEF Ok, choice, step, iter
  <2> QED BY <1>5, FoldExists
<1>7. \A T \in SUBSET at : f[T] = IF T = {} THEN {{}} ELSE LET a == CHOOSE a \in T : TRUE IN Of(a, f[T \ {a}])
  <2>1. ASSUME NEW T \in SUBSET at, T = {} PROVE f[T] = {{}}
    <3> HIDE DEF Of, Ok, choice, step
    <3> QED BY <1>6, <2>1 DEF IsFold
  <2>2. ASSUME NEW T \in SUBSET at, T # {}
        PROVE  f[T] = LET a == CHOOSE a \in T : TRUE IN Of(a, f[T \ {a}])
    <3> DEFINE b == CHOOSE a \in T : TRUE
    <3>1. b \in at /\ T \ {b} \in SUBSET at /\ choice[T] = b
      BY <1>3, <2>2
    <3>2. f[T] = step[b][f[T \ {b}]] /\ f[T \ {b}] \in Ok
      <4> HIDE DEF Ok, step, b, choice
      <4> QED BY <1>6, <2>2, <3>1 DEF IsFold
    <3>3. step[b][f[T \ {b}]] = Of(b, f[T \ {b}])
      <4> HIDE DEF Ok, Of, b
      <4> QED BY <3>1, <3>2
    <3> HIDE DEF Of, step, Ok
    <3> QED BY <2>2, <3>2, <3>3
  <2> HIDE DEF Of
  <2> QED BY <2>1, <2>2
<1>8. f = [T \in SUBSET at |-> IF T = {} THEN {{}} ELSE LET a == CHOOSE a \in T : TRUE IN Of(a, f[T \ {a}])]
  <2> HIDE DEF Of, Ok, iter, step, choice
  <2> QED BY <1>6, <1>7
<1>9. iter = [T \in SUBSET at |-> IF T = {} THEN {{}} ELSE LET a == CHOOSE a \in T : TRUE IN Of(a, iter[T \ {a}])]
  <2> HIDE DEF Of
  <2> QED BY <1>8, Zenon
<1>10. Integral(at) = iter[at]
  BY DEF Integral, FoldSet, MapThenFoldSet
<1> DEFINE Good == {T \in SUBSET at : iter[T] \in Ok}
<1>11. \A T \in SUBSET at : T \in Good
  <2> HIDE DEF iter, Of, Ok
  <2>1. {} \in Good
    BY <1>2, <1>9
  <2>2. ASSUME NEW T \in SUBSET at, T # {}, \A x \in T : T \ {x} \in Good PROVE T \in Good
    <3> DEFINE b == CHOOSE a \in T : TRUE
    <3>1. iter[T] = Of(b, iter[T \ {b}])
      BY <1>9, <2>2
    <3>2. b \in T /\ b \in at /\ iter[T \ {b}] \in Ok
      BY <1>3, <2>2
    <3> HIDE DEF b
    <3> QED BY <1>4, <3>1, <3>2
  <2>3. \A T \in SUBSET at : T # {} /\ (\A x \in T : T \ {x} \in Good) => T \in Good
    BY <2>2
  <2> HIDE DEF Good
  <2> QED BY <2>1, <2>3, SubsetInduction
<1> HIDE DEF iter
<1>12. \A x \in Integral(at) : x \in W
  BY <1>10, <1>11
<1> QED BY <1>12

\* of finitely many members with numbers, one has the greatest, and the least index of those
LEMMA TopExists ==
  ASSUME NEW at, IsFiniteSet(at), at # {}, at \subseteq Nat, NEW v, \A k \in at : v[k] \in Nat
  PROVE  \E k \in at : \A l \in at : v[k] > v[l] \/ (v[k] = v[l] /\ k <= l)
<1> DEFINE w == [k \in at |-> v[k]]
           S == {w[k] : k \in DOMAIN w}
<1>1. DOMAIN w = at /\ S \subseteq Nat /\ S # {} /\ \A k \in at : v[k] \in S
  OBVIOUS
<1>2. IsFiniteSet(S)
  <2> HIDE DEF w
  <2> QED BY <1>1, ImageFinite
<1>3. PICK m \in S : \A n \in S : m >= n
  <2> HIDE DEF S
  <2> QED BY <1>1, <1>2, GreatestNatural
<1> DEFINE T == {k \in at : v[k] = m}
<1>4. T \subseteq Nat /\ T # {}
  OBVIOUS
<1>5. PICK k \in T : \A l \in T : k <= l
  <2> HIDE DEF T
  <2> QED BY <1>4, LeastNatural
<1>6. \A l \in at : v[k] > v[l] \/ (v[k] = v[l] /\ k <= l)
  <2>1. \A l \in at : v[l] \in Nat /\ m \in Nat /\ m >= v[l]
    BY <1>1, <1>3
  <2> HIDE DEF S, w
  <2> QED BY <1>5, <2>1
<1> QED BY <1>5, <1>6

\* a gNB serves no or one instance alone
LEMMA FewFit ==
  ASSUME NEW g, problem.rbs[g] \in Nat, problem.cus[g] \in Nat, NEW at
  PROVE  /\ TakenAt(g, at, {})
         /\ \A k \in at : insts[k].rb \in Nat /\ insts[k].cu \in Nat
                          /\ insts[k].rb <= problem.rbs[g] /\ insts[k].cu <= problem.cus[g] => TakenAt(g, at, {k})
<1>1. TakenAt(g, at, {})
  <2> DEFINE none == {}
  <2>1. IsFiniteSet(none) /\ none = {}
    BY FS_EmptySet
  <2> HIDE DEF none
  <2>2. /\ MapThenSumSet(LAMBDA k : insts[k].rb, none) = SumOver([k \in none |-> insts[k].rb], none)
        /\ MapThenSumSet(LAMBDA k : insts[k].cu, none) = SumOver([k \in none |-> insts[k].cu], none)
    BY <2>1, SumOfInstRbs, SumOfInstCus
  <2>3. SumOver([k \in none |-> insts[k].rb], none) = 0 /\ SumOver([k \in none |-> insts[k].cu], none) = 0
    <3>1. [k \in none |-> insts[k].rb] \in [none -> Nat] /\ [k \in none |-> insts[k].cu] \in [none -> Nat]
      BY <2>1
    <3>2. \A x \in none : [k \in none |-> insts[k].rb][x] = 0 /\ [k \in none |-> insts[k].cu][x] = 0
      BY <2>1
    <3> QED BY <2>1, <3>1, <3>2, SumOverTyped
  <2>4. TakenAt(g, at, none)
    BY <2>1, <2>2, <2>3 DEF TakenAt
  <2> QED BY <2>1, <2>4
<1>2. ASSUME NEW k \in at, insts[k].rb \in Nat, insts[k].cu \in Nat,
             insts[k].rb <= problem.rbs[g], insts[k].cu <= problem.cus[g]
      PROVE  TakenAt(g, at, {k})
  <2> DEFINE none == {}
             one == {k}
             w == [l \in one |-> insts[l].rb]
             v == [l \in one |-> insts[l].cu]
             w0 == [l \in none |-> insts[l].rb]
             v0 == [l \in none |-> insts[l].cu]
  <2>1. IsFiniteSet(none) /\ none = {} /\ IsFiniteSet(one) /\ one = none \cup {k} /\ k \notin none
    BY FS_EmptySet, FS_Singleton
  <2>2. /\ MapThenSumSet(LAMBDA l : insts[l].rb, one) = SumOver(w, one)
        /\ MapThenSumSet(LAMBDA l : insts[l].cu, one) = SumOver(v, one)
    BY <1>2, <2>1, SumOfInstRbs, SumOfInstCus
  <2>3. /\ w \in [one -> Nat] /\ v \in [one -> Nat] /\ w[k] = insts[k].rb /\ v[k] = insts[k].cu
        /\ w0 \in [none -> Nat] /\ v0 \in [none -> Nat]
        /\ \A x \in none : w[x] = w0[x] /\ v[x] = v0[x] /\ w0[x] = 0 /\ v0[x] = 0
    BY <1>2
  <2> HIDE DEF none, one, w, v, w0, v0
  <2>4. w \in [none \cup {k} -> Nat] /\ v \in [none \cup {k} -> Nat]
    BY <2>1, <2>3
  <2>5. IsFiniteSet(none) /\ k \notin none /\ w0 \in [none -> Nat] /\ v0 \in [none -> Nat]
    BY <2>1, <2>3
  <2>6. \A x \in none : w[x] = w0[x]
    BY <2>3
  <2>7. \A x \in none : v[x] = v0[x]
    BY <2>3
  <2>8. SumOver(w, none \cup {k}) = SumOver(w0, none) + w[k]
    BY <2>4, <2>6, <2>5, SumOverMore
  <2>9. SumOver(v, none \cup {k}) = SumOver(v0, none) + v[k]
    BY <2>4, <2>7, <2>5, SumOverMore
  <2>10. SumOver(w0, none) = 0 /\ SumOver(v0, none) = 0
    BY <2>1, <2>3, SumOverTyped
  <2>11. SumOver(w, one) = insts[k].rb /\ SumOver(v, one) = insts[k].cu
    BY <1>2, <2>1, <2>3, <2>10, <2>8, <2>9
  <2> QED BY <1>2, <2>2, <2>11 DEF TakenAt, one
<1> QED BY <1>1, <1>2

\* what is rounded fits, whatever the program returns
LEMMA RoundingTakes ==
  ASSUME problem \in InputType, insts \in Seq(Serving(scheme, problem)), Counted,
         pass \in Gnbs, scheme \in Rounding,
         NEW at, at \subseteq DOMAIN insts, \A k \in at : insts[k].off = pass /\ Gain(insts[k]) > 0
  PROVE  \A set \in FloorRounding(at) : TakenAt(pass, at, set)
<1>1. \A k \in DOMAIN insts : insts[k] \in Serving(scheme, problem)
  BY MemberOf
<1>2. IsFiniteSet(at) /\ at \subseteq Nat
  <2>1. DOMAIN insts = 1 .. Len(insts) /\ Len(insts) \in Nat
    OBVIOUS
  <2>2. IsFiniteSet(DOMAIN insts)
    BY <2>1, FS_Interval
  <2> QED BY <2>1, <2>2, FS_Subset
<1>3. \A k \in at : /\ insts[k].off = pass /\ insts[k].pro = pass
                    /\ insts[k].rb \in Nat /\ insts[k].cu \in Nat
                    /\ insts[k].rb <= problem.rbs[pass] /\ insts[k].cu <= problem.cus[pass]
  <2>1. scheme \notin Forwarding
    BY DEF Rounding, Forwarding, Matching
  <2>2. \A k \in at : insts[k].pro = insts[k].off
    BY <1>1, <2>1 DEF Serving, PathIn
  <2> QED BY <1>1, <2>2, ServingFields
<1>4. problem.rbs[pass] \in Nat /\ problem.cus[pass] \in Nat
  BY InputFields
<1>5. TakenAt(pass, at, {}) /\ \A k \in at : TakenAt(pass, at, {k})
  BY <1>3, <1>4, FewFit
<1>6. CASE Cardinality(at) <= 1
  <2>1. FloorRounding(at) = {at}
    BY <1>6 DEF FloorRounding
  <2>2. at = {} \/ \E k \in at : at = {k}
    <3>1. Cardinality(at) = 0 \/ Cardinality(at) = 1
      BY <1>2, <1>6, FS_CardinalityType
    <3> QED BY <1>2, <3>1, FS_EmptySet, FS_Singleton
  <2> QED BY <1>5, <2>1, <2>2
<1>7. CASE ~(Cardinality(at) <= 1)
  <2> DEFINE top == CHOOSE k \in at : \A l \in at :
                       Gain(insts[k]) > Gain(insts[l]) \/ (Gain(insts[k]) = Gain(insts[l]) /\ k <= l)
             GainOf(set) == MapThenSumSet(LAMBDA k : Gain(insts[k]), set)
             v == [k \in at |-> Gain(insts[k])]
  <2>1. at # {}
    <3>1. at = {} => Cardinality(at) = 0
      BY FS_EmptySet
    <3> QED BY <1>7, <3>1
  <2>2. \A k \in at : v[k] \in Nat /\ v[k] = Gain(insts[k])
    <3>1. \A k \in at : Gain(insts[k]) \in Int
      BY <1>1, GainTyped
    <3> QED BY <3>1
  <2>3. top \in at
    <3> HIDE DEF v
    <3>1. \E k \in at : \A l \in at : v[k] > v[l] \/ (v[k] = v[l] /\ k <= l)
      BY <1>2, <2>1, <2>2, TopExists
    <3>2. \E k \in at : \A l \in at : Gain(insts[k]) > Gain(insts[l]) \/ (Gain(insts[k]) = Gain(insts[l]) /\ k <= l)
      BY <2>2, <3>1
    <3> QED BY <3>2
  <2>4. FloorRounding(at) = {IF GainOf(set) > Gain(insts[top]) THEN set ELSE {top} : set \in Integral(at)}
    BY <1>7 DEF FloorRounding
  <2> HIDE DEF top, GainOf
  <2>5. \A set \in Integral(at) : TakenAt(pass, at, set)
    BY <1>2, <1>5, IntegralFits
  <2> QED BY <1>5, <2>3, <2>4, <2>5
<1> QED BY <1>6, <1>7

-----------------------------------------------------------------------------
(* The invariant.                                                           *)

Phases == {"idle", "push", "select", "done", "guess", "allocate", "remap", "reallocate", "conclude",
           "solve", "graph", "match", "reduce", "unstack", "place"}
Steps == {"guess", "allocate", "remap", "reallocate", "conclude"}
Graph == {"solve", "graph", "match", "reduce", "unstack", "place"}

\* a scheme runs on an input
Runs ==
    /\ phase \notin {"select", "allocate", "remap", "reallocate"} => chosen = {}
    /\ phase = "idle" => best = {}
    /\ phase # "idle" =>
          /\ scheme \in SchemeNames /\ problem \in InputType /\ problem.apps # {}
          /\ insts \in Seq(Serving(scheme, problem))
          /\ Schedule(chosen, scheme, problem) /\ Schedule(best, scheme, problem)
PhasesOfScheme ==
    /\ phase \in Phases
    /\ phase \in Steps => scheme \in Iterating
    /\ phase \in Graph => scheme \in Matching
    /\ phase \in {"push", "select"} => scheme \notin Iterating \cup Matching

\* the candidates serve, and those of SARound fit together
CandsServe ==
    /\ phase \in {"push", "select"} =>
          cands \in Seq(Serving(scheme, problem)) /\ \A k \in DOMAIN cands : cands[k].gain \in Nat
    /\ phase \in {"push", "select"} /\ scheme \in Rounding =>
          FitIn(Range(cands), problem) /\ chosen \subseteq Range(cands)
    /\ phase = "push" /\ scheme \in Rounding =>
          pass \in Nat /\ \A k \in DOMAIN cands : cands[k].off < pass
    /\ phase \notin {"push", "select", "reduce", "unstack"} => cands = <<>>

\* the graph is one of instances
GraphOfInstances ==
    /\ phase = "graph" => DOMAIN share \subseteq DOMAIN insts
    /\ phase \in {"match", "reduce", "unstack", "place"} =>
          IsFiniteSet(DOMAIN edges) /\ \A n \in DOMAIN edges : edges[n].inst \in DOMAIN insts
    /\ phase \in {"reduce", "unstack", "place"} =>
          DOMAIN share \subseteq DOMAIN edges /\ left \subseteq DOMAIN edges /\ picked \in Seq(DOMAIN edges)
    /\ phase \in {"reduce", "unstack"} => cands \in Seq(DOMAIN edges)
    /\ phase = "unstack" => cands # <<>>
    /\ phase \notin {"reduce", "unstack", "place"} => picked = <<>>

IInv == PhasesOfScheme /\ Runs /\ CandsServe /\ GraphOfInstances

-----------------------------------------------------------------------------
(* Every action preserves the invariant.                                    *)

LEMMA InstancesServe ==
  ASSUME IInv, phase # "idle"
  PROVE  /\ scheme \in SchemeNames /\ problem \in InputType
         /\ insts \in Seq(Serving(scheme, problem))
         /\ \A k \in DOMAIN insts : insts[k] \in Serving(scheme, problem)
         /\ Schedule(chosen, scheme, problem) /\ Schedule(best, scheme, problem)
         /\ Schedule({}, scheme, problem)
<1>1. /\ scheme \in SchemeNames /\ problem \in InputType
      /\ insts \in Seq(Serving(scheme, problem))
      /\ Schedule(chosen, scheme, problem) /\ Schedule(best, scheme, problem)
  BY DEF IInv, Runs
<1> QED BY <1>1, MemberOf, ScheduleOfNone

\* an application that is free gets an instance that fits
LEMMA ChosenGrows ==
  ASSUME problem \in InputType, Schedule(chosen, scheme, problem),
         NEW i \in Serving(scheme, problem), Fits(i), \A j \in chosen : j.app # i.app
  PROVE  Schedule(chosen \cup {i}, scheme, problem)
BY ScheduleGrows DEF Fits

LEMMA GenerateKeeps ==
  ASSUME IInv, NEW s \in SchemeNames, NEW p \in Problems[s], Generate(p, s), UNCHANGED matchVars
  PROVE  IInv'
<1>1. phase = "idle" /\ chosen = {} /\ best = {} /\ cands = <<>> /\ picked = <<>> /\ p.apps # {}
  BY DEF IInv, Runs, CandsServe, GraphOfInstances, Generate
<1>2. /\ problem' = Shared(s, p) /\ scheme' = s /\ insts' = GenerateScheduleInstances(s, Shared(s, p)) /\ pass' = 1
      /\ chosen' = {} /\ best' = {} /\ cands' = <<>> /\ picked' = <<>>
  BY <1>1 DEF Generate, matchVars
<1>3. /\ s \in ByEfficiency \cup ByUtility => phase' = "select"
      /\ s \in Iterating => phase' = "guess"
      /\ s \in Matching => phase' = "solve"
      /\ s \notin ByEfficiency \cup ByUtility \cup Iterating \cup Matching => phase' = "push"
      /\ s \in Iterating \cup Matching => s \notin ByEfficiency \cup ByUtility
  BY DEF Generate, ByEfficiency, ByUtility, Iterating, Matching
<1>4. Shared(s, p) \in InputType /\ Shared(s, p).apps # {}
  <2>1. p \in InputType
    BY SchemesAssumption DEF InputType
  <2> QED BY <1>1, <2>1 DEF Shared, InputType, Shares
<1>5. insts' \in Seq(Serving(s, Shared(s, p)))
  BY <1>2, <1>4, GenerateServes
<1>6. Schedule({}, s, Shared(s, p)) /\ FitIn({}, Shared(s, p))
  BY <1>4, ScheduleOfNone DEF Schedule
<1>7. phase' \in {"select", "guess", "solve", "push"}
  BY <1>3
<1>8. PhasesOfScheme'
  BY <1>2, <1>3, <1>7 DEF PhasesOfScheme, Phases, Steps, Graph
<1>9. Runs'
  BY <1>2, <1>4, <1>5, <1>6, <1>7 DEF Runs
<1>10. CandsServe'
  <2>1. Range(cands') = {} /\ cands' \in Seq(Serving(s, Shared(s, p))) /\ DOMAIN cands' = {}
    BY <1>2 DEF Range
  <2> QED BY <1>2, <1>6, <1>7, <2>1 DEF CandsServe
<1>11. GraphOfInstances'
  BY <1>2, <1>7 DEF GraphOfInstances
<1> QED BY <1>8, <1>9, <1>10, <1>11 DEF IInv

LEMMA PushKeeps ==
  ASSUME IInv, Push, UNCHANGED matchVars
  PROVE  IInv'
<1>1. /\ phase = "push" /\ scheme \in LocalRatio /\ scheme \notin Rounding
      /\ UNCHANGED <<problem, scheme, phase, pass, insts, chosen, best, share, edges, left, picked>>
  BY DEF Push, matchVars, LocalRatio, ByShare, Rounding
<1>2. PICK k \in DOMAIN insts : Gain(insts[k]) > 0 /\ cands' = Append(cands, WithGain(k))
  BY DEF Push, Pushable
<1>3. problem \in InputType /\ insts[k] \in Serving(scheme, problem)
  BY <1>1, InstancesServe
<1>4. cands \in Seq(Serving(scheme, problem)) /\ \A l \in DOMAIN cands : cands[l].gain \in Nat
  BY <1>1 DEF IInv, CandsServe
<1>5. Counted
  BY <1>4 DEF Counted
<1>6. WithGain(k) \in Serving(scheme, problem) /\ WithGain(k).gain \in Nat
  <2>1. WithGain(k) \in Serving(scheme, problem) /\ WithGain(k).gain = Gain(insts[k]) /\ Gain(insts[k]) \in Int
    BY <1>3, <1>5, CandidateServes, GainTyped
  <2> QED BY <1>2, <2>1
<1>7. cands' \in Seq(Serving(scheme, problem)) /\ \A l \in DOMAIN cands' : cands'[l].gain \in Nat
  <2> DEFINE w == WithGain(k)
             S == Serving(scheme, problem)
  <2> HIDE DEF w, S
  <2>1. cands \in Seq(S) /\ w \in S /\ w.gain \in Nat /\ cands' = Append(cands, w)
    BY <1>2, <1>4, <1>6 DEF w, S
  <2>2. cands' \in Seq(S) /\ \A l \in DOMAIN cands' : cands'[l] = w \/ (l \in DOMAIN cands /\ cands'[l] = cands[l])
    BY <2>1
  <2> QED BY <1>4, <2>1, <2>2 DEF S
<1>8. PhasesOfScheme' /\ Runs' /\ GraphOfInstances'
  BY <1>1 DEF IInv, PhasesOfScheme, Runs, GraphOfInstances
<1>9. CandsServe'
  BY <1>1, <1>7 DEF CandsServe
<1> QED BY <1>8, <1>9 DEF IInv

LEMMA PushEndsKeeps ==
  ASSUME IInv, PushEnds, UNCHANGED matchVars
  PROVE  IInv'
<1>1. /\ phase = "push" /\ phase' = "select"
      /\ UNCHANGED <<problem, scheme, pass, insts, cands, chosen, best, share, edges, left, picked>>
  BY DEF PushEnds, matchVars
<1>2. PhasesOfScheme' /\ Runs'
  BY <1>1 DEF IInv, PhasesOfScheme, Phases, Steps, Graph, Runs
<1>3. CandsServe' /\ GraphOfInstances'
  BY <1>1 DEF IInv, CandsServe, GraphOfInstances
<1> QED BY <1>2, <1>3 DEF IInv

LEMMA SelectKeeps ==
  ASSUME IInv, Select, UNCHANGED matchVars
  PROVE  IInv'
<1>1. /\ phase = "select"
      /\ UNCHANGED <<problem, scheme, phase, pass, insts, cands, best, share, edges, left, picked>>
  BY DEF Select, matchVars
<1>2. PICK k \in DOMAIN Pool : /\ \A i \in chosen : i.app # Pool[k].app
                               /\ scheme \in Rounding \/ Fits(Pool[k])
                               /\ chosen' = chosen \cup {Pool[k]}
  BY DEF Select, Selectable
<1>3. /\ problem \in InputType /\ Schedule(chosen, scheme, problem)
      /\ \A l \in DOMAIN insts : insts[l] \in Serving(scheme, problem)
  BY <1>1, InstancesServe
<1>4. cands \in Seq(Serving(scheme, problem)) /\ \A l \in DOMAIN cands : cands[l] \in Serving(scheme, problem)
  BY <1>1, MemberOf DEF IInv, CandsServe
<1>5. Pool[k] \in Serving(scheme, problem)
  <2>1. Pool = insts \/ Pool = cands
    BY DEF Pool
  <2> QED BY <1>2, <1>3, <1>4, <2>1
<1>6. CASE scheme \notin Rounding
  <2>1. Schedule(chosen', scheme, problem)
    BY <1>2, <1>3, <1>5, <1>6, ChosenGrows
  <2>2. CandsServe'
    BY <1>1, <1>6 DEF IInv, CandsServe
  <2> QED BY <1>1, <2>1, <2>2 DEF IInv, PhasesOfScheme, Runs, GraphOfInstances
<1>7. CASE scheme \in Rounding
  <2>1. Pool = cands
    BY <1>7 DEF Pool, Rounding, ByEfficiency, ByUtility
  <2>2. FitIn(Range(cands), problem) /\ chosen \subseteq Range(cands)
    BY <1>1, <1>7 DEF IInv, CandsServe
  <2>3. chosen' \subseteq Range(cands)
    BY <1>2, <2>1, <2>2 DEF Range
  <2>4. Range(cands) \subseteq Serving(scheme, problem) /\ IsFiniteSet(Range(cands))
    <3>1. DOMAIN cands = 1 .. Len(cands) /\ Len(cands) \in Nat
      BY <1>4
    <3>2. IsFiniteSet(DOMAIN cands)
      BY <3>1, FS_Interval
    <3>3. IsFiniteSet(Range(cands))
      BY <3>2, ImageFinite DEF Range
    <3> QED BY <1>4, <3>3 DEF Range
  <2>5. Takers(Range(cands))
    BY <1>3, <2>4, ScheduleTakes
  <2>6. FitIn(chosen', problem)
    <3>1. ASSUME NEW g \in Gnbs
          PROVE  UsedRBs(chosen', g) <= problem.rbs[g] /\ UsedCUs(chosen', g) <= problem.cus[g]
      <4>1. UsedRBs(chosen', g) <= UsedRBs(Range(cands), g) /\ UsedCUs(chosen', g) <= UsedCUs(Range(cands), g)
        BY <2>3, <2>5, UsedByPart
      <4>2. UsedRBs(Range(cands), g) <= problem.rbs[g] /\ UsedCUs(Range(cands), g) <= problem.cus[g]
        BY <2>2 DEF FitIn
      <4>3. /\ UsedRBs(Range(cands), g) \in Nat /\ UsedCUs(Range(cands), g) \in Nat
            /\ problem.rbs[g] \in Nat /\ problem.cus[g] \in Nat
        BY <1>3, <2>5, UsedTyped, InputFields
      <4>4. Takers(chosen')
        BY <2>3, <2>5, FS_Subset DEF Takers
      <4>5. UsedRBs(chosen', g) \in Nat /\ UsedCUs(chosen', g) \in Nat
        BY <4>4, UsedTyped
      <4> QED BY <4>1, <4>2, <4>3, <4>5
    <3> QED BY <3>1 DEF FitIn
  <2>7. Schedule(chosen', scheme, problem)
    <3>1. OnePerApp(chosen')
      BY <1>2, <1>3 DEF Schedule, OnePerApp
    <3>2. IsFiniteSet(chosen') /\ chosen' \subseteq Serving(scheme, problem)
      BY <2>3, <2>4, FS_Subset
    <3> QED BY <2>6, <3>1, <3>2 DEF Schedule
  <2>8. CandsServe'
    BY <1>1, <2>3 DEF IInv, CandsServe
  <2> QED BY <1>1, <2>7, <2>8 DEF IInv, PhasesOfScheme, Runs, GraphOfInstances
<1> QED BY <1>6, <1>7

LEMMA PassEndsKeeps ==
  ASSUME IInv, PassEnds, UNCHANGED matchVars
  PROVE  IInv'
<1>1. /\ phase = "select" /\ cands' = <<>> /\ chosen' = {} /\ (best' = chosen \/ best' = best)
      /\ UNCHANGED <<problem, scheme, insts, share, edges, left, picked>>
  BY DEF PassEnds, matchVars
<1>2. phase' = "done" \/ (phase' = "push" /\ scheme \in LocalRatio)
  BY DEF PassEnds
<1>3. PhasesOfScheme'
  BY <1>1, <1>2 DEF IInv, PhasesOfScheme, Phases, Steps, Graph
<1>4. Runs'
  <2>1. Schedule(chosen', scheme, problem) /\ Schedule(best', scheme, problem)
    BY <1>1, InstancesServe
  <2> QED BY <1>1, <1>2, <2>1 DEF IInv, Runs
<1>5. CandsServe'
  <2>1. scheme \in LocalRatio => scheme \notin Rounding
    BY DEF LocalRatio, ByShare, Rounding
  <2>2. cands' \in Seq(Serving(scheme, problem)) /\ DOMAIN cands' = {}
    BY <1>1
  <2> QED BY <1>1, <1>2, <2>1, <2>2 DEF CandsServe
<1>6. GraphOfInstances'
  BY <1>1, <1>2 DEF IInv, GraphOfInstances
<1> QED BY <1>3, <1>4, <1>5, <1>6 DEF IInv

LEMMA CollectKeeps ==
  ASSUME IInv, Collect, UNCHANGED matchVars
  PROVE  IInv'
<1>1. /\ phase = "done" /\ phase' = "idle" /\ best' = {}
      /\ UNCHANGED <<cands, chosen, picked>>
  BY DEF Collect, matchVars
<1>2. chosen = {} /\ cands = <<>> /\ picked = <<>>
  BY <1>1 DEF IInv, Runs, CandsServe, GraphOfInstances
<1>3. PhasesOfScheme' /\ Runs'
  BY <1>1, <1>2 DEF PhasesOfScheme, Phases, Steps, Graph, Runs
<1>4. CandsServe' /\ GraphOfInstances'
  BY <1>1, <1>2 DEF CandsServe, GraphOfInstances
<1> QED BY <1>3, <1>4 DEF IInv

\* the candidates of another gNB take nothing of this one
LEMMA CandidatesFit ==
  ASSUME problem \in InputType, scheme \in Rounding, pass \in Gnbs,
         NEW old, old \subseteq Serving(scheme, problem), IsFiniteSet(old), FitIn(old, problem),
         \A i \in old : i.off < pass,
         NEW at, at \subseteq DOMAIN insts, IsFiniteSet(at), \A k \in at : insts[k] \in Serving(scheme, problem),
         NEW F, \A k \in at : /\ F[k] \in Serving(scheme, problem) /\ F[k].off = pass
                              /\ F[k].rb = insts[k].rb /\ F[k].cu = insts[k].cu,
         TakenAt(pass, at, at),
         NEW S, S \subseteq old \cup {F[k] : k \in at}
  PROVE  FitIn(S, problem)
<1> DEFINE new == {F[k] : k \in at}
           all == old \cup new
<1>1. /\ pass \in Nat
      /\ \A i \in Serving(scheme, problem) : i.off \in Nat /\ i.pro = i.off
  <2>1. scheme \notin Forwarding
    BY DEF Rounding, Forwarding, Matching
  <2>2. \A i \in Serving(scheme, problem) : i.pro = i.off /\ i.off \in Gnbs
    BY <2>1, ServingFields DEF Serving, PathIn
  <2> QED BY <2>2, Numbers
<1>2. /\ \A k \in at : /\ F[k].off = pass /\ F[k].pro = pass
                       /\ F[k].rb = insts[k].rb /\ F[k].cu = insts[k].cu
                       /\ insts[k].rb \in Nat /\ insts[k].cu \in Nat
      /\ new \subseteq Serving(scheme, problem)
  BY <1>1, ServingFields
<1>3. /\ Takers(new)
      /\ UsedRBs(new, pass) <= MapThenSumSet(LAMBDA k : insts[k].rb, at)
      /\ UsedCUs(new, pass) <= MapThenSumSet(LAMBDA k : insts[k].cu, at)
  BY <1>2, UsedByImages, ZenonT(60)
<1>4. Takers(old)
  BY ScheduleTakes
<1>5. Takers(all)
  <2> HIDE DEF new
  <2> QED BY <1>3, <1>4, FS_Union DEF Takers
<1>6. ASSUME NEW g \in Gnbs PROVE UsedRBs(all, g) <= problem.rbs[g] /\ UsedCUs(all, g) <= problem.cus[g]
  <2>1. CASE g = pass
    <3>1. {i \in all : i.off = g} = {i \in new : i.off = g} /\ {i \in all : i.pro = g} = {i \in new : i.pro = g}
      <4>1. \A i \in old : i.off # g /\ i.pro # g
        BY <1>1, <2>1
      <4> HIDE DEF new
      <4> QED BY <4>1
    <3>2. UsedRBs(all, g) = UsedRBs(new, g) /\ UsedCUs(all, g) = UsedCUs(new, g)
      <4> HIDE DEF all, new
      <4> QED BY <3>1 DEF UsedRBs, UsedCUs
    <3> DEFINE rb == MapThenSumSet(LAMBDA k : insts[k].rb, at)
               cu == MapThenSumSet(LAMBDA k : insts[k].cu, at)
    <3>3. rb <= problem.rbs[g] /\ cu <= problem.cus[g]
      BY <2>1 DEF TakenAt
    <3>4. rb \in Nat /\ cu \in Nat
      <4>1. rb = SumOver([k \in at |-> insts[k].rb], at) /\ cu = SumOver([k \in at |-> insts[k].cu], at)
        BY <1>2, SumOfInstRbs, SumOfInstCus
      <4>2. [k \in at |-> insts[k].rb] \in [at -> Nat] /\ [k \in at |-> insts[k].cu] \in [at -> Nat]
        BY <1>2
      <4> HIDE DEF rb, cu
      <4> QED BY <4>1, <4>2, SumOverTyped
    <3>5. UsedRBs(new, g) <= rb /\ UsedCUs(new, g) <= cu
      BY <1>3, <2>1
    <3>6. UsedRBs(new, g) \in Nat /\ UsedCUs(new, g) \in Nat /\ problem.rbs[g] \in Nat /\ problem.cus[g] \in Nat
      BY <1>3, UsedTyped, InputFields
    <3> HIDE DEF all, new, rb, cu
    <3> QED BY <3>2, <3>3, <3>4, <3>5, <3>6
  <2>2. CASE g # pass
    <3>1. {i \in all : i.off = g} = {i \in old : i.off = g} /\ {i \in all : i.pro = g} = {i \in old : i.pro = g}
      <4>1. \A i \in new : i.off # g /\ i.pro # g
        BY <1>2, <2>2
      <4> HIDE DEF new
      <4> QED BY <4>1
    <3>2. UsedRBs(all, g) = UsedRBs(old, g) /\ UsedCUs(all, g) = UsedCUs(old, g)
      <4> HIDE DEF all
      <4> QED BY <3>1 DEF UsedRBs, UsedCUs
    <3> QED BY <3>2 DEF FitIn
  <2> QED BY <2>1, <2>2
<1>7. ASSUME NEW g \in Gnbs PROVE UsedRBs(S, g) <= problem.rbs[g] /\ UsedCUs(S, g) <= problem.cus[g]
  <2> HIDE DEF all
  <2>1. S \subseteq all
    BY DEF all
  <2>2. UsedRBs(S, g) <= UsedRBs(all, g) /\ UsedCUs(S, g) <= UsedCUs(all, g)
    BY <1>5, <2>1, UsedByPart
  <2>3. Takers(S)
    BY <1>5, <2>1, FS_Subset DEF Takers
  <2>4. /\ UsedRBs(S, g) \in Nat /\ UsedCUs(S, g) \in Nat
        /\ UsedRBs(all, g) \in Nat /\ UsedCUs(all, g) \in Nat
    BY <1>5, <2>3, UsedTyped
  <2>5. problem.rbs[g] \in Nat /\ problem.cus[g] \in Nat
    BY InputFields
  <2> QED BY <1>6, <2>2, <2>4, <2>5
<1> QED BY <1>7 DEF FitIn

\* a sequence that is appended
LEMMA RangeOfBoth ==
  ASSUME NEW S, NEW T, T \subseteq S, NEW seq \in Seq(S), NEW more \in Seq(T)
  PROVE  /\ seq \o more \in Seq(S) /\ Range(seq) \subseteq Range(seq \o more)
         /\ \A i \in Range(seq \o more) : i \in Range(seq) \/ i \in T
<1> DEFINE new == seq \o more
<1>1. more \in Seq(S)
  OBVIOUS
<1>2. new \in Seq(S)
  BY <1>1
<1>3. ASSUME NEW k \in DOMAIN new
      PROVE  (k \in DOMAIN seq /\ new[k] = seq[k]) \/ \E l \in DOMAIN more : new[k] = more[l]
  <2>1. CASE k <= Len(seq)
    BY <2>1
  <2>2. CASE ~(k <= Len(seq))
    BY <2>2
  <2> QED BY <2>1, <2>2
<1>4. \A l \in DOMAIN more : more[l] \in T
  BY MemberOf
<1>5. \A k \in DOMAIN seq : k \in DOMAIN new /\ new[k] = seq[k]
  OBVIOUS
<1> HIDE DEF new
<1>6. Range(seq) \subseteq Range(new)
  BY <1>5 DEF Range
<1>7. \A i \in Range(new) : i \in Range(seq) \/ i \in T
  BY <1>3, <1>4 DEF Range
<1> QED BY <1>2, <1>6, <1>7 DEF new

\* the candidates of a gNB
LEMMA CandidatesTyped ==
  ASSUME NEW set, NEW n \in Nat,
         NEW f, f = [k \in 1 .. n |-> IF k \in set THEN <<WithGain(k)>> ELSE <<>>]
  PROVE  FlattenSeq(f) \in Seq({WithGain(k) : k \in set})
<1> DEFINE idx == [k \in 1 .. n |-> k]
           T == {WithGain(k) : k \in set}
<1>1. idx \in Seq(1 .. n) /\ DOMAIN idx = 1 .. n
  OBVIOUS
<1>2. f = [k \in DOMAIN idx |-> f[k]] /\ \A k \in DOMAIN idx : f[k] \in Seq(T)
  <2>1. \A k \in 1 .. n : k \in set => WithGain(k) \in T
    OBVIOUS
  <2> HIDE DEF T, idx
  <2> QED BY <1>1, <2>1
<1> HIDE DEF T, idx
<1>3. FlattenSeq(f) \in Seq(T)
  BY <1>1, <1>2, FlattenLoop
<1> QED BY <1>3 DEF T

LEMMA RoundKeeps ==
  ASSUME IInv, Round, UNCHANGED matchVars
  PROVE  IInv'
<1>1. /\ phase = "push" /\ scheme \in Rounding /\ pass \in Gnbs
      /\ pass' = pass + 1 /\ phase' \in {"push", "select"}
      /\ UNCHANGED <<problem, scheme, insts, chosen, best, share, edges, left, picked>>
  BY DEF Round, matchVars
<1>2. /\ problem \in InputType /\ insts \in Seq(Serving(scheme, problem))
      /\ \A k \in DOMAIN insts : insts[k] \in Serving(scheme, problem)
  BY <1>1, InstancesServe
<1>3. /\ cands \in Seq(Serving(scheme, problem)) /\ \A k \in DOMAIN cands : cands[k].gain \in Nat
      /\ FitIn(Range(cands), problem) /\ chosen \subseteq Range(cands)
      /\ \A k \in DOMAIN cands : cands[k].off < pass
  BY <1>1 DEF IInv, CandsServe
<1>4. Counted
  BY <1>3 DEF Counted
<1> DEFINE at == {k \in DOMAIN insts : insts[k].off = pass /\ Gain(insts[k]) > 0}
<1>5. PICK set \in FloorRounding(at) :
          cands' = cands \o Loop([k \in DOMAIN insts |-> k],
                                 LAMBDA k : IF k \in set THEN <<WithGain(k)>> ELSE <<>>)
  BY DEF Round
<1>6. at \subseteq DOMAIN insts /\ \A k \in at : insts[k].off = pass /\ Gain(insts[k]) > 0
  OBVIOUS
<1> HIDE DEF at
<1>7. TakenAt(pass, at, set)
  BY <1>1, <1>2, <1>4, <1>5, <1>6, RoundingTakes
<1>8. set \subseteq at /\ TakenAt(pass, set, set)
  BY <1>7 DEF TakenAt
<1>9. \A k \in set : /\ WithGain(k) \in Serving(scheme, problem) /\ WithGain(k).gain \in Nat
                      /\ WithGain(k).off = pass
                      /\ WithGain(k).rb = insts[k].rb /\ WithGain(k).cu = insts[k].cu
  <2> TAKE k \in set
  <2>1. k \in DOMAIN insts /\ insts[k].off = pass /\ Gain(insts[k]) > 0
    BY <1>6, <1>8
  <2>2. Gain(insts[k]) \in Int
    BY <1>2, <1>4, <2>1, GainTyped
  <2> QED BY <1>2, <1>4, <2>1, <2>2, CandidateServes
<1>10. /\ cands' \in Seq(Serving(scheme, problem))
       /\ \A i \in Range(cands') : i \in Range(cands) \/ \E k \in set : i = WithGain(k)
       /\ Range(cands) \subseteq Range(cands')
  <2>1. DOMAIN insts = 1 .. Len(insts) /\ Len(insts) \in Nat
    BY <1>2
  <2> DEFINE S == Serving(scheme, problem)
             D == DOMAIN insts
             n == Len(insts)
  <2>2. n \in Nat /\ D = 1 .. n /\ cands \in Seq(S) /\ \A k \in set : WithGain(k) \in S
    BY <1>3, <1>9, <2>1
  <2> HIDE DEF S, n
  <2> DEFINE idx == [k \in D |-> k]
             f == [k \in 1 .. n |-> IF k \in set THEN <<WithGain(k)>> ELSE <<>>]
  <2>3. cands' = cands \o FlattenSeq([k \in DOMAIN idx |-> IF idx[k] \in set THEN <<WithGain(idx[k])>> ELSE <<>>])
    BY <1>5 DEF Loop
  <2> HIDE DEF D
  <2>4. DOMAIN idx = 1 .. n /\ \A k \in DOMAIN idx : idx[k] = k
    BY <2>2
  <2> HIDE DEF idx
  <2>5. [k \in DOMAIN idx |-> IF idx[k] \in set THEN <<WithGain(idx[k])>> ELSE <<>>] = f
    BY <2>4
  <2>6. cands' = cands \o FlattenSeq(f)
    BY <2>3, <2>5
  <2> HIDE DEF f
  <2>7. f = [k \in 1 .. n |-> IF k \in set THEN <<WithGain(k)>> ELSE <<>>]
    BY DEF f
  <2> DEFINE T == {WithGain(k) : k \in set}
             more == FlattenSeq(f)
  <2>8. more \in Seq(T)
    <3>1. n \in Nat
      BY <2>2
    <3> QED BY <2>7, <3>1, CandidatesTyped
  <2>9. T \subseteq S
    BY <2>2
  <2>10. \A i \in T : \E k \in set : i = WithGain(k)
    OBVIOUS
  <2>11. cands' = cands \o more
    BY <2>6
  <2> HIDE DEF T, more
  <2>12. /\ cands' \in Seq(S) /\ Range(cands) \subseteq Range(cands')
         /\ \A i \in Range(cands') : i \in Range(cands) \/ i \in T
    BY <2>2, <2>8, <2>9, <2>11, RangeOfBoth
  <2> QED BY <2>10, <2>12 DEF S
<1>11. FitIn(Range(cands'), problem)
  <2> DEFINE old == Range(cands)
             F == [k \in set |-> WithGain(k)]
             S == Range(cands')
  <2>1. old \subseteq Serving(scheme, problem) /\ \A i \in old : i.off < pass
    BY <1>3, MemberOf DEF Range
  <2>2. IsFiniteSet(old)
    <3>1. DOMAIN cands = 1 .. Len(cands) /\ Len(cands) \in Nat
      BY <1>3
    <3>2. IsFiniteSet(DOMAIN cands)
      BY <3>1, FS_Interval
    <3> QED BY <3>2, ImageFinite DEF Range
  <2>3. set \subseteq DOMAIN insts /\ IsFiniteSet(set) /\ \A k \in set : insts[k] \in Serving(scheme, problem)
    <3>1. DOMAIN insts = 1 .. Len(insts) /\ Len(insts) \in Nat
      BY <1>2
    <3>2. IsFiniteSet(DOMAIN insts)
      BY <3>1, FS_Interval
    <3> QED BY <1>2, <1>6, <1>8, <3>2, FS_Subset
  <2>4. S \subseteq old \cup {F[k] : k \in set}
    BY <1>10
  <2>5. \A k \in set : /\ F[k] \in Serving(scheme, problem) /\ F[k].off = pass
                        /\ F[k].rb = insts[k].rb /\ F[k].cu = insts[k].cu
    BY <1>9
  <2>6. FitIn(old, problem)
    BY <1>3
  <2> HIDE DEF old, F, S
  <2>7. FitIn(S, problem)
    BY <1>1, <1>2, <1>8, <2>1, <2>2, <2>3, <2>4, <2>5, <2>6, CandidatesFit
  <2> QED BY <2>7 DEF S
<1>12. \A k \in DOMAIN cands' : cands'[k].gain \in Nat /\ cands'[k].off < pass + 1
  <2>1. pass \in Nat
    BY <1>1, Numbers
  <2>2. \A i \in Range(cands) : i.gain \in Nat /\ i.off < pass /\ i.off \in Nat
    <3>1. \A i \in Serving(scheme, problem) : i.off \in Nat
      BY <1>2, ServingFields, Numbers
    <3> QED BY <1>3, <3>1, MemberOf DEF Range
  <2>3. \A i \in Range(cands') : i.gain \in Nat /\ i.off < pass + 1
    <3>1. \A k \in set : WithGain(k).off = pass /\ WithGain(k).gain \in Nat
      BY <1>9
    <3> QED BY <1>10, <2>1, <2>2, <3>1
  <2>4. \A k \in DOMAIN cands' : cands'[k] \in Range(cands')
    BY DEF Range
  <2> QED BY <2>3, <2>4
<1>13. PhasesOfScheme' /\ Runs' /\ GraphOfInstances'
  <2>1. Runs'
    BY <1>1 DEF IInv, Runs
  <2> QED BY <1>1, <2>1 DEF IInv, PhasesOfScheme, Phases, Steps, Graph, GraphOfInstances
<1>14. CandsServe'
  <2>1. pass' \in Nat
    BY <1>1, Numbers
  <2> QED BY <1>1, <1>3, <1>10, <1>11, <1>12, <2>1 DEF CandsServe
<1> QED BY <1>13, <1>14 DEF IInv

\* a step of Iterative keeps what the schedule rests on
LEMMA StepKeeps ==
  ASSUME IInv, phase \in Steps, phase' \in Steps \cup {"done"},
         chosen' = {} \/ phase' \in {"allocate", "remap", "reallocate"},
         Schedule(chosen', scheme, problem), Schedule(best', scheme, problem),
         UNCHANGED <<problem, scheme, insts, cands, share, edges, left, picked>>
  PROVE  IInv'
<1>1. PhasesOfScheme'
  BY DEF IInv, PhasesOfScheme, Phases, Steps, Graph
<1>2. Runs'
  BY DEF IInv, Runs, Steps
<1>3. cands = <<>> /\ picked = <<>>
  BY DEF IInv, CandsServe, GraphOfInstances, Steps
<1>4. CandsServe' /\ GraphOfInstances'
  BY <1>3 DEF CandsServe, GraphOfInstances, Steps
<1> QED BY <1>1, <1>2, <1>4 DEF IInv

LEMMA GuessKeeps ==
  ASSUME IInv, Guess
  PROVE  IInv'
<1>1. /\ phase = "guess" /\ phase' = "allocate"
      /\ UNCHANGED <<problem, scheme, insts, cands, chosen, best, share, edges, left, picked>>
  BY DEF Guess, matchVars
<1>2. Schedule(chosen', scheme, problem) /\ Schedule(best', scheme, problem)
  BY <1>1, InstancesServe
<1> QED BY <1>1, <1>2, StepKeeps DEF Steps

LEMMA AllocationKeeps ==
  ASSUME IInv, DecideResourceAllocation
  PROVE  IInv'
<1>1. /\ phase \in {"allocate", "reallocate"}
      /\ UNCHANGED <<problem, scheme, phase, insts, cands, best, share, edges, left, picked>>
  BY DEF DecideResourceAllocation, matchVars
<1>2. PICK k \in Allocatable : chosen' = chosen \cup {insts[k]}
  BY DEF DecideResourceAllocation
<1>3. k \in DOMAIN insts /\ Fits(insts[k]) /\ \A i \in chosen : i.app # insts[k].app
  BY <1>2 DEF Allocatable, Free
<1>4. /\ problem \in InputType /\ insts[k] \in Serving(scheme, problem)
      /\ Schedule(chosen, scheme, problem) /\ Schedule(best, scheme, problem)
  BY <1>1, <1>3, InstancesServe
<1>5. Schedule(chosen', scheme, problem) /\ Schedule(best', scheme, problem)
  BY <1>1, <1>2, <1>3, <1>4, ChosenGrows
<1> QED BY <1>1, <1>5, StepKeeps DEF Steps

LEMMA MappingKeeps ==
  ASSUME IInv, DecideMapping
  PROVE  IInv'
<1>1. /\ phase = "remap"
      /\ UNCHANGED <<problem, scheme, phase, insts, cands, best, share, edges, left, picked>>
  BY DEF DecideMapping, matchVars
<1>2. PICK k \in Mappable : chosen' = chosen \cup {insts[k]}
  BY DEF DecideMapping
<1>3. k \in DOMAIN insts /\ Fits(insts[k]) /\ \A i \in chosen : i.app # insts[k].app
  BY <1>2 DEF Mappable, Free
<1>4. /\ problem \in InputType /\ insts[k] \in Serving(scheme, problem)
      /\ Schedule(chosen, scheme, problem) /\ Schedule(best, scheme, problem)
  BY <1>1, <1>3, InstancesServe
<1>5. Schedule(chosen', scheme, problem) /\ Schedule(best', scheme, problem)
  BY <1>1, <1>2, <1>3, <1>4, ChosenGrows
<1> QED BY <1>1, <1>5, StepKeeps DEF Steps

LEMMA StepEndsKeeps ==
  ASSUME IInv, StepEnds \/ NextStep \/ RoundEnds
  PROVE  IInv'
<1>1. /\ phase \in {"allocate", "remap", "reallocate"}
      /\ chosen' = {} /\ (best' = chosen \/ best' = best)
      /\ UNCHANGED <<problem, scheme, insts, cands, share, edges, left, picked>>
  BY DEF StepEnds, NextStep, RoundEnds, matchVars
<1>2. phase' \in Steps
  <2>1. CASE StepEnds
    BY <2>1 DEF StepEnds, Steps
  <2>2. CASE NextStep \/ RoundEnds
    BY <2>2 DEF NextStep, RoundEnds, Steps
  <2> QED BY <2>1, <2>2
<1>3. Schedule(chosen', scheme, problem) /\ Schedule(best', scheme, problem)
  BY <1>1, InstancesServe
<1> QED BY <1>1, <1>2, <1>3, StepKeeps DEF Steps

LEMMA ConcludeKeeps ==
  ASSUME IInv, Conclude
  PROVE  IInv'
<1>1. /\ phase = "conclude" /\ phase' = "done"
      /\ best' = AsFarAsItFits(Sorted(best, LAMBDA i, j : i.app < j.app))
      /\ UNCHANGED <<problem, scheme, insts, cands, chosen, share, edges, left, picked>>
  BY DEF Conclude, matchVars
<1>2. /\ problem \in InputType /\ chosen = {}
      /\ Schedule(chosen, scheme, problem) /\ Schedule(best, scheme, problem)
  BY <1>1, InstancesServe DEF IInv, Runs
<1>3. IsFiniteSet(best) /\ OnePerApp(best) /\ best \subseteq Serving(scheme, problem)
  BY <1>2 DEF Schedule
<1>4. \A i \in best : i.app \in Nat
  BY <1>2, <1>3, ServingFields, MecTypesAssumption DEF Apps
<1> DEFINE sorted == Sorted(best, LAMBDA i, j : i.app < j.app)
<1>5. sorted \in Seq(best)
  BY <1>3, <1>4, SortedByApp
<1>6. best' = AsFarAsItFits(sorted)
  BY <1>1
<1> HIDE DEF sorted
<1>7. sorted \in Seq(Serving(scheme, problem))
  BY <1>3, <1>5
<1>8. Schedule(best', scheme, problem)
  BY <1>2, <1>6, <1>7, AsFarAsItFitsServes
<1> QED BY <1>1, <1>2, <1>8, StepKeeps DEF Steps

\* a step of GraphMatch keeps the instances
LEMMA GraphKeeps ==
  ASSUME IInv, phase \in Graph, phase' \in Graph,
         UNCHANGED <<problem, scheme, insts, chosen, best>>
  PROVE  PhasesOfScheme' /\ Runs' /\ chosen = {}
<1>1. PhasesOfScheme'
  BY DEF IInv, PhasesOfScheme, Phases, Steps, Graph
<1> QED BY <1>1 DEF IInv, Runs, Graph

LEMMA SolvingKeeps ==
  ASSUME IInv, SolvingLP
  PROVE  IInv'
<1>1. /\ phase = "solve" /\ phase' = "graph" /\ share' \in LPSolutions \cup {Failed}
      /\ UNCHANGED <<problem, scheme, insts, cands, chosen, best, picked>>
  BY DEF SolvingLP
<1>2. cands = <<>> /\ picked = <<>>
  BY <1>1 DEF IInv, CandsServe, GraphOfInstances
<1>3. DOMAIN share' \subseteq DOMAIN insts
  <2>1. IsFiniteSet(DOMAIN insts)
    <3>1. insts \in Seq(Serving(scheme, problem))
      BY <1>1, InstancesServe
    <3>2. DOMAIN insts = 1 .. Len(insts) /\ Len(insts) \in Nat
      BY <3>1
    <3> QED BY <3>2, FS_Interval
  <2> QED BY <1>1, <2>1, LPOfInstances DEF Failed
<1>4. CandsServe' /\ GraphOfInstances'
  BY <1>1, <1>2, <1>3 DEF CandsServe, GraphOfInstances
<1> QED BY <1>1, <1>4, GraphKeeps DEF IInv, Graph

LEMMA GraphBuildingKeeps ==
  ASSUME IInv, ConstructGraph
  PROVE  IInv'
<1>1. /\ phase = "graph" /\ phase' = "match" /\ edges' = MergeBipartiteGraphs
      /\ UNCHANGED <<problem, scheme, insts, cands, chosen, best, picked>>
  BY DEF ConstructGraph
<1>2. cands = <<>> /\ picked = <<>> /\ DOMAIN share \subseteq DOMAIN insts
  BY <1>1 DEF IInv, CandsServe, GraphOfInstances
<1>3. IsFiniteSet(DOMAIN share) /\ DOMAIN share \subseteq Nat /\ \A k \in DOMAIN share : insts[k].value \in Nat
  <2>1. /\ insts \in Seq(Serving(scheme, problem)) /\ problem \in InputType
        /\ \A k \in DOMAIN insts : insts[k] \in Serving(scheme, problem)
    BY <1>1, InstancesServe
  <2>2. DOMAIN insts = 1 .. Len(insts) /\ Len(insts) \in Nat
    BY <2>1
  <2>3. IsFiniteSet(DOMAIN insts)
    BY <2>2, FS_Interval
  <2>4. \A k \in DOMAIN insts : insts[k].value \in Nat
    BY <2>1, ServingFields
  <2> QED BY <1>2, <2>2, <2>3, <2>4, FS_Subset
<1> DEFINE E == {Edge(k) : k \in DOMAIN share}
<1>4. edges' \in Seq(E)
  BY <1>1, <1>3, EdgesOfInstances
<1>5. \A e \in E : e.inst \in DOMAIN insts
  BY <1>2 DEF Edge
<1> HIDE DEF E
<1>6. IsFiniteSet(DOMAIN edges') /\ \A n \in DOMAIN edges' : edges'[n].inst \in DOMAIN insts'
  <2>1. DOMAIN edges' = 1 .. Len(edges') /\ Len(edges') \in Nat
    BY <1>4
  <2>2. \A n \in DOMAIN edges' : edges'[n] \in E
    BY <1>4, MemberOf
  <2> QED BY <1>1, <1>5, <2>1, <2>2, FS_Interval
<1>7. CandsServe' /\ GraphOfInstances'
  BY <1>1, <1>2, <1>6 DEF CandsServe, GraphOfInstances
<1> QED BY <1>1, <1>7, GraphKeeps DEF IInv, Graph

LEMMA MatchingKeeps ==
  ASSUME IInv, SolvingRelaxedTripartiteGraphMatching
  PROVE  IInv'
<1>1. /\ phase = "match" /\ phase' = "reduce" /\ left' = DOMAIN share'
      /\ share' \in Optima(DOMAIN edges, AppOfEdge, WeightOfEdge, AtMostOnePerNode) \cup {Failed}
      /\ UNCHANGED <<problem, scheme, insts, cands, chosen, best, edges, picked>>
  BY DEF SolvingRelaxedTripartiteGraphMatching
<1>2. /\ cands = <<>> /\ picked = <<>>
      /\ IsFiniteSet(DOMAIN edges) /\ \A n \in DOMAIN edges : edges[n].inst \in DOMAIN insts
  BY <1>1 DEF IInv, CandsServe, GraphOfInstances
<1>3. DOMAIN share' \subseteq DOMAIN edges
  BY <1>1, <1>2, MatchingOfEdges DEF Failed
<1>4. CandsServe' /\ GraphOfInstances'
  <2>1. <<>> \in Seq(DOMAIN edges)
    OBVIOUS
  <2> QED BY <1>1, <1>2, <1>3, <2>1 DEF CandsServe, GraphOfInstances
<1> QED BY <1>1, <1>4, GraphKeeps DEF IInv, Graph

LEMMA LocalRatioKeeps ==
  ASSUME IInv, FractionalLocalRatio
  PROVE  IInv'
<1>1. /\ phase = "reduce"
      /\ UNCHANGED <<problem, scheme, phase, insts, chosen, best, share, edges, picked>>
  BY DEF FractionalLocalRatio
<1>2. PICK n \in left : left' = left \ {n} /\ (cands' = Append(cands, n) \/ cands' = cands)
  BY DEF FractionalLocalRatio
<1>3. /\ cands \in Seq(DOMAIN edges) /\ left \subseteq DOMAIN edges /\ DOMAIN share \subseteq DOMAIN edges
      /\ IsFiniteSet(DOMAIN edges) /\ (\A m \in DOMAIN edges : edges[m].inst \in DOMAIN insts)
      /\ picked \in Seq(DOMAIN edges)
  BY <1>1 DEF IInv, GraphOfInstances
<1>4. cands' \in Seq(DOMAIN edges)
  BY <1>2, <1>3, SMTT(60)
<1>5. CandsServe' /\ GraphOfInstances'
  BY <1>1, <1>2, <1>3, <1>4 DEF CandsServe, GraphOfInstances
<1> QED BY <1>1, <1>5, GraphKeeps DEF IInv, Graph

LEMMA ReduceEndsKeeps ==
  ASSUME IInv, ReduceEnds
  PROVE  IInv'
<1>1. /\ phase = "reduce" /\ phase' = IF cands = <<>> THEN "place" ELSE "unstack"
      /\ UNCHANGED <<problem, scheme, insts, cands, chosen, best, share, edges, left, picked>>
  BY DEF ReduceEnds, matchVars
<1>2. CandsServe' /\ GraphOfInstances'
  BY <1>1 DEF IInv, CandsServe, GraphOfInstances
<1> QED BY <1>1, <1>2, GraphKeeps DEF IInv, Graph

LEMMA UnstackKeeps ==
  ASSUME IInv, Unstack
  PROVE  IInv'
<1>1. /\ phase = "unstack" /\ cands' = Front(cands)
      /\ phase' = (IF cands' = <<>> THEN "place" ELSE "unstack")
      /\ (picked' = Append(picked, Last(cands)) \/ picked' = picked)
      /\ UNCHANGED <<problem, scheme, insts, chosen, best, share, edges, left>>
  BY DEF Unstack
<1>2. /\ cands \in Seq(DOMAIN edges) /\ cands # <<>> /\ left \subseteq DOMAIN edges /\ DOMAIN share \subseteq DOMAIN edges
      /\ IsFiniteSet(DOMAIN edges) /\ (\A m \in DOMAIN edges : edges[m].inst \in DOMAIN insts)
      /\ picked \in Seq(DOMAIN edges)
  BY <1>1 DEF IInv, GraphOfInstances
<1>3. Last(cands) \in DOMAIN edges /\ Front(cands) \in Seq(DOMAIN edges)
  <2> DEFINE S == DOMAIN edges
  <2> HIDE DEF S
  <2>1. cands \in Seq(S) /\ cands # <<>>
    BY <1>2 DEF S
  <2>2. Len(cands) \in DOMAIN cands /\ Len(cands) \in Nat
    BY <2>1
  <2>3. Last(cands) \in S
    BY <2>1, <2>2 DEF Last
  <2>4. Front(cands) \in Seq(S)
    BY <2>1, <2>2 DEF Front
  <2> QED BY <2>3, <2>4 DEF S
<1>4. cands' \in Seq(DOMAIN edges) /\ picked' \in Seq(DOMAIN edges)
  <2> DEFINE n == Last(cands)
  <2>1. n \in DOMAIN edges /\ (picked' = Append(picked, n) \/ picked' = picked)
    BY <1>1, <1>3
  <2> HIDE DEF n
  <2>2. picked' \in Seq(DOMAIN edges)
    BY <1>2, <2>1
  <2>3. cands' \in Seq(DOMAIN edges)
    BY <1>1, <1>3
  <2> QED BY <2>2, <2>3
<1>5. CandsServe' /\ GraphOfInstances'
  BY <1>1, <1>2, <1>4 DEF CandsServe, GraphOfInstances
<1> QED BY <1>1, <1>5, GraphKeeps DEF IInv, Graph

LEMMA PlaceKeeps ==
  ASSUME IInv, Place
  PROVE  IInv'
<1> DEFINE seq == [k \in DOMAIN picked |-> InstOf(picked[k])]
           f == [k \in DOMAIN seq |-> IF ~LeavesTime(seq[k]) THEN <<>> ELSE <<seq[k]>>]
           S == Serving(scheme, problem)
<1>1. /\ phase = "place" /\ phase' = "done" /\ picked' = <<>>
      /\ best' = AsFarAsItFits(FlattenSeq(f))
      /\ UNCHANGED <<problem, scheme, insts, cands, chosen>>
  BY DEF Place, Skipping, Loop
<1>2. /\ problem \in InputType /\ chosen = {} /\ cands = <<>>
      /\ (\A k \in DOMAIN insts : insts[k] \in S) /\ Schedule(chosen, scheme, problem)
      /\ picked \in Seq(DOMAIN edges) /\ \A n \in DOMAIN edges : edges[n].inst \in DOMAIN insts
  <2>1. /\ problem \in InputType /\ (\A k \in DOMAIN insts : insts[k] \in S)
        /\ Schedule(chosen, scheme, problem)
    BY <1>1, InstancesServe
  <2> QED BY <1>1, <2>1 DEF IInv, Runs, CandsServe, GraphOfInstances
<1> HIDE DEF S
<1>3. seq \in Seq(S)
  <2>1. \A k \in DOMAIN picked : InstOf(picked[k]) \in S
    BY <1>2, MemberOf DEF InstOf
  <2>2. DOMAIN picked = 1 .. Len(picked) /\ Len(picked) \in Nat
    BY <1>2
  <2> QED BY <2>1, <2>2
<1> HIDE DEF seq
<1>4. FlattenSeq(f) \in Seq(S)
  <2>1. f = [k \in DOMAIN seq |-> f[k]] /\ \A k \in DOMAIN seq : f[k] \in Seq(S)
    BY <1>3, MemberOf
  <2> HIDE DEF f
  <2> QED BY <1>3, <2>1, FlattenLoop
<1> HIDE DEF f
<1>5. Schedule(best', scheme, problem)
  BY <1>1, <1>2, <1>4, AsFarAsItFitsServes DEF S
<1>6. PhasesOfScheme' /\ Runs'
  BY <1>1, <1>2, <1>5 DEF IInv, PhasesOfScheme, Phases, Steps, Graph, Runs
<1>7. CandsServe' /\ GraphOfInstances'
  BY <1>1, <1>2 DEF CandsServe, GraphOfInstances
<1> QED BY <1>6, <1>7 DEF IInv

-----------------------------------------------------------------------------
LEMMA InitIsGood == SearchInit => IInv
<1> SUFFICES ASSUME SearchInit PROVE IInv
  OBVIOUS
<1>1. phase = "idle" /\ chosen = {} /\ best = {} /\ cands = <<>> /\ picked = <<>>
  BY DEF SearchInit, Init, MatchInit
<1> QED BY <1>1 DEF IInv, PhasesOfScheme, Phases, Steps, Graph, Runs, CandsServe, GraphOfInstances

LEMMA StepsAreGood == IInv /\ [SearchNext]_searchVars => IInv'
<1> SUFFICES ASSUME IInv, [SearchNext]_searchVars PROVE IInv'
  OBVIOUS
<1>1. CASE UNCHANGED searchVars
  <2>1. UNCHANGED <<problem, scheme, phase, pass, insts, cands, chosen, best, share, edges, left, picked>>
    BY <1>1 DEF searchVars, vars, matchVars
  <2> QED BY <2>1 DEF IInv, PhasesOfScheme, Runs, CandsServe, GraphOfInstances
<1>2. CASE Next /\ UNCHANGED <<iterVars, matchVars>>
  <2>1. UNCHANGED matchVars
    BY <1>2
  <2>2. ASSUME NEW s \in SchemeNames, NEW p \in Problems[s], Generate(p, s) PROVE IInv'
    BY <2>1, <2>2, GenerateKeeps
  <2>3. CASE Push
    BY <2>1, <2>3, PushKeeps
  <2>4. CASE PushEnds
    BY <2>1, <2>4, PushEndsKeeps
  <2>5. CASE Round
    BY <2>1, <2>5, RoundKeeps
  <2>6. CASE Select
    BY <2>1, <2>6, SelectKeeps
  <2>7. CASE PassEnds
    BY <2>1, <2>7, PassEndsKeeps
  <2>8. CASE Collect
    BY <2>1, <2>8, CollectKeeps
  <2> QED BY <1>2, <2>2, <2>3, <2>4, <2>5, <2>6, <2>7, <2>8 DEF Next
<1>3. CASE Guess \/ DecideResourceAllocation \/ DecideMapping
  BY <1>3, GuessKeeps, AllocationKeeps, MappingKeeps
<1>4. CASE StepEnds \/ NextStep \/ RoundEnds \/ Conclude
  BY <1>4, StepEndsKeeps, ConcludeKeeps
<1>5. CASE SolvingLP \/ ConstructGraph \/ SolvingRelaxedTripartiteGraphMatching
  BY <1>5, SolvingKeeps, GraphBuildingKeeps, MatchingKeeps
<1>6. CASE FractionalLocalRatio \/ ReduceEnds \/ Unstack \/ Place
  BY <1>6, LocalRatioKeeps, ReduceEndsKeeps, UnstackKeeps, PlaceKeeps
<1> QED BY <1>1, <1>2, <1>3, <1>4, <1>5, <1>6 DEF SearchNext

LEMMA GoodIsFeasible == IInv => ScheduleIsFeasible
<1> SUFFICES ASSUME IInv, phase = "done"
             PROVE  /\ \A i, j \in best : i.app = j.app => i = j
                    /\ \A g \in Gnbs : UsedRBs(best, g) <= problem.rbs[g] /\ UsedCUs(best, g) <= problem.cus[g]
                    /\ \A i \in best :
                          /\ i.app \in problem.apps /\ Reaches(i)
                          /\ IF scheme \in InParts THEN MeetsDeadlineInParts(i) ELSE MeetsDeadline(i)
                          /\ i.value = Utility(i) /\ i.value > 0
  BY DEF ScheduleIsFeasible
<1>1. problem \in InputType /\ Schedule(best, scheme, problem)
  BY InstancesServe
<1>2. ASSUME NEW i \in best
      PROVE  /\ i.app \in problem.apps /\ Reaches(i)
             /\ IF scheme \in InParts THEN MeetsDeadlineInParts(i) ELSE MeetsDeadline(i)
             /\ i.value = Utility(i) /\ i.value > 0
  <2>1. i \in Serving(scheme, problem)
    BY <1>1 DEF Schedule
  <2>2. i.value \in Nat \ {0}
    BY <1>1, <2>1, ServingFields
  <2>3. Reaches(i)
    BY <2>1 DEF Serving, PathIn, Reaches
  <2>4. IF scheme \in InParts THEN MeetsDeadlineInParts(i) ELSE MeetsDeadline(i)
    BY <2>1 DEF Serving, Timely, InTime, InTimeInParts, MeetsDeadlineInParts, MeetsDeadline
  <2>5. i.app \in problem.apps /\ i.value = Utility(i)
    BY <2>1 DEF Serving, UtilityIn, Utility
  <2> QED BY <2>2, <2>3, <2>4, <2>5
<1> QED BY <1>1, <1>2 DEF Schedule, OnePerApp, FitIn

(* The schedule of every scheme (collectSchedulingResults sends it as it is)*)
(* serves an application at most once, gives away no more bands and units   *)
(* than a gNB has left, uses only links and paths that exist, and meets the *)
(* deadline of every application it serves with the utility it reports: for *)
(* every topology, every input and every number of gNBs and applications.   *)
THEOREM SchedulesAreFeasible == SearchSpec => []ScheduleIsFeasible
<1>1. SearchInit => IInv
  BY InitIsGood
<1>2. IInv /\ [SearchNext]_searchVars => IInv'
  BY StepsAreGood
<1>3. IInv => ScheduleIsFeasible
  BY GoodIsFeasible
<1> QED BY <1>1, <1>2, <1>3, PTL DEF SearchSpec

=============================================================================
