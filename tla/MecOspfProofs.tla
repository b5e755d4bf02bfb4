---------------------------- MODULE MecOspfProofs ----------------------------
(***************************************************************************)
(* Proofs about module MecOspf, for every network and any number of        *)
(* failures.                                                               *)
(*                                                                         *)
(* Each handler takes a router of type Router to one; what it does to the  *)
(* fields the invariants speak of is stated by one lemma per handler       *)
(* (Greeted, Received, ...).                                               *)
(*                                                                         *)
(* Inv: the numbers of LSAs agree with those of their origins because an   *)
(* origin raises its number with every change of its list, and sends what  *)
(* it has.  That an LSA of a node is never news to it, which the type of   *)
(* lsdb needs, follows from the numbers, so the two are one invariant.     *)
(*                                                                         *)
(* InStep: when nodes get to their timers together, a node with a          *)
(* scheduler has neither a computation nor a change of its neighbours      *)
(* ahead of it.  This is inductive with Unheard: a node that lost its      *)
(* neighbours by a failure hears nothing before its next hello.            *)
(*                                                                         *)
(* Flooding: a node that sends has a fresh LSA, and a neighbour without    *)
(* one gets a fresh LSA before any old one that is news to it.             *)
(***************************************************************************)
EXTENDS MecOspf, TLAPS, FiniteSetTheorems, WellFoundedInduction

Lsdb(n) == UNION {[D -> [seq : Nat, nbrs : SUBSET Nodes]] : D \in SUBSET (Nodes \ {n})}

\* a router in the middle of a handler
Router(n) ==
    [id : {n}, neighbors : SUBSET Nodes, missed : [Nodes -> Nat], newNeighbors : SUBSET Nodes,
     neighborChanged : BOOLEAN, selfLsa : [origin : {n}, seq : Nat, nbrs : SUBSET Nodes],
     lsdb : Lsdb(n), lsaTimer : BOOLEAN, routeTimer : BOOLEAN,
     schedulerAddr : Nodes \cup {NoAddr}, isGlobalScheduler : BOOLEAN,
     indirectRoutes : UNION {[D -> Nodes] : D \in SUBSET Nodes},
     out : [Nodes -> Seq(Lsa)]]

-----------------------------------------------------------------------------
(* Numbers.                                                                *)

\* a nonempty set of naturals has a least element
LEMMA LeastNatural ==
  ASSUME NEW S, S \subseteq Nat, S # {}
  PROVE  \E n \in S : \A k \in S : n <= k
<1>1. PICK n \in S : \A k \in S : <<k, n>> \notin OpToRel(<, Nat)
  BY NatLessThanWellFounded, WFMin
<1>2. \A k \in S : ~(k < n)
  BY <1>1 DEF OpToRel
<1> QED BY <1>2

\* keys is the set S in ascending order
Sorted(keys, S) ==
    /\ keys \in [1 .. Cardinality(S) -> S]
    /\ \A i, j \in 1 .. Cardinality(S) : i < j => keys[i] < keys[j]

\* a finite set of naturals can be put in order: a smallest one that cannot
\* would lose its least element and be in order
LEMMA SortedExists ==
  ASSUME NEW S0, IsFiniteSet(S0), S0 \subseteq Nat
  PROVE  \E keys : Sorted(keys, S0)
<1> DEFINE Bad == {k \in Nat : \E S \in SUBSET Nat : /\ IsFiniteSet(S) /\ Cardinality(S) = k
                                                     /\ ~\E keys : Sorted(keys, S)}
<1>1. SUFFICES ASSUME Bad # {} PROVE FALSE
  BY FS_CardinalityType
<1>2. PICK k \in Bad : \A i \in Bad : k <= i
  <2>1. Bad \subseteq Nat
    OBVIOUS
  <2> HIDE DEF Bad
  <2> QED BY <1>1, <2>1, LeastNatural
<1>3. PICK S \in SUBSET Nat : /\ IsFiniteSet(S) /\ Cardinality(S) = k
                              /\ ~\E keys : Sorted(keys, S)
  BY <1>2
<1>4. CASE S = {}
  <2>1. Cardinality(S) = 0
    BY <1>4, FS_EmptySet
  <2>2. Sorted([i \in 1 .. 0 |-> 0], S)
    BY <2>1 DEF Sorted
  <2> QED BY <1>3, <2>2
<1>5. CASE S # {}
  <2>1. PICK m \in S : \A o \in S : m <= o
    BY <1>5, LeastNatural
  <2>2. IsFiniteSet(S \ {m}) /\ Cardinality(S \ {m}) = k - 1 /\ k - 1 \in Nat
    <3>1. IsFiniteSet(S \ {m}) /\ Cardinality(S \ {m}) = k - 1
      BY <1>3, <2>1, FS_RemoveElement
    <3>2. Cardinality(S \ {m}) \in Nat
      BY <3>1, FS_CardinalityType
    <3> QED BY <3>1, <3>2
  <2>3. k - 1 \notin Bad
    BY <1>2, <2>2
  <2>4. PICK rest : Sorted(rest, S \ {m})
    BY <2>2, <2>3
  <2>rest. rest \in [1 .. (k - 1) -> S \ {m}]
    BY <2>2, <2>4 DEF Sorted
  <2> DEFINE keys == [i \in 1 .. k |-> IF i = 1 THEN m ELSE rest[i - 1]]
  <2>5. keys \in [1 .. k -> S]
    <3>1. ASSUME NEW i \in 1 .. k PROVE keys[i] \in S
      <4>1. CASE i = 1
        BY <2>1, <4>1
      <4>2. CASE i # 1
        <5>1. i - 1 \in 1 .. (k - 1)
          BY <2>2, <4>2
        <5> QED BY <2>rest, <4>2, <5>1
      <4> QED BY <4>1, <4>2
    <3> QED BY <3>1
  <2>6. ASSUME NEW i \in 1 .. k, NEW j \in 1 .. k, i < j PROVE keys[i] < keys[j]
    <3>0. j \in Int /\ 1 < j /\ j <= k
      BY <2>2, <2>6
    <3>1. j - 1 \in 1 .. (k - 1) /\ keys[j] = rest[j - 1] /\ rest[j - 1] \in S \ {m}
      BY <2>2, <2>rest, <3>0
    <3>2. CASE i = 1
      <4>1. m <= rest[j - 1] /\ m # rest[j - 1] /\ m \in Nat /\ rest[j - 1] \in Nat
        BY <2>1, <3>1
      <4> QED BY <3>1, <3>2, <4>1
    <3>3. CASE i # 1
      <4>1. i - 1 \in 1 .. (k - 1) /\ i - 1 < j - 1 /\ keys[i] = rest[i - 1]
        BY <3>3, <2>6
      <4> QED BY <2>2, <2>4, <3>1, <4>1 DEF Sorted
    <3> QED BY <3>2, <3>3
  <2>7. Sorted(keys, S)
    BY <1>3, <2>5, <2>6 DEF Sorted
  <2> QED BY <1>3, <2>7
<1> QED BY <1>4, <1>5

\* the keys of a set of nodes are those nodes
LEMMA AscendingKeys ==
  ASSUME NEW S \in SUBSET Nodes
  PROVE  /\ Ascending(S) \in [1 .. Cardinality(S) -> S]
         /\ Cardinality(S) \in Nat
<1>1. IsFiniteSet(S) /\ S \subseteq Nat
  BY MecOspfHandlersAssumption, FS_Subset
<1>2. PICK keys : Sorted(keys, S)
  BY <1>1, SortedExists
<1>3. Cardinality(S) \in Nat
  BY <1>1, FS_CardinalityType
<1>4. \E k \in [1 .. Cardinality(S) -> S] :
         \A i, j \in 1 .. Cardinality(S) : i < j => k[i] < k[j]
  BY <1>2 DEF Sorted
<1> QED BY <1>3, <1>4 DEF Ascending

\* the elected node is one
LEMMA ElectedIsNode ==
  ASSUME NEW n \in Nodes, NEW r \in Router(n)
  PROVE  Elected(r) \in Nodes
<1> DEFINE gnbs  == Reachable(r) \cap GnbNodes
           deg(o) == Cardinality(Topology(r, o))
           most  == {o \in gnbs : deg(o) > 0 /\ \A p \in gnbs : deg(p) <= deg(o)}
           cands == IF most # {} THEN most ELSE gnbs \cup {r.id}
<1>1. r.id = n
  BY DEF Router
<1>2. cands # {} /\ cands \subseteq Nodes
  BY <1>1, MecOspfHandlersAssumption
<1>3. Elected(r) = CHOOSE o \in cands : \A p \in cands : o <= p
  BY DEF Elected
<1> HIDE DEF cands
<1>4. \E o \in cands : \A p \in cands : o <= p
  BY <1>2, LeastNatural, MecOspfHandlersAssumption
<1> QED BY <1>2, <1>3, <1>4

-----------------------------------------------------------------------------
(* Handlers.                                                               *)

\* the gNB that is elected serves, and no other
Serves(r) == r.isGlobalScheduler <=> (r.schedulerAddr = r.id /\ r.id \in GnbNodes)

\* what a change of the scheduler or of the routes leaves alone
Kept(r, s) ==
    /\ s.neighbors = r.neighbors /\ s.missed = r.missed /\ s.newNeighbors = r.newNeighbors
    /\ s.selfLsa = r.selfLsa /\ s.lsdb = r.lsdb /\ s.out = r.out
    /\ s.lsaTimer = r.lsaTimer /\ s.routeTimer = r.routeTimer

\* the scheduler and the mark of a change: as before, or reset and marked
Marked(r, s) ==
    \/ /\ s.neighborChanged = r.neighborChanged /\ s.schedulerAddr = r.schedulerAddr
       /\ s.isGlobalScheduler = r.isGlobalScheduler
    \/ s.neighborChanged /\ s.schedulerAddr = NoAddr

\* the reset forgets the scheduler and nothing else
LEMMA Reset ==
  ASSUME NEW n \in Nodes, NEW r \in Router(n)
  PROVE  LET s == ResetGlobalScheduler(r)
         IN  /\ s \in Router(n) /\ Kept(r, s) /\ s.schedulerAddr = NoAddr
             /\ s.neighborChanged = r.neighborChanged
             /\ Serves(r) => Serves(s)
  BY MecOspfHandlersAssumption DEF Router, ResetGlobalScheduler, Kept, Serves

\* so does the removal of the routes
LEMMA Cleared ==
  ASSUME NEW n \in Nodes, NEW r \in Router(n)
  PROVE  LET s == ClearIndirectRoutes(r)
         IN  /\ s \in Router(n) /\ Kept(r, s) /\ s.schedulerAddr = r.schedulerAddr
             /\ s.neighborChanged = r.neighborChanged
             /\ Serves(r) => Serves(s)
<1>1. NoRoutes \in UNION {[D -> Nodes] : D \in SUBSET Nodes}
  <2>1. NoRoutes \in [{} -> Nodes]
    BY DEF NoRoutes
  <2> QED BY <2>1
<1> QED BY <1>1 DEF Router, ClearIndirectRoutes, Kept, Serves

\* a change of the neighbours is marked, and ends the scheduler
LEMMA Changed ==
  ASSUME NEW n \in Nodes, NEW r \in Router(n)
  PROVE  LET s == NeighborsChange(r)
         IN  /\ s \in Router(n) /\ Kept(r, s) /\ s.schedulerAddr = NoAddr
             /\ s.neighborChanged
             /\ Serves(r) => Serves(s)
<1> DEFINE marked == [r EXCEPT !.neighborChanged = TRUE]
           reset  == ResetGlobalScheduler(marked)
<1>1. marked \in Router(n) /\ Kept(r, marked) /\ marked.neighborChanged
      /\ (Serves(r) => Serves(marked))
  BY DEF Router, Kept, Serves
<1> HIDE DEF marked
<1>2. /\ reset \in Router(n) /\ Kept(marked, reset) /\ reset.schedulerAddr = NoAddr
      /\ reset.neighborChanged /\ (Serves(marked) => Serves(reset))
  BY <1>1, Reset
<1> HIDE DEF reset
<1>3. NeighborsChange(r) = ClearIndirectRoutes(reset)
  BY DEF NeighborsChange, reset, marked
<1> QED BY <1>1, <1>2, <1>3, Cleared DEF Kept

\* a hello finds neighbours, counts the silent ones and sets lsaTimer_
LEMMA Greeted ==
  ASSUME NEW n \in Nodes, NEW r \in Router(n), NEW heard \in SUBSET Nodes
  PROVE  LET s == Greet(r, heard)
         IN  /\ s \in Router(n) /\ s.neighbors = r.neighbors \cup heard
             /\ s.selfLsa = r.selfLsa /\ s.lsdb = r.lsdb /\ s.out = r.out
             /\ s.lsaTimer /\ s.routeTimer = r.routeTimer
             /\ s.missed = [m \in Nodes |-> IF m \in r.neighbors \ heard
                                            THEN r.missed[m] + 1 ELSE 0]
             /\ Marked(r, s)
             /\ Serves(r) => Serves(s)
<1> DEFINE new == heard \ r.neighbors
           met == [r EXCEPT !.newNeighbors = new, !.lsaTimer = TRUE, !.neighbors = @ \cup new,
                            !.missed = [m \in Nodes |-> IF m \in r.neighbors \ heard
                                                        THEN @[m] + 1 ELSE 0]]
<1>1. [m \in Nodes |-> IF m \in r.neighbors \ heard THEN r.missed[m] + 1 ELSE 0] \in [Nodes -> Nat]
  <2>1. r.missed \in [Nodes -> Nat]
    BY DEF Router
  <2> QED BY <2>1
<1>2. /\ met \in Router(n) /\ met.neighbors = r.neighbors \cup heard
      /\ met.selfLsa = r.selfLsa /\ met.lsdb = r.lsdb /\ met.out = r.out
      /\ met.lsaTimer /\ met.routeTimer = r.routeTimer
      /\ met.missed = [m \in Nodes |-> IF m \in r.neighbors \ heard
                                       THEN r.missed[m] + 1 ELSE 0]
      /\ met.neighborChanged = r.neighborChanged /\ met.schedulerAddr = r.schedulerAddr
      /\ met.isGlobalScheduler = r.isGlobalScheduler
      /\ Serves(r) => Serves(met)
  BY <1>1 DEF Router, Serves
<1>3. Greet(r, heard) = IF new = {} THEN met ELSE NeighborsChange(met)
  BY DEF Greet
<1> HIDE DEF met, new
<1> QED BY <1>2, <1>3, Changed DEF Kept, Marked

\* a timeout removes neighbours
LEMMA TimeoutsChecked ==
  ASSUME NEW n \in Nodes, NEW r \in Router(n)
  PROVE  LET s == CheckNeighborTimeouts(r)
         IN  /\ s \in Router(n) /\ s.neighbors = r.neighbors \ TimedOut(r)
             /\ s.selfLsa = r.selfLsa /\ s.lsdb = r.lsdb /\ s.out = r.out
             /\ s.lsaTimer = r.lsaTimer /\ s.routeTimer = r.routeTimer
             /\ s.missed = [m \in Nodes |-> IF m \in TimedOut(r) THEN 0 ELSE r.missed[m]]
             /\ Marked(r, s)
             /\ Serves(r) => Serves(s)
<1> DEFINE gone == TimedOut(r)
           left == [r EXCEPT !.neighbors = @ \ gone,
                             !.missed = [m \in Nodes |-> IF m \in gone THEN 0 ELSE @[m]]]
<1>1. r.missed \in [Nodes -> Nat] /\ gone \subseteq r.neighbors
  BY DEF Router, TimedOut
<1>2. CheckNeighborTimeouts(r) = IF gone = {} THEN r ELSE NeighborsChange(left)
  BY DEF CheckNeighborTimeouts
<1> HIDE DEF gone
<1>3. [m \in Nodes |-> IF m \in gone THEN 0 ELSE r.missed[m]] \in [Nodes -> Nat]
  BY <1>1, SMTT(60)
<1>4. /\ left \in Router(n) /\ left.neighbors = r.neighbors \ gone
      /\ left.selfLsa = r.selfLsa /\ left.lsdb = r.lsdb /\ left.out = r.out
      /\ left.lsaTimer = r.lsaTimer /\ left.routeTimer = r.routeTimer
      /\ left.missed = [m \in Nodes |-> IF m \in gone THEN 0 ELSE r.missed[m]]
      /\ Serves(r) => Serves(left)
  BY <1>3 DEF Router, Serves
<1> HIDE DEF left
<1>5. gone = {} => /\ r.neighbors = r.neighbors \ gone
                   /\ r.missed = [m \in Nodes |-> IF m \in gone THEN 0 ELSE r.missed[m]]
  BY <1>1
<1> QED BY <1>2, <1>4, <1>5, Changed DEF Kept, Marked, gone

\* the cached LSAs are those of the nodes in lsaPacketCache_
LEMMA Cached ==
  ASSUME NEW n \in Nodes, NEW r \in Router(n)
  PROVE  /\ CachedLsas(r) \in Seq(Lsa)
         /\ \A i \in DOMAIN CachedLsas(r) :
               \E o \in DOMAIN r.lsdb : CachedLsas(r)[i] = CachedLsa(r, o)
<1> DEFINE S    == DOMAIN r.lsdb
           keys == Ascending(S)
<1>1. S \in SUBSET Nodes /\ r.lsdb \in [S -> [seq : Nat, nbrs : SUBSET Nodes]]
  BY DEF Router, Lsdb
<1>2. keys \in [1 .. Cardinality(S) -> S] /\ Cardinality(S) \in Nat
  BY <1>1, AscendingKeys
<1>3. CachedLsas(r) = [i \in DOMAIN keys |-> CachedLsa(r, keys[i])]
  BY DEF CachedLsas
<1> HIDE DEF keys
<1>4. CachedLsas(r) = [i \in 1 .. Cardinality(S) |-> CachedLsa(r, keys[i])]
  BY <1>2, <1>3
<1>5. \A o \in S : CachedLsa(r, o) \in Lsa
  BY <1>1 DEF CachedLsa, Lsa
<1>6. \A i \in 1 .. Cardinality(S) : keys[i] \in S
  BY <1>2
<1> HIDE DEF S
<1>7. CachedLsas(r) \in [1 .. Cardinality(S) -> Lsa]
  BY <1>4, <1>5, <1>6
<1>8. CachedLsas(r) \in Seq(Lsa)
  BY <1>2, <1>7
<1>9. \A i \in DOMAIN CachedLsas(r) : i \in 1 .. Cardinality(S) /\ keys[i] \in S
                                     /\ CachedLsas(r)[i] = CachedLsa(r, keys[i])
  BY <1>4, <1>6
<1> QED BY <1>8, <1>9 DEF S

\* the LSAs a router sends when it tells of itself
Tells(r, s) ==
    \A m \in Nodes :
        /\ s.out[m] # <<>> => m \in s.neighbors
        /\ \A i \in DOMAIN s.out[m] : \/ s.out[m][i] = s.selfLsa
                                     \/ \E o \in DOMAIN r.lsdb : s.out[m][i] = CachedLsa(r, o)

\* each neighbour gets its own LSA first
Leads(s) == \A m \in s.neighbors : 1 \in DOMAIN s.out[m] /\ s.out[m][1] = s.selfLsa

\* its own LSA goes to its neighbours, the cached ones to the new of them
LEMMA Updated ==
  ASSUME NEW n \in Nodes, NEW r \in Router(n)
  PROVE  LET s == UpdateLsaToNetwork(r)
         IN  /\ s \in Router(n) /\ s = [r EXCEPT !.out = s.out]
             /\ Tells(r, s) /\ Leads(s)
<1> DEFINE s   == UpdateLsaToNetwork(r)
           own == r.selfLsa
           sent(m) == CASE m \in r.neighbors \cap r.newNeighbors -> <<own>> \o CachedLsas(r)
                        [] m \in r.neighbors \ r.newNeighbors    -> <<own>>
                        [] OTHER                                -> <<>>
<1>1. own \in Lsa
  BY DEF Router, Lsa
<1>2. CachedLsas(r) \in Seq(Lsa)
      /\ \A i \in DOMAIN CachedLsas(r) :
            \E o \in DOMAIN r.lsdb : CachedLsas(r)[i] = CachedLsa(r, o)
  BY Cached
<1>3. s = [r EXCEPT !.out = [m \in Nodes |-> sent(m)]]
  BY DEF UpdateLsaToNetwork
<1> DEFINE both == <<own>> \o CachedLsas(r)
<1>4. /\ both \in Seq(Lsa) /\ 1 \in DOMAIN both /\ both[1] = own
      /\ \A i \in DOMAIN both : both[i] = own \/ \E o \in DOMAIN r.lsdb : both[i] = CachedLsa(r, o)
  <2>1. /\ <<own>> \in Seq(Lsa) /\ Len(<<own>>) = 1 /\ <<own>>[1] = own
        /\ Len(CachedLsas(r)) \in Nat /\ DOMAIN CachedLsas(r) = 1 .. Len(CachedLsas(r))
    BY <1>1, <1>2
  <2>2. /\ both \in Seq(Lsa) /\ Len(both) = 1 + Len(CachedLsas(r))
        /\ DOMAIN both = 1 .. Len(both)
    BY <1>2, <2>1
  <2>3. ASSUME NEW i \in DOMAIN both
        PROVE  both[i] = IF i = 1 THEN own ELSE CachedLsas(r)[i - 1]
    BY <1>2, <2>1, <2>2
  <2>4. ASSUME NEW i \in DOMAIN both, i # 1 PROVE i - 1 \in DOMAIN CachedLsas(r)
    BY <2>1, <2>2, <2>4
  <2> QED BY <1>2, <2>2, <2>3, <2>4
<1>5. ASSUME NEW m \in Nodes
      PROVE  /\ sent(m) \in Seq(Lsa) /\ (sent(m) # <<>> => m \in r.neighbors)
             /\ m \in r.neighbors => 1 \in DOMAIN sent(m) /\ sent(m)[1] = own
             /\ \A i \in DOMAIN sent(m) :
                   sent(m)[i] = own \/ \E o \in DOMAIN r.lsdb : sent(m)[i] = CachedLsa(r, o)
  <2>1. CASE m \in r.neighbors \cap r.newNeighbors
    <3>1. sent(m) = both
      BY <2>1
    <3> HIDE DEF sent, both
    <3> QED BY <1>4, <2>1, <3>1
  <2>2. CASE m \in r.neighbors \ r.newNeighbors
    <3>1. sent(m) = <<own>>
      BY <2>2
    <3> HIDE DEF sent
    <3> QED BY <1>1, <2>2, <3>1
  <2>3. CASE m \notin r.neighbors
    <3>1. sent(m) = <<>>
      BY <2>3
    <3> HIDE DEF sent
    <3> QED BY <2>3, <3>1
  <2> QED BY <2>1, <2>2, <2>3
<1> HIDE DEF sent, both
<1>6. [m \in Nodes |-> sent(m)] \in [Nodes -> Seq(Lsa)]
  BY <1>5
<1>7. s \in Router(n) /\ s.out = [m \in Nodes |-> sent(m)]
      /\ s.selfLsa = own /\ s.neighbors = r.neighbors
  BY <1>3, <1>6 DEF Router
<1>8. s = [r EXCEPT !.out = s.out]
  BY <1>3, <1>7
<1> HIDE DEF s, own
<1>9. Tells(r, s)
  BY <1>5, <1>7 DEF Tells
<1>10. Leads(s)
  <2>1. s.neighbors \subseteq Nodes
    BY <1>7 DEF Router
  <2> QED BY <1>5, <1>7, <2>1 DEF Leads
<1> QED BY <1>7, <1>8, <1>9, <1>10 DEF s

\* a change gives the LSA its next number, is told, and will be computed with
LEMMA SelfLsaHandled ==
  ASSUME NEW n \in Nodes, NEW r \in Router(n), r.out = NothingSent
  PROVE  LET s == HandleSelfLsaTimer(r)
         IN  /\ s \in Router(n) /\ s.neighbors = r.neighbors /\ s.missed = r.missed
             /\ s.lsdb = r.lsdb /\ s.lsaTimer = r.lsaTimer /\ ~s.neighborChanged
             /\ s.schedulerAddr = r.schedulerAddr
             /\ Serves(r) => Serves(s)
             /\ Tells(r, s)
             /\ IF r.neighborChanged
                THEN s.selfLsa.seq = r.selfLsa.seq + 1 /\ s.routeTimer /\ Leads(s)
                ELSE s = r
<1> DEFINE own  == [r EXCEPT !.selfLsa = [origin |-> r.id, seq |-> r.selfLsa.seq + 1, nbrs |-> r.neighbors]]
           sent == UpdateLsaToNetwork(own)
<1>1. HandleSelfLsaTimer(r) =
        IF ~r.neighborChanged THEN r
        ELSE [sent EXCEPT !.neighborChanged = FALSE, !.newNeighbors = {}, !.routeTimer = TRUE]
  BY DEF HandleSelfLsaTimer
<1>own. own.selfLsa \in [origin : {n}, seq : Nat, nbrs : SUBSET Nodes]
        /\ own.selfLsa.seq = r.selfLsa.seq + 1
        /\ own = [r EXCEPT !.selfLsa = own.selfLsa]
  <2>1. r.id = n /\ r.selfLsa.seq \in Nat /\ r.neighbors \in SUBSET Nodes
    BY DEF Router
  <2> DEFINE lsa == [origin |-> r.id, seq |-> r.selfLsa.seq + 1, nbrs |-> r.neighbors]
  <2>2. own = [r EXCEPT !.selfLsa = lsa]
    OBVIOUS
  <2>3. lsa \in [origin : {n}, seq : Nat, nbrs : SUBSET Nodes] /\ lsa.seq = r.selfLsa.seq + 1
    BY <2>1
  <2> HIDE DEF own, lsa
  <2>4. own.selfLsa = lsa
    BY <2>2 DEF Router
  <2> QED BY <2>2, <2>3, <2>4
<1>2. /\ own \in Router(n) /\ own.neighbors = r.neighbors /\ own.missed = r.missed
      /\ own.lsdb = r.lsdb /\ own.lsaTimer = r.lsaTimer
      /\ own.schedulerAddr = r.schedulerAddr /\ own.selfLsa.seq = r.selfLsa.seq + 1
      /\ Serves(r) => Serves(own)
  <2> HIDE DEF own
  <2> QED BY <1>own DEF Router, Serves
<1> HIDE DEF own
<1>3. sent \in Router(n) /\ sent = [own EXCEPT !.out = sent.out] /\ Tells(own, sent)
      /\ Leads(sent)
  BY <1>2, Updated
<1> HIDE DEF sent
<1>4. /\ sent.neighbors = r.neighbors /\ sent.missed = r.missed
      /\ sent.lsdb = r.lsdb /\ sent.lsaTimer = r.lsaTimer
      /\ sent.schedulerAddr = r.schedulerAddr /\ sent.selfLsa.seq = r.selfLsa.seq + 1
      /\ Serves(r) => Serves(sent)
  BY <1>2, <1>3 DEF Router, Serves
<1>5. Tells(r, sent)
  BY <1>2, <1>3 DEF Tells, CachedLsa
<1>6. CASE ~r.neighborChanged
  <2>1. HandleSelfLsaTimer(r) = r
    BY <1>1, <1>6
  <2>2. Tells(r, r)
    BY DEF Tells, NothingSent
  <2> QED BY <1>6, <2>1, <2>2
<1>7. CASE r.neighborChanged
  <2> DEFINE done == [sent EXCEPT !.neighborChanged = FALSE, !.newNeighbors = {},
                                  !.routeTimer = TRUE]
  <2>1. /\ done \in Router(n) /\ done.neighbors = sent.neighbors /\ done.missed = sent.missed
        /\ done.lsdb = sent.lsdb /\ done.lsaTimer = sent.lsaTimer /\ ~done.neighborChanged
        /\ done.schedulerAddr = sent.schedulerAddr /\ done.selfLsa = sent.selfLsa
        /\ done.out = sent.out /\ done.routeTimer
        /\ Serves(sent) => Serves(done)
    BY <1>3 DEF Router, Serves
  <2> HIDE DEF done
  <2>2. Tells(r, done) /\ Leads(done)
    BY <1>3, <1>5, <2>1 DEF Tells, Leads
  <2>3. HandleSelfLsaTimer(r) = done
    BY <1>1, <1>7 DEF done
  <2> QED BY <1>4, <1>7, <2>1, <2>2, <2>3
<1> QED BY <1>6, <1>7

\* lsaTimer_: timeouts first, then the LSA of this node
LEMMA LsaTimerHandled ==
  ASSUME NEW n \in Nodes, NEW r \in Router(n), r.out = NothingSent
  PROVE  LET s == LsaTimerFired(r)
         IN  /\ s \in Router(n) /\ s.neighbors = r.neighbors \ TimedOut(r)
             /\ s.missed = [m \in Nodes |-> IF m \in TimedOut(r) THEN 0 ELSE r.missed[m]]
             /\ s.lsdb = r.lsdb /\ ~s.lsaTimer /\ ~s.neighborChanged
             /\ Serves(r) => Serves(s)
             /\ Tells(r, s)
             /\ \/ /\ s.selfLsa = r.selfLsa /\ s.routeTimer = r.routeTimer /\ s.out = NothingSent
                   /\ s.schedulerAddr = r.schedulerAddr
                \/ /\ s.selfLsa.seq = r.selfLsa.seq + 1 /\ s.routeTimer /\ Leads(s)
                   /\ s.schedulerAddr \in {r.schedulerAddr, NoAddr}
                   /\ (r.neighborChanged => r.schedulerAddr = NoAddr) => s.schedulerAddr = NoAddr
<1> DEFINE off == [r EXCEPT !.lsaTimer = FALSE]
           c   == CheckNeighborTimeouts(off)
           s   == HandleSelfLsaTimer(c)
<1>1. /\ off \in Router(n) /\ ~off.lsaTimer /\ off.neighbors = r.neighbors
      /\ off.missed = r.missed /\ off.selfLsa = r.selfLsa /\ off.lsdb = r.lsdb
      /\ off.out = NothingSent /\ off.routeTimer = r.routeTimer
      /\ off.neighborChanged = r.neighborChanged /\ off.schedulerAddr = r.schedulerAddr
      /\ TimedOut(off) = TimedOut(r) /\ (Serves(r) => Serves(off))
  BY DEF Router, TimedOut, Serves
<1> HIDE DEF off
<1>2. /\ c \in Router(n) /\ c.neighbors = r.neighbors \ TimedOut(r)
      /\ c.selfLsa = r.selfLsa /\ c.lsdb = r.lsdb /\ c.out = NothingSent
      /\ ~c.lsaTimer /\ c.routeTimer = r.routeTimer
      /\ c.missed = [m \in Nodes |-> IF m \in TimedOut(r) THEN 0 ELSE r.missed[m]]
      /\ Marked(off, c)
      /\ Serves(r) => Serves(c)
  BY <1>1, TimeoutsChecked
<1> HIDE DEF c
<1>3. /\ s \in Router(n) /\ s.neighbors = c.neighbors /\ s.missed = c.missed
      /\ s.lsdb = c.lsdb /\ s.lsaTimer = c.lsaTimer /\ ~s.neighborChanged
      /\ s.schedulerAddr = c.schedulerAddr
      /\ Serves(c) => Serves(s)
      /\ Tells(c, s)
      /\ IF c.neighborChanged
         THEN s.selfLsa.seq = c.selfLsa.seq + 1 /\ s.routeTimer /\ Leads(s)
         ELSE s = c
  BY <1>2, SelfLsaHandled
<1>4. LsaTimerFired(r) = s
  BY DEF LsaTimerFired, off, c
<1> HIDE DEF s
<1>5. Tells(r, s)
  BY <1>2, <1>3 DEF Tells, CachedLsa
<1>6. CASE c.neighborChanged
  <2>1. /\ s.selfLsa.seq = r.selfLsa.seq + 1 /\ s.routeTimer /\ Leads(s)
        /\ s.schedulerAddr \in {r.schedulerAddr, NoAddr}
        /\ (r.neighborChanged => r.schedulerAddr = NoAddr) => s.schedulerAddr = NoAddr
    BY <1>1, <1>2, <1>3, <1>6 DEF Marked
  <2> QED BY <1>2, <1>3, <1>4, <1>5, <2>1
<1>7. CASE ~c.neighborChanged
  <2>1. /\ s.selfLsa = r.selfLsa /\ s.routeTimer = r.routeTimer /\ s.out = NothingSent
        /\ s.schedulerAddr = r.schedulerAddr
    BY <1>1, <1>2, <1>3, <1>7 DEF Marked
  <2> QED BY <1>2, <1>3, <1>4, <1>5, <2>1
<1> QED BY <1>6, <1>7

\* what is known with one more LSA, and to whom it goes
Learned(r, lsa) == [o \in DOMAIN r.lsdb \cup {lsa.origin} |->
                       IF o = lsa.origin THEN [seq |-> lsa.seq, nbrs |-> lsa.nbrs] ELSE r.lsdb[o]]
PassedOn(r, from, lsa) == [m \in Nodes |-> IF m \in r.neighbors \ {from} THEN <<lsa>> ELSE <<>>]

\* an LSA that is news is kept and passed on, and ends the scheduler
LEMMA Received ==
  ASSUME NEW n \in Nodes, NEW r \in Router(n), r.out = NothingSent, NEW from \in Nodes,
         NEW lsa \in Lsa, lsa.origin = n => lsa.seq <= r.selfLsa.seq
  PROVE  LET s == HandleReceivedLsa(r, from, lsa)
         IN  IF ~IsUpdate(r, lsa) THEN s = r
             ELSE /\ s \in Router(n) /\ s.neighbors = r.neighbors /\ s.missed = r.missed
                  /\ s.selfLsa = r.selfLsa /\ s.lsaTimer = r.lsaTimer /\ s.routeTimer
                  /\ s.neighborChanged = r.neighborChanged /\ s.schedulerAddr = NoAddr
                  /\ Serves(r) => Serves(s)
                  /\ lsa.origin # n
                  /\ s.lsdb = Learned(r, lsa) /\ s.out = PassedOn(r, from, lsa)
<1> DEFINE reset   == ResetGlobalScheduler(r)
           learned == Learn(reset, lsa)
           cleared == ClearIndirectRoutes(learned)
           db      == Learned(r, lsa)
           out     == PassedOn(r, from, lsa)
<1>1. SUFFICES ASSUME IsUpdate(r, lsa)
               PROVE  HandleReceivedLsa(r, from, lsa) = [cleared EXCEPT !.out = out] =>
                      LET s == HandleReceivedLsa(r, from, lsa)
                      IN  /\ s \in Router(n) /\ s.neighbors = r.neighbors /\ s.missed = r.missed
                          /\ s.selfLsa = r.selfLsa /\ s.lsaTimer = r.lsaTimer /\ s.routeTimer
                          /\ s.neighborChanged = r.neighborChanged /\ s.schedulerAddr = NoAddr
                          /\ Serves(r) => Serves(s)
                          /\ lsa.origin # n
                          /\ s.lsdb = db /\ s.out = out
  BY DEF HandleReceivedLsa, PassedOn
<1>2. lsa.origin \in Nodes \ {n} /\ lsa.seq \in Nat /\ lsa.nbrs \in SUBSET Nodes
  <2>1. r.id = n /\ r.selfLsa.seq \in Nat
    BY DEF Router
  <2> QED BY <1>1, <2>1 DEF IsUpdate, Lsa
<1>3. /\ reset \in Router(n) /\ Kept(r, reset) /\ reset.schedulerAddr = NoAddr
      /\ reset.neighborChanged = r.neighborChanged /\ (Serves(r) => Serves(reset))
  BY Reset
<1> HIDE DEF reset
<1>4. db \in Lsdb(n)
  <2>1. PICK D \in SUBSET (Nodes \ {n}) : r.lsdb \in [D -> [seq : Nat, nbrs : SUBSET Nodes]]
    BY DEF Router, Lsdb
  <2>2. db \in [D \cup {lsa.origin} -> [seq : Nat, nbrs : SUBSET Nodes]]
    BY <1>2, <2>1 DEF Learned
  <2>3. D \cup {lsa.origin} \in SUBSET (Nodes \ {n})
    BY <1>2
  <2> QED BY <2>2, <2>3 DEF Lsdb
<1>5. learned = [reset EXCEPT !.lsdb = db, !.routeTimer = TRUE]
  BY <1>3 DEF Learn, Learned, Kept, Router
<1> HIDE DEF db
<1>6. /\ learned \in Router(n) /\ learned.neighbors = r.neighbors /\ learned.missed = r.missed
      /\ learned.selfLsa = r.selfLsa /\ learned.lsaTimer = r.lsaTimer /\ learned.routeTimer
      /\ learned.neighborChanged = r.neighborChanged /\ learned.schedulerAddr = NoAddr
      /\ Serves(r) => Serves(learned)
      /\ learned.lsdb = db
  <2> HIDE DEF learned
  <2>1. learned \in Router(n)
    BY <1>3, <1>4, <1>5 DEF Router
  <2> QED BY <2>1, <1>3, <1>5 DEF Router, Kept, Serves
<1> HIDE DEF learned
<1>7. /\ cleared \in Router(n) /\ Kept(learned, cleared) /\ cleared.schedulerAddr = NoAddr
      /\ cleared.neighborChanged = r.neighborChanged /\ (Serves(r) => Serves(cleared))
  BY <1>6, Cleared
<1> HIDE DEF cleared
<1>8. out \in [Nodes -> Seq(Lsa)]
  <2>1. <<lsa>> \in Seq(Lsa) /\ <<>> \in Seq(Lsa)
    OBVIOUS
  <2> QED BY <2>1 DEF PassedOn
<1> HIDE DEF out
<1>9. LET s == [cleared EXCEPT !.out = out]
      IN  /\ s \in Router(n)
          /\ s.neighbors = cleared.neighbors /\ s.missed = cleared.missed
          /\ s.selfLsa = cleared.selfLsa /\ s.lsaTimer = cleared.lsaTimer
          /\ s.routeTimer = cleared.routeTimer /\ s.lsdb = cleared.lsdb /\ s.out = out
          /\ s.neighborChanged = cleared.neighborChanged /\ s.schedulerAddr = cleared.schedulerAddr
          /\ Serves(cleared) => Serves(s)
  BY <1>7, <1>8 DEF Router, Kept, Serves
<1> QED BY <1>2, <1>6, <1>7, <1>9 DEF Kept

\* a computation drops the nodes it cannot reach and elects
LEMMA Computed ==
  ASSUME NEW n \in Nodes, NEW r \in Router(n), NEW hop \in [FarNodes(r) -> r.neighbors]
  PROVE  LET s == RecomputeIndirectRouting(r, hop)
         IN  /\ s \in Router(n) /\ s.neighbors = r.neighbors /\ s.missed = r.missed
             /\ s.selfLsa = r.selfLsa /\ s.out = r.out
             /\ s.lsaTimer = r.lsaTimer /\ ~s.routeTimer
             /\ s.neighborChanged = r.neighborChanged /\ s.schedulerAddr \in Nodes
             /\ s.lsdb = [o \in (DOMAIN r.lsdb) \cap Reachable(r) |-> r.lsdb[o]]
             /\ r.schedulerAddr = NoAddr /\ Serves(r) => Serves(s)
<1> DEFINE db == [o \in (DOMAIN r.lsdb) \cap Reachable(r) |-> r.lsdb[o]]
           known == [r EXCEPT !.lsdb = db]
           routed == [known EXCEPT !.routeTimer = FALSE, !.indirectRoutes = hop]
           s == RecomputeIndirectRouting(r, hop)
<1>1. PICK D \in SUBSET (Nodes \ {n}) : r.lsdb \in [D -> [seq : Nat, nbrs : SUBSET Nodes]]
  BY DEF Router, Lsdb
<1>2. db \in Lsdb(n)
  <2>1. db \in [D \cap Reachable(r) -> [seq : Nat, nbrs : SUBSET Nodes]]
    BY <1>1
  <2>2. D \cap Reachable(r) \in SUBSET (Nodes \ {n})
    OBVIOUS
  <2> QED BY <2>1, <2>2 DEF Lsdb
<1>3. hop \in UNION {[E -> Nodes] : E \in SUBSET Nodes}
  <2>1. r.neighbors \subseteq Nodes /\ r.id = n
    BY DEF Router
  <2>2. FarNodes(r) \in SUBSET Nodes
    BY <1>1, <2>1 DEF FarNodes, Reachable, Known
  <2>3. hop \in [FarNodes(r) -> Nodes]
    BY <2>1
  <2> QED BY <2>2, <2>3
<1>4. Elected(r) \in Nodes
  BY ElectedIsNode
<1>5. s = SetGlobalScheduler(routed, Elected(r))
  BY DEF RecomputeIndirectRouting
<1> HIDE DEF db
<1>6. /\ routed \in Router(n) /\ routed.neighbors = r.neighbors /\ routed.missed = r.missed
      /\ routed.selfLsa = r.selfLsa /\ routed.out = r.out
      /\ routed.lsaTimer = r.lsaTimer /\ ~routed.routeTimer
      /\ routed.neighborChanged = r.neighborChanged /\ routed.lsdb = db
      /\ routed.schedulerAddr = r.schedulerAddr
      /\ Serves(r) => Serves(routed)
  BY <1>2, <1>3 DEF Router, Serves
<1> HIDE DEF routed, s
<1> DEFINE gs == routed.isGlobalScheduler \/ (Elected(r) = routed.id /\ Elected(r) \in GnbNodes)
<1>7. s = [routed EXCEPT !.schedulerAddr = Elected(r), !.isGlobalScheduler = gs]
  BY <1>5 DEF SetGlobalScheduler
<1>8. /\ s \in Router(n) /\ s.neighbors = r.neighbors /\ s.missed = r.missed
      /\ s.selfLsa = r.selfLsa /\ s.out = r.out
      /\ s.lsaTimer = r.lsaTimer /\ ~s.routeTimer
      /\ s.neighborChanged = r.neighborChanged /\ s.schedulerAddr = Elected(r)
      /\ s.lsdb = db /\ s.isGlobalScheduler = gs /\ s.id = routed.id
  BY <1>4, <1>6, <1>7 DEF Router
<1>9. ASSUME r.schedulerAddr = NoAddr, Serves(r) PROVE Serves(s)
  <2>1. ~routed.isGlobalScheduler
    BY <1>6, <1>9, MecOspfHandlersAssumption DEF Serves, Router
  <2> QED BY <1>8, <2>1 DEF Serves
<1> QED BY <1>4, <1>8, <1>9 DEF s, db

\* a failure leaves the number of the LSA and what was heard of others
LEMMA Failed ==
  ASSUME NEW n \in Nodes, NEW r \in Router(n)
  PROVE  LET s == HandleNodeFailure(r)
         IN  /\ s \in Router(n) /\ s.neighbors = {} /\ s.missed = [m \in Nodes |-> 0]
             /\ s.selfLsa = r.selfLsa /\ s.lsdb = r.lsdb /\ s.out = r.out
             /\ ~s.lsaTimer /\ ~s.routeTimer /\ s.neighborChanged
             /\ s.schedulerAddr = NoAddr
             /\ Serves(r) => Serves(s)
<1> DEFINE reset   == ResetGlobalScheduler(r)
           cleared == ClearIndirectRoutes(reset)
<1>1. /\ reset \in Router(n) /\ Kept(r, reset) /\ reset.schedulerAddr = NoAddr
      /\ Serves(r) => Serves(reset)
  BY Reset
<1> HIDE DEF reset
<1>2. /\ cleared \in Router(n) /\ Kept(reset, cleared) /\ cleared.schedulerAddr = NoAddr
      /\ Serves(r) => Serves(cleared)
  BY <1>1, Cleared
<1>3. HandleNodeFailure(r) =
        [cleared EXCEPT !.lsaTimer = FALSE, !.routeTimer = FALSE, !.neighbors = {},
                        !.missed = [m \in Nodes |-> 0], !.neighborChanged = TRUE]
  BY DEF HandleNodeFailure, reset
<1> HIDE DEF cleared
<1>4. [m \in Nodes |-> 0] \in [Nodes -> Nat]
  OBVIOUS
<1> DEFINE s == HandleNodeFailure(r)
<1> HIDE DEF s
<1>5. s \in Router(n)
  BY <1>2, <1>3, <1>4, ZenonT(60) DEF Router, s
<1>6. /\ s.neighbors = {} /\ s.missed = [m \in Nodes |-> 0]
      /\ s.selfLsa = cleared.selfLsa /\ s.lsdb = cleared.lsdb /\ s.out = cleared.out
      /\ ~s.lsaTimer /\ ~s.routeTimer /\ s.neighborChanged
      /\ s.schedulerAddr = cleared.schedulerAddr
      /\ Serves(cleared) => Serves(s)
  BY <1>2, <1>3 DEF Router, Serves, s
<1>7. Serves(r) => Serves(cleared)
  BY <1>2
<1> QED BY <1>1, <1>2, <1>5, <1>6, <1>7 DEF Kept, s

-----------------------------------------------------------------------------
(* Types and numbers.                                                      *)

\* what holds of a router also inside a handler
Good(n, r) ==
    /\ r \in Router(n) /\ r.neighbors \subseteq Adjacent(n)
    /\ \A m \in Nodes : /\ r.missed[m] <= IF r.lsaTimer THEN 2 ELSE 1
                        /\ r.missed[m] > 0 => m \in r.neighbors

Types ==
    /\ router = [n \in Nodes |-> router[n]]
    /\ \A n \in Nodes : Good(n, router[n]) /\ router[n].out = NothingSent
    /\ rx \in [Nodes -> SUBSET Nodes] /\ \A n \in Nodes : rx[n] \subseteq Adjacent(n)
    /\ channel \in [Nodes -> [Nodes -> Seq(Lsa)]]
    /\ active \subseteq Nodes /\ flood \subseteq Nodes
    /\ faults \in 0 .. MaxFaults

Inv == Types /\ NumbersAreCurrent

\* what a handler of node n makes of its router: its number rises with each
\* change of its list, and all else it keeps or sends agrees with the origins
Fits(n, s) ==
    /\ Good(n, s)
    /\ s.selfLsa = router[n].selfLsa \/ s.selfLsa.seq > router[n].selfLsa.seq
    /\ \A o \in DOMAIN s.lsdb : Agrees(o, s.lsdb[o])
    /\ \A m \in Nodes : \A i \in DOMAIN s.out[m] :
          s.out[m][i] = s.selfLsa \/ Agrees(s.out[m][i].origin, s.out[m][i])

\* channels whose LSAs all agree with their origins
Honest(c) ==
    /\ c \in [Nodes -> [Nodes -> Seq(Lsa)]]
    /\ \A n, m \in Nodes : \A i \in DOMAIN c[n][m] : Agrees(c[n][m][i].origin, c[n][m][i])

\* such handlers keep the invariant
LEMMA Performed ==
  ASSUME Inv, NEW S \in SUBSET Nodes, NEW handled, handled = [n \in S |-> handled[n]],
         \A n \in S : Fits(n, handled[n]),
         NEW c, Honest(c),
         Perform(handled, c), UNCHANGED <<active, rx, faults>>
  PROVE  Inv'
<1>1. /\ router' = [n \in Nodes |-> IF n \in S THEN [handled[n] EXCEPT !.out = NothingSent]
                                     ELSE router[n]]
      /\ channel' = [n \in Nodes |-> [m \in Nodes |->
                       IF n \in S \cap rx[m] THEN c[n][m] \o handled[n].out[m] ELSE c[n][m]]]
      /\ flood' \subseteq Nodes
  BY ZenonT(60) DEF Perform, Sends, Inv, Types
<1>2. NothingSent \in [Nodes -> Seq(Lsa)]
  BY DEF NothingSent
<1>3. ASSUME NEW n \in S
      PROVE  LET s == router'[n]
             IN  /\ s = [handled[n] EXCEPT !.out = NothingSent]
                 /\ Good(n, s) /\ s.out = NothingSent
                 /\ s.selfLsa = handled[n].selfLsa /\ s.lsdb = handled[n].lsdb
  <2>1. router'[n] = [handled[n] EXCEPT !.out = NothingSent]
    BY <1>1
  <2>2. Good(n, handled[n])
    BY DEF Fits
  <2> QED BY <1>2, <2>1, <2>2 DEF Good, Router
<1>4. ASSUME NEW n \in Nodes, n \notin S PROVE router'[n] = router[n]
  BY <1>1, <1>4
<1>5. ASSUME NEW n \in Nodes, NEW m \in Nodes
      PROVE  /\ channel'[n][m] \in Seq(Lsa)
             /\ \A i \in DOMAIN channel'[n][m] :
                   \/ n \in S /\ channel'[n][m][i] = handled[n].selfLsa
                   \/ Agrees(channel'[n][m][i].origin, channel'[n][m][i])
  <2>1. /\ c[n][m] \in Seq(Lsa)
        /\ \A i \in DOMAIN c[n][m] : Agrees(c[n][m][i].origin, c[n][m][i])
    BY DEF Honest
  <2>2. CASE n \in S \cap rx[m]
    <3> DEFINE out == handled[n].out[m]
    <3>1. /\ out \in Seq(Lsa)
          /\ \A i \in DOMAIN out : out[i] = handled[n].selfLsa \/ Agrees(out[i].origin, out[i])
      BY <2>2 DEF Fits, Good, Router
    <3>2. channel'[n][m] = c[n][m] \o out
      BY <1>1, <2>2
    <3> HIDE DEF out
    <3>3. ASSUME NEW i \in DOMAIN channel'[n][m]
          PROVE  \/ i \in DOMAIN c[n][m] /\ channel'[n][m][i] = c[n][m][i]
                 \/ i - Len(c[n][m]) \in DOMAIN out
                    /\ channel'[n][m][i] = out[i - Len(c[n][m])]
      BY <2>1, <3>1, <3>2
    <3>4. channel'[n][m] \in Seq(Lsa)
      BY <2>1, <3>1, <3>2
    <3> QED BY <2>1, <2>2, <3>1, <3>3, <3>4
  <2>3. CASE n \notin S \cap rx[m]
    <3>1. channel'[n][m] = c[n][m]
      BY <1>1, <2>3
    <3> QED BY <2>1, <3>1
  <2> QED BY <2>2, <2>3
<1>6. Types'
  <2>1. \A n \in Nodes : Good(n, router'[n]) /\ router'[n].out = NothingSent
    BY <1>3, <1>4 DEF Inv, Types
  <2>2. router' = [n \in Nodes |-> router'[n]]
    BY <1>1
  <2>3. channel' \in [Nodes -> [Nodes -> Seq(Lsa)]]
    <3>1. channel' = [n \in Nodes |-> [m \in Nodes |-> channel'[n][m]]]
      BY <1>1
    <3> QED BY <1>5, <3>1
  <2> QED BY <1>1, <2>1, <2>2, <2>3 DEF Inv, Types, Good, Adjacent
<1>7. ASSUME NEW o \in Nodes, NEW lsa, lsa.seq \in Nat, Agrees(o, lsa)
      PROVE  /\ lsa.seq <= router'[o].selfLsa.seq
             /\ lsa.seq = router'[o].selfLsa.seq => lsa.nbrs = router'[o].selfLsa.nbrs
  <2>1. router[o].selfLsa.seq \in Nat /\ router'[o].selfLsa.seq \in Nat
    BY <1>6 DEF Inv, Types, Good, Router
  <2>2. router'[o].selfLsa = router[o].selfLsa \/ router'[o].selfLsa.seq > router[o].selfLsa.seq
    BY <1>3, <1>4 DEF Fits
  <2> QED BY <1>7, <2>1, <2>2 DEF Agrees
<1>8. ASSUME NEW n \in Nodes, NEW o \in DOMAIN router'[n].lsdb
      PROVE  Agrees(o, router[n].lsdb[o])'
  <2>1. o \in Nodes /\ router'[n].lsdb[o].seq \in Nat
    BY <1>6, <1>8 DEF Types, Good, Router, Lsdb
  <2>2. Agrees(o, router'[n].lsdb[o])
    <3>1. CASE n \in S
      BY <1>3, <1>8, <3>1 DEF Fits
    <3>2. CASE n \notin S
      BY <1>4, <1>8, <2>1, <3>2 DEF Inv, NumbersAreCurrent
    <3> QED BY <3>1, <3>2
  <2> QED BY <1>7, <2>1, <2>2 DEF Agrees
<1>9. ASSUME NEW n \in Nodes, NEW m \in Nodes, NEW i \in DOMAIN channel'[n][m]
      PROVE  Agrees(channel[n][m][i].origin, channel[n][m][i])'
  <2> DEFINE lsa == channel'[n][m][i]
  <2>1. lsa.origin \in Nodes /\ lsa.seq \in Nat
    <3>1. lsa \in Lsa
      <4>1. channel'[n][m] \in Seq(Lsa)
        BY <1>5
      <4> QED BY <1>9, <4>1
    <3> QED BY <3>1 DEF Lsa
  <2>2. CASE n \in S /\ lsa = handled[n].selfLsa
    <3>1. router'[n].selfLsa = lsa
      BY <1>3, <2>2
    <3>2. lsa.origin = n
      <4>1. router'[n] \in Router(n)
        BY <1>6 DEF Types, Good
      <4>2. router'[n].selfLsa \in [origin : {n}, seq : Nat, nbrs : SUBSET Nodes]
        BY <4>1 DEF Router
      <4> QED BY <3>1, <4>2
    <3> QED BY <2>1, <3>1, <3>2 DEF Agrees
  <2>3. CASE Agrees(lsa.origin, lsa)
    BY <1>7, <2>1, <2>3 DEF Agrees
  <2> QED BY <1>5, <1>9, <2>2, <2>3
<1> QED BY <1>6, <1>8, <1>9 DEF Inv, NumbersAreCurrent

\* each handler fits
LEMMA HelloFits ==
  ASSUME Inv, NEW n \in Nodes, ~router[n].lsaTimer
  PROVE  Fits(n, Greet(router[n], Hears(n)))
<1> DEFINE r == router[n]
           s == Greet(r, Hears(n))
<1>1. /\ r \in Router(n) /\ r.neighbors \subseteq Adjacent(n) /\ r.out = NothingSent
      /\ \A m \in Nodes : r.missed[m] <= 1 /\ (r.missed[m] > 0 => m \in r.neighbors)
      /\ Hears(n) \subseteq Adjacent(n) /\ Hears(n) \subseteq Nodes
  BY DEF Inv, Types, Good, Hears
<1>2. /\ s \in Router(n) /\ s.neighbors = r.neighbors \cup Hears(n)
      /\ s.selfLsa = r.selfLsa /\ s.lsdb = r.lsdb /\ s.out = NothingSent /\ s.lsaTimer
      /\ s.missed = [m \in Nodes |-> IF m \in r.neighbors \ Hears(n) THEN r.missed[m] + 1 ELSE 0]
  BY <1>1, Greeted
<1>3. \A o \in DOMAIN r.lsdb : Agrees(o, r.lsdb[o])
  BY <1>1 DEF Inv, NumbersAreCurrent, Router, Lsdb
<1>4. r.missed \in [Nodes -> Nat]
  BY <1>1 DEF Router
<1> HIDE DEF r, s
<1>5. Good(n, s)
  BY <1>1, <1>2, <1>4 DEF Good
<1>6. Fits(n, s)
  BY <1>2, <1>3, <1>5 DEF Fits, NothingSent, r
<1> QED BY <1>6 DEF s, r

\* what a node tells agrees, since it tells its own number and what it was told
LEMMA LsaTimerFits ==
  ASSUME Inv, NEW n \in Nodes
  PROVE  Fits(n, LsaTimerFired(router[n]))
<1> DEFINE r == router[n]
           s == LsaTimerFired(r)
<1>1. /\ r \in Router(n) /\ r.neighbors \subseteq Adjacent(n) /\ r.out = NothingSent
      /\ \A m \in Nodes : r.missed[m] <= 2 /\ (r.missed[m] > 0 => m \in r.neighbors)
  <2>1. Good(n, r) /\ r.out = NothingSent
    BY DEF Inv, Types
  <2>2. r.missed \in [Nodes -> Nat]
    BY <2>1 DEF Good, Router
  <2> QED BY <2>1, <2>2 DEF Good
<1>2. /\ s \in Router(n) /\ s.neighbors = r.neighbors \ TimedOut(r)
      /\ s.missed = [m \in Nodes |-> IF m \in TimedOut(r) THEN 0 ELSE r.missed[m]]
      /\ s.lsdb = r.lsdb /\ Tells(r, s)
      /\ s.selfLsa = r.selfLsa \/ s.selfLsa.seq = r.selfLsa.seq + 1
  BY <1>1, LsaTimerHandled
<1>3. \A o \in DOMAIN r.lsdb : o \in Nodes /\ Agrees(o, r.lsdb[o])
  BY <1>1 DEF Inv, NumbersAreCurrent, Router, Lsdb
<1>4. r.missed \in [Nodes -> Nat] /\ r.selfLsa.seq \in Nat
  BY <1>1 DEF Router
<1>5. Good(n, s)
  <2>1. \A m \in Nodes : m \in TimedOut(r) <=> m \in r.neighbors /\ r.missed[m] >= 2
    BY DEF TimedOut
  <2> HIDE DEF r, s
  <2> QED BY <1>1, <1>2, <1>4, <2>1 DEF Good
<1> HIDE DEF s
<1>6. \A o \in DOMAIN r.lsdb : CachedLsa(r, o).origin = o /\ Agrees(o, CachedLsa(r, o))
  BY <1>3 DEF CachedLsa, Agrees
<1>7. ASSUME NEW m \in Nodes, NEW i \in DOMAIN s.out[m]
      PROVE  s.out[m][i] = s.selfLsa \/ Agrees(s.out[m][i].origin, s.out[m][i])
  BY <1>2, <1>6, <1>7 DEF Tells
<1>8. Fits(n, s)
  BY <1>2, <1>3, <1>4, <1>5, <1>7 DEF Fits
<1> QED BY <1>8 DEF s

\* an LSA that agrees is no news to its origin, and is kept and passed on as it is
LEMMA ReceiveFits ==
  ASSUME Inv, NEW n \in Nodes, NEW from \in Nodes, channel[from][n] # <<>>
  PROVE  Fits(n, HandleReceivedLsa(router[n], from, Head(channel[from][n])))
<1> DEFINE r   == router[n]
           lsa == Head(channel[from][n])
           s   == HandleReceivedLsa(r, from, lsa)
<1>1. Good(n, r) /\ r \in Router(n) /\ r.out = NothingSent
  BY DEF Inv, Types, Good
<1>2. channel[from][n] \in Seq(Lsa)
  BY DEF Inv, Types
<1>3. lsa \in Lsa /\ Agrees(lsa.origin, lsa)
  <2>1. 1 \in DOMAIN channel[from][n] /\ lsa = channel[from][n][1]
    BY <1>2
  <2> QED BY <1>2, <2>1 DEF Inv, NumbersAreCurrent
<1>4. \A o \in DOMAIN r.lsdb : Agrees(o, r.lsdb[o])
  BY <1>1 DEF Inv, NumbersAreCurrent, Router, Lsdb
<1>5. lsa.origin = n => lsa.seq <= r.selfLsa.seq
  BY <1>3 DEF Agrees
<1> SUFFICES Fits(n, s)
  OBVIOUS
<1> HIDE DEF lsa
<1>6. CASE s = r
  BY <1>1, <1>4, <1>6 DEF Fits, NothingSent
<1>7. CASE s # r
  <2>1. /\ s \in Router(n) /\ s.neighbors = r.neighbors /\ s.missed = r.missed
        /\ s.selfLsa = r.selfLsa /\ s.lsaTimer = r.lsaTimer
        /\ s.lsdb = Learned(r, lsa) /\ s.out = PassedOn(r, from, lsa)
    BY <1>1, <1>3, <1>5, <1>7, Received
  <2> HIDE DEF r, s
  <2>2. Good(n, s)
    BY <1>1, <2>1 DEF Good
  <2>3. \A o \in DOMAIN s.lsdb : Agrees(o, s.lsdb[o])
    <3>1. Agrees(lsa.origin, [seq |-> lsa.seq, nbrs |-> lsa.nbrs])
      BY <1>3 DEF Agrees
    <3> QED BY <1>4, <2>1, <3>1 DEF Learned
  <2>4. \A m \in Nodes : \A i \in DOMAIN s.out[m] : s.out[m][i] = lsa
    BY <2>1 DEF PassedOn
  <2> QED BY <1>3, <2>1, <2>2, <2>3, <2>4 DEF Fits, r
<1> QED BY <1>6, <1>7

\* a computation only forgets
LEMMA ComputationFits ==
  ASSUME Inv, NEW n \in Nodes, NEW hop \in [FarNodes(router[n]) -> router[n].neighbors]
  PROVE  Fits(n, RecomputeIndirectRouting(router[n], hop))
<1> DEFINE r == router[n]
           s == RecomputeIndirectRouting(r, hop)
<1>1. Good(n, r) /\ r \in Router(n) /\ r.out = NothingSent
  BY DEF Inv, Types, Good
<1>2. \A o \in DOMAIN r.lsdb : Agrees(o, r.lsdb[o])
  BY <1>1 DEF Inv, NumbersAreCurrent, Router, Lsdb
<1>3. /\ s \in Router(n) /\ s.neighbors = r.neighbors /\ s.missed = r.missed
      /\ s.selfLsa = r.selfLsa /\ s.out = NothingSent /\ s.lsaTimer = r.lsaTimer
      /\ s.lsdb = [o \in (DOMAIN r.lsdb) \cap Reachable(r) |-> r.lsdb[o]]
  BY <1>1, Computed
<1> HIDE DEF r, s
<1>4. Fits(n, s)
  BY <1>1, <1>2, <1>3 DEF Fits, Good, NothingSent, r
<1> QED BY <1>4 DEF s, r

\* the channels agree, also when the first LSA has been taken off one
LEMMA ChannelsHonest ==
  ASSUME Inv, NEW from \in Nodes, NEW n \in Nodes, channel[from][n] # <<>>
  PROVE  Honest(channel) /\ Honest([channel EXCEPT ![from][n] = Tail(@)])
<1>1. channel \in [Nodes -> [Nodes -> Seq(Lsa)]]
  BY DEF Inv, Types
<1>2. Honest(channel)
  BY <1>1 DEF Inv, NumbersAreCurrent, Honest
<1> DEFINE c == [channel EXCEPT ![from][n] = Tail(@)]
<1>3. c \in [Nodes -> [Nodes -> Seq(Lsa)]]
      /\ \A p, m \in Nodes : c[p][m] = IF p = from /\ m = n THEN Tail(channel[from][n])
                                       ELSE channel[p][m]
  <2>1. Tail(channel[from][n]) \in Seq(Lsa)
    BY <1>1
  <2> QED BY <1>1, <2>1
<1> HIDE DEF c
<1>4. \A i \in DOMAIN Tail(channel[from][n]) :
         /\ i + 1 \in DOMAIN channel[from][n]
         /\ Tail(channel[from][n])[i] = channel[from][n][i + 1]
  BY <1>1
<1>5. ASSUME NEW p \in Nodes, NEW m \in Nodes, NEW i \in DOMAIN c[p][m]
      PROVE  Agrees(c[p][m][i].origin, c[p][m][i])
  <2>1. CASE p = from /\ m = n
    <3>1. c[p][m] = Tail(channel[from][n])
      BY <1>3, <2>1
    <3>2. i + 1 \in DOMAIN channel[from][n] /\ c[p][m][i] = channel[from][n][i + 1]
      BY <1>4, <1>5, <3>1
    <3> QED BY <1>2, <3>2 DEF Honest
  <2>2. CASE ~(p = from /\ m = n)
    BY <1>2, <1>3, <1>5, <2>2 DEF Honest
  <2> QED BY <2>1, <2>2
<1> QED BY <1>2, <1>3, <1>5 DEF Honest, c

\* no node has a neighbour or knows another's LSA
LEMMA InitialInv ==
  ASSUME Init PROVE Inv
<1>1. ASSUME NEW n \in Nodes
      PROVE  /\ Good(n, router[n]) /\ router[n].out = NothingSent
             /\ DOMAIN router[n].lsdb = {}
  <2> DEFINE r == InitialRouter(n)
  <2>1. router[n] = r
    BY DEF Init
  <2>2. /\ NoRoutes \in Lsdb(n) /\ NoRoutes \in UNION {[D -> Nodes] : D \in SUBSET Nodes}
        /\ DOMAIN NoRoutes = {}
    <3>1. NoRoutes \in [{} -> [seq : Nat, nbrs : SUBSET Nodes]] /\ NoRoutes \in [{} -> Nodes]
      BY DEF NoRoutes
    <3> QED BY <3>1 DEF Lsdb
  <2>3. NothingSent \in [Nodes -> Seq(Lsa)] /\ [m \in Nodes |-> 0] \in [Nodes -> Nat]
    BY DEF NothingSent
  <2>4. r \in Router(n) /\ r.out = NothingSent /\ r.lsdb = NoRoutes /\ r.neighbors = {}
        /\ r.missed = [m \in Nodes |-> 0]
    BY <2>2, <2>3 DEF InitialRouter, Router
  <2> HIDE DEF r
  <2> QED BY <2>1, <2>2, <2>4 DEF Good
<1>2. Types
  <2>1. rx = [n \in Nodes |-> Adjacent(n)] /\ \A n \in Nodes : Adjacent(n) \subseteq Nodes
    BY DEF Init, Adjacent
  <2>2. channel \in [Nodes -> [Nodes -> Seq(Lsa)]]
    BY DEF Init
  <2>3. router = [n \in Nodes |-> router[n]] /\ active = Nodes /\ flood = {} /\ faults = 0
    BY DEF Init
  <2>4. 0 \in 0 .. MaxFaults
    BY MecOspfAssumption
  <2> QED BY <1>1, <2>1, <2>2, <2>3, <2>4 DEF Types
<1>3. NumbersAreCurrent
  <2>1. \A n, m \in Nodes : DOMAIN channel[n][m] = {}
    BY DEF Init
  <2> QED BY <1>1, <2>1 DEF NumbersAreCurrent
<1> QED BY <1>2, <1>3 DEF Inv

\* a failure or a recovery sends nothing and changes no number
LEMMA Untold ==
  ASSUME Inv, Types', UNCHANGED channel,
         \A n \in Nodes : /\ router'[n].selfLsa = router[n].selfLsa
                          /\ router'[n].lsdb = router[n].lsdb
  PROVE  Inv'
<1>1. ASSUME NEW o \in Nodes, NEW lsa, Agrees(o, lsa)
      PROVE  /\ lsa.seq <= router'[o].selfLsa.seq
             /\ lsa.seq = router'[o].selfLsa.seq => lsa.nbrs = router'[o].selfLsa.nbrs
  BY <1>1 DEF Agrees
<1>2. ASSUME NEW n \in Nodes, NEW m \in Nodes, m \in DOMAIN router'[n].lsdb
      PROVE  Agrees(m, router[n].lsdb[m])'
  <2>1. Agrees(m, router'[n].lsdb[m])
    BY <1>2 DEF Inv, NumbersAreCurrent
  <2> QED BY <1>1, <2>1 DEF Agrees
<1>3. ASSUME NEW n \in Nodes, NEW m \in Nodes, NEW i \in DOMAIN channel'[n][m]
      PROVE  Agrees(channel[n][m][i].origin, channel[n][m][i])'
  <2> DEFINE lsa == channel[n][m][i]
  <2>1. Agrees(lsa.origin, lsa)
    BY <1>3 DEF Inv, NumbersAreCurrent
  <2>2. lsa.origin \in Nodes
    <3>1. channel[n][m] \in Seq(Lsa)
      BY DEF Inv, Types
    <3>2. lsa \in Lsa
      BY <1>3, <3>1
    <3> QED BY <3>2 DEF Lsa
  <2> HIDE DEF lsa
  <2>3. Agrees(lsa.origin, lsa)'
    BY <1>1, <2>1, <2>2 DEF Agrees, lsa
  <2> QED BY <2>3 DEF lsa
<1> QED BY <1>2, <1>3 DEF Inv, NumbersAreCurrent

\* every step keeps the types and the numbers
LEMMA InvStep ==
  ASSUME Inv, [Next]_vars PROVE Inv'
<1>0. Honest(channel)
  BY DEF Inv, Types, NumbersAreCurrent, Honest
<1>1. ASSUME NEW S \in Together(active), HelloTimer(S) PROVE Inv'
  <2> DEFINE handled == [n \in S |-> Greet(router[n], Hears(n))]
  <2>1. S \in SUBSET Nodes
    BY DEF Inv, Types, Together
  <2>2. \A n \in S : Fits(n, handled[n])
    BY <1>1, <2>1, HelloFits DEF HelloTimer
  <2>3. Perform(handled, channel) /\ UNCHANGED <<active, rx, faults>>
    BY <1>1 DEF HelloTimer
  <2>4. handled = [n \in S |-> handled[n]]
    OBVIOUS
  <2> HIDE DEF handled
  <2> QED BY <1>0, <2>1, <2>2, <2>3, <2>4, Performed
<1>2. ASSUME NEW S \in Together(Waiting), LsaTimer(S) PROVE Inv'
  <2> DEFINE handled == [n \in S |-> LsaTimerFired(router[n])]
  <2>1. S \in SUBSET Nodes
    BY DEF Together, Waiting
  <2>2. \A n \in S : Fits(n, handled[n])
    BY <2>1, LsaTimerFits
  <2>3. Perform(handled, channel) /\ UNCHANGED <<active, rx, faults>>
    BY <1>2 DEF LsaTimer
  <2>4. handled = [n \in S |-> handled[n]]
    OBVIOUS
  <2> HIDE DEF handled
  <2> QED BY <1>0, <2>1, <2>2, <2>3, <2>4, Performed
<1>3. ASSUME NEW n \in Nodes, NEW m \in Nodes, ReceiveLsa(n, m) PROVE Inv'
  <2> DEFINE handled == [x \in {n} |-> HandleReceivedLsa(router[n], m, Head(channel[m][n]))]
             c == [channel EXCEPT ![m][n] = Tail(@)]
  <2>1. \A x \in {n} : Fits(x, handled[x])
    BY <1>3, ReceiveFits DEF ReceiveLsa
  <2>2. Honest(c)
    BY <1>3, ChannelsHonest DEF ReceiveLsa
  <2>3. Perform(handled, c) /\ UNCHANGED <<active, rx, faults>>
    BY <1>3 DEF ReceiveLsa
  <2>4. handled = [x \in {n} |-> handled[x]] /\ {n} \in SUBSET Nodes
    OBVIOUS
  <2> HIDE DEF handled, c
  <2> QED BY <2>1, <2>2, <2>3, <2>4, Performed
<1>4. ASSUME NEW n \in Nodes, RouteComputationTimer(n) PROVE Inv'
  <2>1. PICK hop \in [FarNodes(router[n]) -> router[n].neighbors] :
           /\ Perform([x \in {n} |-> RecomputeIndirectRouting(router[n], hop)], channel)
           /\ UNCHANGED <<active, rx, faults>>
    BY <1>4 DEF RouteComputationTimer
  <2> DEFINE handled == [x \in {n} |-> RecomputeIndirectRouting(router[n], hop)]
  <2>2. \A x \in {n} : Fits(x, handled[x])
    BY ComputationFits
  <2>3. Perform(handled, channel)
    BY <2>1
  <2>4. handled = [x \in {n} |-> handled[x]] /\ {n} \in SUBSET Nodes
    OBVIOUS
  <2> HIDE DEF handled
  <2> QED BY <1>0, <2>1, <2>2, <2>3, <2>4, Performed
<1>5. ASSUME NEW n \in Nodes, NodeDown(n) PROVE Inv'
  <2> DEFINE s == HandleNodeFailure(router[n])
  <2>1. router[n] \in Router(n) /\ router[n].out = NothingSent
    BY DEF Inv, Types, Good
  <2>2. /\ s \in Router(n) /\ s.neighbors = {} /\ s.missed = [m \in Nodes |-> 0]
        /\ s.selfLsa = router[n].selfLsa /\ s.lsdb = router[n].lsdb /\ s.out = NothingSent
    BY <2>1, Failed
  <2>3. router' = [m \in Nodes |-> IF m = n THEN s ELSE router[m]]
    BY <1>5 DEF NodeDown, Inv, Types
  <2> HIDE DEF s
  <2>4. \A m \in Nodes : Good(m, router'[m]) /\ router'[m].out = NothingSent
    BY <2>2, <2>3 DEF Inv, Types, Good
  <2>5. rx' \in [Nodes -> SUBSET Nodes] /\ \A m \in Nodes : rx'[m] \subseteq Adjacent(m)
    BY <1>5 DEF NodeDown, Inv, Types
  <2>6. faults' \in 0 .. MaxFaults
    BY <1>5, MecOspfAssumption DEF NodeDown, Inv, Types
  <2>7. Types'
    <3>1. router' = [m \in Nodes |-> router'[m]]
      BY <2>3
    <3>2. active' \subseteq Nodes /\ UNCHANGED <<channel, flood>>
      BY <1>5 DEF NodeDown, Inv, Types
    <3> QED BY <2>4, <2>5, <2>6, <3>1, <3>2 DEF Inv, Types, Good, Adjacent
  <2>8. UNCHANGED channel
    BY <1>5 DEF NodeDown
  <2> QED BY <2>2, <2>3, <2>7, <2>8, Untold
<1>6. ASSUME NEW n \in Nodes, NodeUp(n) PROVE Inv'
  <2>1. rx' \in [Nodes -> SUBSET Nodes] /\ \A m \in Nodes : rx'[m] \subseteq Adjacent(m)
    BY <1>6 DEF NodeUp, Inv, Types, Adjacent
  <2>2. active' \subseteq Nodes /\ UNCHANGED <<router, channel, flood, faults>>
    BY <1>6 DEF NodeUp, Inv, Types
  <2>3. Types'
    BY <2>1, <2>2 DEF Inv, Types, Good, Adjacent
  <2> QED BY <2>2, <2>3, Untold
<1>7. ASSUME NEW n \in Nodes, NEW m \in Nodes, IfDown(n, m) PROVE Inv'
  <2>1. rx' \in [Nodes -> SUBSET Nodes] /\ \A o \in Nodes : rx'[o] \subseteq Adjacent(o)
    BY <1>7 DEF IfDown, Inv, Types
  <2>2. faults' \in 0 .. MaxFaults /\ UNCHANGED <<router, active, channel, flood>>
    BY <1>7, MecOspfAssumption DEF IfDown, Inv, Types
  <2>3. Types'
    BY <2>1, <2>2 DEF Inv, Types, Good, Adjacent
  <2> QED BY <2>2, <2>3, Untold
<1>8. ASSUME NEW n \in Nodes, NEW m \in Nodes, IfUp(n, m) PROVE Inv'
  <2>1. rx' \in [Nodes -> SUBSET Nodes] /\ \A o \in Nodes : rx'[o] \subseteq Adjacent(o)
    BY <1>8 DEF IfUp, Inv, Types, Adjacent
  <2>2. UNCHANGED <<router, active, channel, flood, faults>>
    BY <1>8 DEF IfUp
  <2>3. Types'
    BY <2>1, <2>2 DEF Inv, Types, Good, Adjacent
  <2> QED BY <2>2, <2>3, Untold
<1>9. CASE UNCHANGED vars
  <2>1. Types' /\ UNCHANGED <<router, channel>>
    BY <1>9 DEF vars, Inv, Types, Good, Adjacent
  <2> QED BY <2>1, Untold
<1> QED BY <1>1, <1>2, <1>3, <1>4, <1>5, <1>6, <1>7, <1>8, <1>9 DEF Next

\* what runs check follows
LEMMA InvImplies ==
  ASSUME Inv PROVE TypeOK /\ NumbersAreCurrent
<1>1. ASSUME NEW n \in Nodes
      PROVE  LET r == router[n]
             IN  /\ r.id = n /\ r.neighbors \subseteq Adjacent(n)
                 /\ r.missed \in [Nodes -> 0 .. 2]
                 /\ r.newNeighbors \subseteq Nodes
                 /\ r.neighborChanged \in BOOLEAN /\ r.lsaTimer \in BOOLEAN
                 /\ r.routeTimer \in BOOLEAN /\ r.isGlobalScheduler \in BOOLEAN
                 /\ r.selfLsa \in Lsa /\ r.selfLsa.origin = n
                 /\ DOMAIN r.lsdb \subseteq Nodes \ {n}
                 /\ r.schedulerAddr \in Nodes \cup {NoAddr}
                 /\ r.out = NothingSent
  <2> DEFINE r == router[n]
  <2>1. Good(n, r) /\ r \in Router(n) /\ r.out = NothingSent
    BY DEF Inv, Types, Good
  <2> HIDE DEF r
  <2>2. r.missed \in [Nodes -> 0 .. 2]
    <3>1. r.missed \in [Nodes -> Nat]
      BY <2>1 DEF Router
    <3>2. \A m \in Nodes : r.missed[m] \in Nat /\ r.missed[m] <= 2
      BY <2>1, <3>1 DEF Good
    <3>3. \A m \in Nodes : r.missed[m] \in 0 .. 2
      BY <3>2
    <3> QED BY <3>1, <3>3
  <2>3. r.selfLsa \in Lsa /\ r.selfLsa.origin = n
    <3>1. r.selfLsa \in [origin : {n}, seq : Nat, nbrs : SUBSET Nodes]
      BY <2>1 DEF Router
    <3> QED BY <3>1 DEF Lsa
  <2>4. DOMAIN r.lsdb \subseteq Nodes \ {n}
    BY <2>1 DEF Router, Lsdb
  <2>5. /\ r.id = n /\ r.neighbors \subseteq Adjacent(n)
        /\ r.newNeighbors \subseteq Nodes
        /\ r.neighborChanged \in BOOLEAN /\ r.lsaTimer \in BOOLEAN
        /\ r.routeTimer \in BOOLEAN /\ r.isGlobalScheduler \in BOOLEAN
        /\ r.schedulerAddr \in Nodes \cup {NoAddr}
    BY <2>1 DEF Router, Good
  <2> QED BY <2>1, <2>2, <2>3, <2>4, <2>5 DEF r
<1>2. ASSUME NEW n \in Nodes, NEW m \in Nodes, NEW i \in DOMAIN channel[n][m]
      PROVE  channel[n][m][i] \in Lsa
  <2>1. channel[n][m] \in Seq(Lsa)
    BY DEF Inv, Types
  <2> QED BY <1>2, <2>1
<1>3. TypeOK
  BY <1>1, <1>2 DEF Inv, Types, TypeOK
<1> QED BY <1>3 DEF Inv

(* The state of every node stays within its type: a neighbour is silent    *)
(* for at most two hellos before it is removed, and no LSA of a node itself *)
(* gets into what it knows of others.                                      *)
THEOREM TypeCorrect == Spec => []TypeOK
<1>1. Spec => []Inv
  BY InitialInv, InvStep, PTL DEF Spec
<1> QED BY <1>1, InvImplies, PTL

(* Whatever fails, and however LSAs, hellos and computations interleave,   *)
(* nobody knows a higher number than the node itself, and the same number  *)
(* is the same list of neighbours (handleSelfLsaTimer, handleReceivedLsa). *)
THEOREM NumbersStayCurrent == Spec => []NumbersAreCurrent
<1>1. Spec => []Inv
  BY InitialInv, InvStep, PTL DEF Spec
<1> QED BY <1>1, InvImplies, PTL

-----------------------------------------------------------------------------
(* The view of the scheduler, when nodes get to their timers together.     *)

\* a node with a scheduler has no computation and no change ahead of it
Steady(r) ==
    /\ Serves(r)
    /\ r.routeTimer => r.schedulerAddr = NoAddr
    /\ r.neighborChanged => r.schedulerAddr = NoAddr

\* nothing reaches n before its next hello
Unheard(n) ==
    /\ ~router[n].routeTimer
    /\ \A m \in Nodes : channel[m][n] = <<>>
    /\ n \in active => \A m \in Nodes : n \notin router[m].neighbors

InStep ==
    /\ \A n \in Nodes : Steady(router[n])
    /\ \A n \in Nodes \ active : rx[n] = {}
    /\ \A n \in Nodes : router[n].neighborChanged /\ ~router[n].lsaTimer => Unheard(n)

\* the moves the abstract specification allows
Allowed ==
    \A n \in Nodes : \/ router'[n].schedulerAddr \in {router[n].schedulerAddr, NoAddr}
                     \/ router[n].schedulerAddr = NoAddr

\* what the handlers of the nodes of S, on the channels c, make of the state
Effect(S, handled, c) ==
    /\ \A n \in S : LET s == router'[n]
                        h == handled[n]
                    IN  /\ s.id = h.id /\ s.neighbors = h.neighbors
                        /\ s.neighborChanged = h.neighborChanged
                        /\ s.lsaTimer = h.lsaTimer /\ s.routeTimer = h.routeTimer
                        /\ s.schedulerAddr = h.schedulerAddr
                        /\ s.isGlobalScheduler = h.isGlobalScheduler
                        /\ s.selfLsa = h.selfLsa /\ s.lsdb = h.lsdb
    /\ \A n \in Nodes \ S : router'[n] = router[n]
    /\ channel' = [n \in Nodes |-> [m \in Nodes |->
                     IF n \in S \cap rx[m] THEN c[n][m] \o handled[n].out[m] ELSE c[n][m]]]
    /\ flood' = IF Empty(channel') THEN {}
                ELSE flood \cup {n \in S : handled[n].selfLsa.seq > router[n].selfLsa.seq}

\* only out changes when a handler is over
LEMMA PerformEffect ==
  ASSUME Inv, NEW S \in SUBSET Nodes, NEW handled, handled = [n \in S |-> handled[n]],
         \A n \in S : handled[n] \in Router(n),
         NEW c, Perform(handled, c)
  PROVE  Effect(S, handled, c)
<1>1. router' = [n \in Nodes |-> IF n \in S THEN [handled[n] EXCEPT !.out = NothingSent]
                                 ELSE router[n]]
  BY DEF Perform
<1>2. channel' = [n \in Nodes |-> [m \in Nodes |->
                    IF n \in S \cap rx[m] THEN c[n][m] \o handled[n].out[m] ELSE c[n][m]]]
  BY DEF Perform, Sends
<1>3. ASSUME NEW n \in S
      PROVE  LET s == router'[n]
                 h == handled[n]
             IN  /\ s.id = h.id /\ s.neighbors = h.neighbors
                 /\ s.neighborChanged = h.neighborChanged
                 /\ s.lsaTimer = h.lsaTimer /\ s.routeTimer = h.routeTimer
                 /\ s.schedulerAddr = h.schedulerAddr
                 /\ s.isGlobalScheduler = h.isGlobalScheduler
                 /\ s.selfLsa = h.selfLsa /\ s.lsdb = h.lsdb
  <2>1. router'[n] = [handled[n] EXCEPT !.out = NothingSent]
    BY <1>1
  <2>2. handled[n] \in Router(n)
    OBVIOUS
  <2> QED BY <2>1, <2>2 DEF Router
<1>4. flood' = IF Empty(channel') THEN {}
               ELSE flood \cup {n \in S : handled[n].selfLsa.seq > router[n].selfLsa.seq}
  BY DEF Perform
<1> QED BY <1>1, <1>2, <1>3, <1>4 DEF Effect

\* a handler that finds no neighbour and sends to its neighbours only leaves
\* unheard who was unheard
LEMMA StaysInStep ==
  ASSUME Inv, InStep, NEW S \in SUBSET Nodes, NEW handled, handled = [n \in S |-> handled[n]],
         \A n \in S :
            /\ handled[n] \in Router(n) /\ Steady(handled[n])
            /\ handled[n].neighbors \subseteq router[n].neighbors
            /\ \A m \in Nodes : handled[n].out[m] # <<>> => m \in handled[n].neighbors
            /\ handled[n].neighborChanged /\ ~handled[n].lsaTimer =>
                  router[n].neighborChanged /\ ~router[n].lsaTimer /\ ~handled[n].routeTimer,
         NEW c, \A n, m \in Nodes : channel[n][m] = <<>> => c[n][m] = <<>>,
         Perform(handled, c), UNCHANGED <<active, rx, faults>>
  PROVE  InStep'
<1>0. Effect(S, handled, c)
  BY PerformEffect
<1>1. /\ \A n \in S : /\ router'[n].neighbors = handled[n].neighbors
                      /\ router'[n].neighborChanged = handled[n].neighborChanged
                      /\ router'[n].lsaTimer = handled[n].lsaTimer
                      /\ router'[n].routeTimer = handled[n].routeTimer
      /\ \A n \in Nodes \ S : router'[n] = router[n]
      /\ channel' = [n \in Nodes |-> [m \in Nodes |->
                       IF n \in S \cap rx[m] THEN c[n][m] \o handled[n].out[m] ELSE c[n][m]]]
  BY <1>0 DEF Effect
<1>2. ASSUME NEW n \in Nodes PROVE Steady(router'[n])
  <2>1. CASE n \in S
    BY <1>0, <2>1 DEF Effect, Steady, Serves
  <2>2. CASE n \notin S
    BY <1>1, <2>2 DEF InStep
  <2> QED BY <2>1, <2>2
<1>3. \A n \in Nodes \ active' : rx'[n] = {}
  BY DEF InStep
<1>4. ASSUME NEW n \in Nodes, router'[n].neighborChanged, ~router'[n].lsaTimer
      PROVE  Unheard(n)'
  <2>1. router[n].neighborChanged /\ ~router[n].lsaTimer /\ ~router'[n].routeTimer
    <3>1. CASE n \in S
      BY <1>1, <1>4, <3>1
    <3>2. CASE n \notin S
      BY <1>1, <1>4, <3>2 DEF InStep, Unheard
    <3> QED BY <3>1, <3>2
  <2>2. Unheard(n)
    BY <2>1 DEF InStep
  <2>3. ASSUME NEW m \in Nodes, n \in active' PROVE n \notin router'[m].neighbors
    <3>1. n \notin router[m].neighbors
      BY <2>2, <2>3 DEF Unheard
    <3>2. router'[m].neighbors \subseteq router[m].neighbors
      BY <1>1
    <3> QED BY <3>1, <3>2
  <2>4. ASSUME NEW m \in Nodes PROVE channel'[m][n] = <<>>
    <3>1. c[m][n] = <<>>
      BY <2>2 DEF Unheard
    <3>2. CASE m \in S \cap rx[n]
      <4>1. n \in active
        BY <3>2 DEF InStep
      <4>2. n \notin handled[m].neighbors
        BY <2>2, <3>2, <4>1 DEF Unheard
      <4>3. handled[m].out[n] = <<>>
        BY <3>2, <4>2
      <4>4. channel'[m][n] = <<>> \o <<>>
        BY <1>1, <3>1, <3>2, <4>3
      <4> QED BY <4>4
    <3>3. CASE m \notin S \cap rx[n]
      BY <1>1, <3>1, <3>3
    <3> QED BY <3>2, <3>3
  <2> QED BY <2>1, <2>3, <2>4 DEF Unheard
<1> QED BY <1>2, <1>3, <1>4 DEF InStep

\* every step keeps the nodes in step and changes a scheduler only through a reset
LEMMA InStepStep ==
  ASSUME Lockstep, LongFaults, Inv, InStep, [Next]_vars
  PROVE  InStep' /\ Allowed
<1> USE DEF Allowed
<1>0. ASSUME NEW n \in Nodes
      PROVE  router[n] \in Router(n) /\ router[n].out = NothingSent /\ Steady(router[n])
  BY DEF Inv, Types, Good, InStep
<1>1. ASSUME NEW S \in Together(active), HelloTimer(S) PROVE InStep' /\ Allowed
  <2> DEFINE handled == [n \in S |-> Greet(router[n], Hears(n))]
  <2>1. S = active /\ S \in SUBSET Nodes
    BY DEF Inv, Types, Together
  <2>2. ASSUME NEW n \in S
        PROVE  LET s == handled[n]
               IN  /\ s \in Router(n) /\ s.out = NothingSent /\ s.lsaTimer /\ Steady(s)
                   /\ s.schedulerAddr \in {router[n].schedulerAddr, NoAddr}
    <3> DEFINE r == router[n]
               heard == Hears(n)
               s == Greet(r, heard)
    <3>1. n \in Nodes /\ heard \in SUBSET Nodes
      BY <2>1 DEF Inv, Types, Hears
    <3>2. r \in Router(n) /\ r.out = NothingSent /\ Steady(r)
      BY <1>0, <3>1
    <3> HIDE DEF r, heard
    <3>3. /\ s \in Router(n) /\ s.neighbors = r.neighbors \cup heard
          /\ s.selfLsa = r.selfLsa /\ s.lsdb = r.lsdb /\ s.out = r.out
          /\ s.lsaTimer /\ s.routeTimer = r.routeTimer
          /\ s.missed = [m \in Nodes |-> IF m \in r.neighbors \ heard
                                         THEN r.missed[m] + 1 ELSE 0]
          /\ Marked(r, s)
          /\ Serves(r) => Serves(s)
      BY <3>1, <3>2, Greeted
    <3> HIDE DEF s
    <3>4. /\ s \in Router(n) /\ s.out = NothingSent /\ s.lsaTimer /\ Steady(s)
          /\ s.schedulerAddr \in {r.schedulerAddr, NoAddr}
      BY <3>2, <3>3 DEF Steady, Marked
    <3> QED BY <3>4 DEF s, r, heard
  <2>3. Perform(handled, channel) /\ Empty(channel) /\ UNCHANGED <<active, rx, faults>>
    BY <1>1 DEF HelloTimer
  <2>4. handled = [n \in S |-> handled[n]]
    OBVIOUS
  <2> HIDE DEF handled
  <2>5. Effect(S, handled, channel)
    BY <2>1, <2>2, <2>3, <2>4, PerformEffect
  <2>6. ASSUME NEW n \in Nodes PROVE Steady(router'[n])
    <3>1. CASE n \in S
      BY <2>2, <2>5, <3>1 DEF Effect, Steady, Serves
    <3>2. CASE n \notin S
      BY <1>0, <2>5, <3>2 DEF Effect
    <3> QED BY <3>1, <3>2
  <2>7. ASSUME NEW n \in Nodes, router'[n].neighborChanged, ~router'[n].lsaTimer
        PROVE  Unheard(n)'
    <3>1. n \notin S /\ router'[n] = router[n]
      BY <2>2, <2>5, <2>7 DEF Effect
    <3>2. Unheard(n)
      BY <2>7, <3>1 DEF InStep
    <3>3. ASSUME NEW m \in Nodes PROVE channel'[m][n] = <<>>
      <4>1. channel[m][n] = <<>>
        BY <2>3 DEF Empty
      <4>2. m \in S => handled[m].out[n] = <<>>
        BY <2>2 DEF NothingSent
      <4>3. channel'[m][n] = <<>> \o <<>> \/ channel'[m][n] = <<>>
        BY <2>5, <4>1, <4>2 DEF Effect
      <4> QED BY <4>3
    <3> QED BY <2>1, <2>3, <3>1, <3>2, <3>3 DEF Unheard
  <2>8. \A n \in Nodes \ active' : rx'[n] = {}
    BY <2>3 DEF InStep
  <2>9. Allowed
    BY <2>2, <2>5 DEF Effect
  <2> QED BY <2>6, <2>7, <2>8, <2>9 DEF InStep
<1>2. ASSUME NEW S \in Together(Waiting), LsaTimer(S) PROVE InStep' /\ Allowed
  <2> DEFINE handled == [n \in S |-> LsaTimerFired(router[n])]
  <2>1. S \in SUBSET Nodes
    BY DEF Together, Waiting
  <2>2. ASSUME NEW n \in S
        PROVE  LET s == handled[n]
               IN  /\ s \in Router(n) /\ Steady(s) /\ ~s.neighborChanged
                   /\ s.neighbors \subseteq router[n].neighbors
                   /\ \A m \in Nodes : s.out[m] # <<>> => m \in s.neighbors
                   /\ s.schedulerAddr \in {router[n].schedulerAddr, NoAddr}
    <3> DEFINE r == router[n]
               s == LsaTimerFired(r)
    <3>1. n \in Nodes
      BY <2>1
    <3>2. r \in Router(n) /\ r.out = NothingSent /\ Steady(r)
      BY <1>0, <3>1
    <3> HIDE DEF r
    <3>3. /\ s \in Router(n) /\ s.neighbors = r.neighbors \ TimedOut(r)
          /\ ~s.neighborChanged /\ (Serves(r) => Serves(s)) /\ Tells(r, s)
          /\ \/ /\ s.selfLsa = r.selfLsa /\ s.routeTimer = r.routeTimer /\ s.out = NothingSent
                /\ s.schedulerAddr = r.schedulerAddr
             \/ /\ s.selfLsa.seq = r.selfLsa.seq + 1
                /\ s.schedulerAddr \in {r.schedulerAddr, NoAddr}
                /\ (r.neighborChanged => r.schedulerAddr = NoAddr) => s.schedulerAddr = NoAddr
      BY <3>1, <3>2, LsaTimerHandled
    <3> HIDE DEF s
    <3>4. /\ s \in Router(n) /\ Steady(s) /\ ~s.neighborChanged
          /\ s.neighbors \subseteq r.neighbors
          /\ \A m \in Nodes : s.out[m] # <<>> => m \in s.neighbors
          /\ s.schedulerAddr \in {r.schedulerAddr, NoAddr}
      BY <3>2, <3>3 DEF Steady, Tells
    <3> QED BY <3>4 DEF s, r
  <2>3. Perform(handled, channel) /\ UNCHANGED <<active, rx, faults>>
    BY <1>2 DEF LsaTimer
  <2>4. handled = [n \in S |-> handled[n]]
    OBVIOUS
  <2> HIDE DEF handled
  <2>5. InStep'
    BY <2>1, <2>2, <2>3, <2>4, StaysInStep
  <2>6. Effect(S, handled, channel)
    BY <2>1, <2>2, <2>3, <2>4, PerformEffect
  <2> QED BY <2>2, <2>5, <2>6 DEF Effect
<1>3. ASSUME NEW n \in Nodes, NEW m \in Nodes, ReceiveLsa(n, m) PROVE InStep' /\ Allowed
  <2> DEFINE r == router[n]
             lsa == Head(channel[m][n])
             s == HandleReceivedLsa(r, m, lsa)
             handled == [x \in {n} |-> HandleReceivedLsa(router[n], m, lsa)]
             c == [channel EXCEPT ![m][n] = Tail(@)]
  <2>1. channel[m][n] # <<>> /\ channel[m][n] \in Seq(Lsa)
    BY <1>3 DEF ReceiveLsa, Inv, Types
  <2>2. lsa \in Lsa /\ Agrees(lsa.origin, lsa)
    <3>1. 1 \in DOMAIN channel[m][n] /\ lsa = channel[m][n][1]
      BY <2>1
    <3> QED BY <2>1, <3>1 DEF Inv, NumbersAreCurrent
  <2>3. Perform(handled, c) /\ UNCHANGED <<active, rx, faults>>
    BY <1>3 DEF ReceiveLsa
  <2>4. ~(r.neighborChanged /\ ~r.lsaTimer)
    BY <2>1 DEF InStep, Unheard
  <2>5. r \in Router(n) /\ r.out = NothingSent /\ Steady(r)
    BY <1>0
  <2>6. lsa.origin = n => lsa.seq <= r.selfLsa.seq
    BY <2>2 DEF Agrees
  <2> HIDE DEF lsa, r
  <2>7. /\ s \in Router(n) /\ Steady(s) /\ s.neighbors = r.neighbors
        /\ \A o \in Nodes : s.out[o] # <<>> => o \in s.neighbors
        /\ s.neighborChanged = r.neighborChanged /\ s.lsaTimer = r.lsaTimer
        /\ s.schedulerAddr \in {r.schedulerAddr, NoAddr}
    <3>1. CASE s = r
      BY <2>5, <3>1 DEF NothingSent
    <3>2. CASE s # r
      <4>1. /\ s \in Router(n) /\ s.neighbors = r.neighbors /\ s.lsaTimer = r.lsaTimer
            /\ s.neighborChanged = r.neighborChanged /\ s.schedulerAddr = NoAddr
            /\ Serves(r) => Serves(s)
            /\ s.out = PassedOn(r, m, lsa)
        BY <2>2, <2>5, <2>6, <3>2, Received
      <4> HIDE DEF s
      <4> QED BY <2>5, <4>1 DEF Steady, PassedOn
    <3> QED BY <3>1, <3>2
  <2>8. handled = [x \in {n} |-> s] /\ handled = [x \in {n} |-> handled[x]] /\ {n} \in SUBSET Nodes
    BY DEF r
  <2> HIDE DEF handled, s
  <2>9. \A p, o \in Nodes : channel[p][o] = <<>> => c[p][o] = <<>>
    <3>1. channel \in [Nodes -> [Nodes -> Seq(Lsa)]]
      BY DEF Inv, Types
    <3> QED BY <2>1, <3>1
  <2> HIDE DEF c
  <2>10. \A x \in {n} :
            /\ handled[x] \in Router(x) /\ Steady(handled[x])
            /\ handled[x].neighbors \subseteq router[x].neighbors
            /\ \A o \in Nodes : handled[x].out[o] # <<>> => o \in handled[x].neighbors
            /\ handled[x].neighborChanged /\ ~handled[x].lsaTimer =>
                  router[x].neighborChanged /\ ~router[x].lsaTimer /\ ~handled[x].routeTimer
            /\ handled[x].schedulerAddr \in {router[x].schedulerAddr, NoAddr}
    BY <2>4, <2>7, <2>8 DEF r
  <2>11. InStep'
    BY <2>3, <2>8, <2>9, <2>10, StaysInStep
  <2>12. Effect({n}, handled, c)
    BY <2>3, <2>8, <2>10, PerformEffect
  <2> QED BY <2>10, <2>11, <2>12 DEF Effect
<1>4. ASSUME NEW n \in Nodes, RouteComputationTimer(n) PROVE InStep' /\ Allowed
  <2>1. PICK hop \in [FarNodes(router[n]) -> router[n].neighbors] :
           /\ Perform([x \in {n} |-> RecomputeIndirectRouting(router[n], hop)], channel)
           /\ UNCHANGED <<active, rx, faults>>
    BY <1>4 DEF RouteComputationTimer
  <2> DEFINE r == router[n]
             s == RecomputeIndirectRouting(r, hop)
             handled == [x \in {n} |-> RecomputeIndirectRouting(router[n], hop)]
  <2>2. r.routeTimer /\ ~r.lsaTimer
    BY <1>4 DEF RouteComputationTimer, NoLsaTimer
  <2>3. r \in Router(n) /\ r.out = NothingSent /\ Steady(r)
    BY <1>0
  <2>4. r.schedulerAddr = NoAddr /\ ~r.neighborChanged
    BY <2>2, <2>3 DEF Steady, InStep, Unheard
  <2>5. /\ s \in Router(n) /\ s.neighbors = r.neighbors /\ s.out = NothingSent
        /\ s.lsaTimer = r.lsaTimer /\ ~s.routeTimer /\ ~s.neighborChanged
        /\ Serves(s)
    <3>1. /\ s \in Router(n) /\ s.neighbors = r.neighbors /\ s.out = r.out
          /\ s.lsaTimer = r.lsaTimer /\ ~s.routeTimer /\ s.neighborChanged = r.neighborChanged
          /\ r.schedulerAddr = NoAddr /\ Serves(r) => Serves(s)
      <4>1. r \in Router(n) /\ hop \in [FarNodes(r) -> r.neighbors]
        BY <2>3
      <4> HIDE DEF r
      <4>2. /\ s \in Router(n) /\ s.neighbors = r.neighbors /\ s.missed = r.missed
            /\ s.selfLsa = r.selfLsa /\ s.out = r.out
            /\ s.lsaTimer = r.lsaTimer /\ ~s.routeTimer
            /\ s.neighborChanged = r.neighborChanged /\ s.schedulerAddr \in Nodes
            /\ s.lsdb = [o \in (DOMAIN r.lsdb) \cap Reachable(r) |-> r.lsdb[o]]
            /\ r.schedulerAddr = NoAddr /\ Serves(r) => Serves(s)
        BY <4>1, Computed
      <4> HIDE DEF s
      <4> QED BY <4>2
    <3> HIDE DEF r, s
    <3> QED BY <2>3, <2>4, <3>1 DEF Steady
  <2>6. Perform(handled, channel)
    BY <2>1
  <2>7. handled = [x \in {n} |-> s] /\ handled = [x \in {n} |-> handled[x]] /\ {n} \in SUBSET Nodes
    OBVIOUS
  <2> HIDE DEF handled, s
  <2>8. \A x \in {n} :
            /\ handled[x] \in Router(x) /\ Steady(handled[x])
            /\ handled[x].neighbors \subseteq router[x].neighbors
            /\ \A o \in Nodes : handled[x].out[o] # <<>> => o \in handled[x].neighbors
            /\ handled[x].neighborChanged /\ ~handled[x].lsaTimer =>
                  router[x].neighborChanged /\ ~router[x].lsaTimer /\ ~handled[x].routeTimer
    BY <2>5, <2>7 DEF Steady, NothingSent
  <2>9. InStep'
    BY <2>1, <2>6, <2>7, <2>8, StaysInStep
  <2>10. Effect({n}, handled, channel)
    BY <2>6, <2>7, <2>8, PerformEffect
  <2> QED BY <2>4, <2>9, <2>10 DEF Effect
<1>5. ASSUME NEW n \in Nodes, NodeDown(n) PROVE InStep' /\ Allowed
  <2> DEFINE s == HandleNodeFailure(router[n])
  <2>1. router[n] \in Router(n) /\ Steady(router[n])
    BY <1>0
  <2>2. /\ s.neighbors = {} /\ ~s.lsaTimer /\ ~s.routeTimer /\ s.neighborChanged
        /\ s.schedulerAddr = NoAddr /\ Serves(s)
    BY <2>1, Failed DEF Steady
  <2>3. router' = [m \in Nodes |-> IF m = n THEN s ELSE router[m]]
    BY <1>5 DEF NodeDown, Inv, Types
  <2>4. /\ active' = active \ {n} /\ channel' = channel /\ Empty(channel)
        /\ \A m \in Nodes : rx'[m] = IF m = n THEN {} ELSE rx[m]
    BY <1>5 DEF NodeDown, Inv, Types
  <2> HIDE DEF s
  <2>5. \A m \in Nodes : Steady(router'[m]) /\ (m \notin active' => rx'[m] = {})
    BY <2>2, <2>3, <2>4 DEF InStep, Steady
  <2>6. ASSUME NEW m \in Nodes, router'[m].neighborChanged, ~router'[m].lsaTimer
        PROVE  Unheard(m)'
    BY <2>2, <2>3, <2>4, <2>6 DEF InStep, Unheard, Empty
  <2>7. Allowed
    BY <2>2, <2>3
  <2> QED BY <2>5, <2>6, <2>7 DEF InStep
<1>6. ASSUME NEW n \in Nodes, NodeUp(n) PROVE InStep' /\ Allowed
  <2>1. /\ active' = active \cup {n} /\ UNCHANGED <<router, channel>>
        /\ \A m \in Nodes : n \notin router[m].neighbors
        /\ \A m \in Nodes : m # n => rx'[m] = rx[m]
    BY <1>6 DEF NodeUp, Inv, Types
  <2> QED BY <2>1 DEF InStep, Unheard
<1>7. ASSUME NEW n \in Nodes, NEW m \in Nodes, IfDown(n, m) PROVE InStep' /\ Allowed
  <2>1. /\ UNCHANGED <<router, active, channel>>
        /\ \A o \in Nodes : rx'[o] \subseteq rx[o]
    BY <1>7 DEF IfDown, Inv, Types
  <2> QED BY <2>1 DEF InStep, Unheard
<1>8. ASSUME NEW n \in Nodes, NEW m \in Nodes, IfUp(n, m) PROVE InStep' /\ Allowed
  <2>1. /\ UNCHANGED <<router, active, channel>> /\ n \in active
        /\ \A o \in Nodes : o # n => rx'[o] = rx[o]
    BY <1>8 DEF IfUp, Inv, Types
  <2> QED BY <2>1 DEF InStep, Unheard
<1>9. CASE UNCHANGED vars
  BY <1>9 DEF vars, InStep, Unheard
<1> QED BY <1>1, <1>2, <1>3, <1>4, <1>5, <1>6, <1>7, <1>8, <1>9 DEF Next

\* a step with allowed moves is a step of the abstract specification
LEMMA AbstractStep ==
  ASSUME Inv', InStep', Allowed PROVE View!Next
<1>1. ASSUME NEW n \in Nodes
      PROVE  /\ router'[n].schedulerAddr \in Nodes \cup {NoAddr}
             /\ router'[n].isGlobalScheduler <=> n \in GnbNodes /\ router'[n].schedulerAddr = n
  <2>1. router'[n] \in Router(n)
    BY DEF Inv, Types, Good
  <2>2. Serves(router'[n])
    BY DEF InStep, Steady
  <2>3. router'[n].id = n /\ router'[n].schedulerAddr \in Nodes \cup {NoAddr}
    BY <2>1 DEF Router
  <2> QED BY <2>2, <2>3 DEF Serves
<1>2. \A n \in Nodes : \/ router'[n].schedulerAddr = router[n].schedulerAddr
                       \/ router'[n].schedulerAddr = NoAddr
                       \/ router[n].schedulerAddr = NoAddr /\ router'[n].schedulerAddr \in Nodes
  BY <1>1 DEF Allowed
<1>3. {n \in Nodes : router'[n].isGlobalScheduler}
        = {n \in GnbNodes : router'[n].schedulerAddr = n}
  BY <1>1, MecOspfHandlersAssumption
<1>4. \A n \in GnbNodes : n \in Nodes
  BY MecOspfHandlersAssumption
<1> QED BY <1>1, <1>2, <1>3, <1>4 DEF View!Next, View!Forgets, View!Adopts, View!Serving

(* When all nodes start OSPF together and failures outlast the hello       *)
(* timeout, a node changes its scheduler only through the reset in which   *)
(* NodeInfo ends its grants and services, in any network and however hello *)
(* timers, LSAs, computations and failures fall; its scheduler application *)
(* runs exactly while it is elected.                                       *)
THEOREM ChangesOnlyThroughReset ==
  ASSUME Lockstep, LongFaults
  PROVE  Spec => ChangesThroughReset
<1>1. Init => Inv /\ InStep /\ View!Init
  <2>1. ASSUME Init PROVE InStep /\ View!Init
    <3>1. active = Nodes
          /\ \A n \in Nodes : /\ router[n].schedulerAddr = NoAddr /\ ~router[n].isGlobalScheduler
                              /\ ~router[n].routeTimer /\ ~router[n].neighborChanged
                              /\ router[n].id = n
      BY <2>1 DEF Init, InitialRouter
    <3>2. InStep
      BY <3>1, MecOspfHandlersAssumption DEF InStep, Steady, Serves
    <3>3. View!Init
      <4>1. [n \in Nodes |-> router[n].schedulerAddr] = [n \in Nodes |-> NoAddr]
        BY <3>1
      <4>2. {n \in Nodes : router[n].isGlobalScheduler} = {}
        BY <3>1
      <4> QED BY <4>1, <4>2 DEF View!Init
    <3> QED BY <3>2, <3>3
  <2> QED BY <2>1, InitialInv
<1>2. Inv /\ InStep /\ [Next]_vars => Inv' /\ InStep' /\ View!Next
  BY InvStep, InStepStep, AbstractStep
<1> QED BY <1>1, <1>2, PTL DEF Spec, ChangesThroughReset, View!Spec

-----------------------------------------------------------------------------
(* A flood: what is true while LSAs are on the links.                      *)

\* the latest LSA of a node that generated one in this flood
Fresh(lsa) == lsa.origin \in flood /\ lsa.seq = router[lsa.origin].selfLsa.seq

\* a fresh LSA has got to n
Reached(n) == \E o \in flood : ~IsUpdate(router[n], router[o].selfLsa)

\* the i-th LSA from m to n is fresh and news to n
News(m, n, i) == IsUpdate(router[n], channel[m][n][i]) /\ Fresh(channel[m][n][i])

Flooding ==
    /\ Empty(channel) => flood = {}
    /\ \A n \in flood : ~router[n].lsaTimer
    /\ \A m, n \in Nodes : channel[m][n] # <<>> => Reached(m)
    /\ \A n \in Nodes : Reached(n) => router[n].routeTimer
    \* the LSAs on the way to a node not reached: a fresh one before any other news
    /\ \A m, n \in Nodes : ~Reached(n) =>
          \A i \in DOMAIN channel[m][n] : IsUpdate(router[n], channel[m][n][i]) =>
              \/ Fresh(channel[m][n][i])
              \/ \E j \in DOMAIN channel[m][n] : j < i /\ News(m, n, j)
    \* a node that is reached tells its neighbours
    /\ \A m, n \in Nodes : Reached(m) /\ n \in router[m].neighbors /\ m \in rx[n] =>
          \/ Reached(n)
          \/ \E i \in DOMAIN channel[m][n] : News(m, n, i)

\* nothing to show once the links are empty
LEMMA FloodOver ==
  ASSUME Empty(channel'), flood' = {} PROVE Flooding'
<1>1. \A m, n \in Nodes : channel'[m][n] = <<>> /\ DOMAIN channel'[m][n] = {}
  BY DEF Empty
<1>2. \A n \in Nodes : ~Reached(n)'
  BY DEF Reached
<1> QED BY <1>1, <1>2 DEF Flooding

\* what the types say of a node and of the LSAs on a link
LEMMA OfTypes ==
  ASSUME Inv, NEW n \in Nodes
  PROVE  /\ router[n] \in Router(n) /\ router[n].out = NothingSent
         /\ router[n].id = n /\ router[n].neighbors \subseteq Nodes \ {n}
         /\ router[n].selfLsa \in Lsa /\ router[n].selfLsa.origin = n
         /\ router[n].selfLsa.seq \in Nat
         /\ \A o \in DOMAIN router[n].lsdb :
               /\ o \in Nodes /\ router[n].lsdb[o].seq \in Nat
               /\ router[n].lsdb[o].seq <= router[o].selfLsa.seq
         /\ \A m \in Nodes :
               /\ channel[n][m] \in Seq(Lsa)
               /\ \A i \in DOMAIN channel[n][m] :
                     LET lsa == channel[n][m][i]
                     IN  /\ lsa \in Lsa /\ lsa.origin \in Nodes /\ lsa.seq \in Nat
                         /\ lsa.seq <= router[lsa.origin].selfLsa.seq
<1>1. Good(n, router[n]) /\ router[n].out = NothingSent
  BY DEF Inv, Types
<1>2. router[n] \in Router(n) /\ router[n].neighbors \subseteq Adjacent(n)
  BY <1>1 DEF Good
<1>3. n \notin Adjacent(n)
  <2>1. Cardinality({n, n}) = 1
    BY FS_Singleton
  <2> QED BY <2>1, MecOspfAssumption DEF Adjacent
<1>4. router[n].neighbors \subseteq Nodes \ {n}
  BY <1>2, <1>3 DEF Adjacent
<1>5. router[n].selfLsa \in [origin : {n}, seq : Nat, nbrs : SUBSET Nodes] /\ router[n].id = n
  BY <1>2 DEF Router
<1>6. \A o \in DOMAIN router[n].lsdb : o \in Nodes /\ router[n].lsdb[o].seq \in Nat
  BY <1>2 DEF Router, Lsdb
<1>7. \A o \in DOMAIN router[n].lsdb : router[n].lsdb[o].seq <= router[o].selfLsa.seq
  BY <1>6 DEF Inv, NumbersAreCurrent, Agrees
<1>8. ASSUME NEW m \in Nodes
      PROVE  /\ channel[n][m] \in Seq(Lsa)
             /\ \A i \in DOMAIN channel[n][m] :
                   LET lsa == channel[n][m][i]
                   IN  /\ lsa \in Lsa /\ lsa.origin \in Nodes /\ lsa.seq \in Nat
                       /\ lsa.seq <= router[lsa.origin].selfLsa.seq
  <2>1. channel[n][m] \in Seq(Lsa)
    BY DEF Inv, Types
  <2>2. \A i \in DOMAIN channel[n][m] : channel[n][m][i] \in Lsa
    BY <2>1
  <2>3. \A lsa \in Lsa : lsa.origin \in Nodes /\ lsa.seq \in Nat
    BY DEF Lsa
  <2>4. \A i \in DOMAIN channel[n][m] :
           channel[n][m][i].seq <= router[channel[n][m][i].origin].selfLsa.seq
    BY DEF Inv, NumbersAreCurrent, Agrees
  <2> QED BY <2>1, <2>2, <2>3, <2>4
<1>9. router[n].selfLsa \in Lsa /\ router[n].selfLsa.origin = n /\ router[n].selfLsa.seq \in Nat
  BY <1>5 DEF Lsa
<1> QED BY <1>1, <1>2, <1>4, <1>5, <1>6, <1>7, <1>8, <1>9

\* where the LSAs are on a channel when more are appended
LEMMA Appended ==
  ASSUME NEW a \in Seq(Lsa), NEW b \in Seq(Lsa)
  PROVE  LET both == a \o b
         IN  /\ \A i \in DOMAIN a : i \in DOMAIN both /\ both[i] = a[i]
             /\ 1 \in DOMAIN b => Len(a) + 1 \in DOMAIN both /\ both[Len(a) + 1] = b[1]
             /\ \A i \in DOMAIN both : i \notin DOMAIN a =>
                   /\ b # <<>> /\ (Len(a) + 1 = i \/ Len(a) + 1 < i)
                   /\ \A j \in DOMAIN a : j < i
<1> DEFINE both == a \o b
<1>1. /\ Len(a) \in Nat /\ DOMAIN a = 1 .. Len(a) /\ Len(b) \in Nat /\ DOMAIN b = 1 .. Len(b)
      /\ DOMAIN both = 1 .. (Len(a) + Len(b))
      /\ \A i \in 1 .. (Len(a) + Len(b)) : both[i] = IF i <= Len(a) THEN a[i] ELSE b[i - Len(a)]
      /\ b = <<>> => Len(b) = 0
  OBVIOUS
<1> HIDE DEF both
<1>2. \A i \in DOMAIN a : i \in DOMAIN both /\ both[i] = a[i]
  BY <1>1
<1>3. 1 \in DOMAIN b => Len(a) + 1 \in DOMAIN both /\ both[Len(a) + 1] = b[1]
  BY <1>1
<1>4. \A i \in DOMAIN both : i \notin DOMAIN a =>
         b # <<>> /\ (Len(a) + 1 = i \/ Len(a) + 1 < i)
  BY <1>1
<1>5. \A i \in DOMAIN both : i \notin DOMAIN a => \A j \in DOMAIN a : j < i
  BY <1>1
<1> QED BY <1>2, <1>3, <1>4, <1>5 DEF both

\* nodes get to lsaTimer_ in a flood: those that generate an LSA join it
LEMMA TimersFlood ==
  ASSUME Inv, Flooding, NEW S \in Together(Waiting), LsaTimer(S)
  PROVE  Flooding'
<1> DEFINE handled == [n \in S |-> LsaTimerFired(router[n])]
<1>1. S \in SUBSET Nodes /\ \A n \in S : router[n].lsaTimer
  BY DEF Together, Waiting
<1>2. ASSUME NEW n \in S
      PROVE  LET r == router[n]
                 s == handled[n]
             IN  /\ s \in Router(n) /\ s.neighbors \subseteq r.neighbors
                 /\ s.lsdb = r.lsdb /\ ~s.lsaTimer
                 /\ \A m \in Nodes : s.out[m] \in Seq(Lsa) /\ (s.out[m] # <<>> => m \in s.neighbors)
                 /\ \/ /\ s.selfLsa = r.selfLsa /\ s.routeTimer = r.routeTimer
                       /\ s.out = NothingSent
                    \/ s.selfLsa.seq = r.selfLsa.seq + 1 /\ s.routeTimer /\ Leads(s)
  <2> DEFINE r == router[n]
             s == LsaTimerFired(r)
  <2>1. n \in Nodes
    BY <1>1
  <2>2. r \in Router(n) /\ r.out = NothingSent
    BY <2>1, OfTypes
  <2> HIDE DEF r
  <2>3. /\ s \in Router(n) /\ s.neighbors = r.neighbors \ TimedOut(r)
        /\ s.lsdb = r.lsdb /\ ~s.lsaTimer /\ Tells(r, s)
        /\ \/ /\ s.selfLsa = r.selfLsa /\ s.routeTimer = r.routeTimer /\ s.out = NothingSent
           \/ s.selfLsa.seq = r.selfLsa.seq + 1 /\ s.routeTimer /\ Leads(s)
    BY <2>1, <2>2, LsaTimerHandled
  <2> HIDE DEF s
  <2>4. \A m \in Nodes : s.out[m] \in Seq(Lsa) /\ (s.out[m] # <<>> => m \in s.neighbors)
    BY <2>3 DEF Router, Tells
  <2>5. handled[n] = s
    BY DEF s, r
  <2> HIDE DEF handled
  <2> QED BY <2>3, <2>4, <2>5 DEF r
<1>3. Perform(handled, channel) /\ UNCHANGED <<active, rx, faults>>
  BY DEF LsaTimer
<1>4. handled = [n \in S |-> handled[n]]
  OBVIOUS
<1> HIDE DEF handled
<1>5. Effect(S, handled, channel)
  BY <1>1, <1>2, <1>3, <1>4, PerformEffect
<1>6. CASE Empty(channel')
  <2>1. flood' = {}
    BY <1>5, <1>6 DEF Effect
  <2> QED BY <1>6, <2>1, FloodOver
<1>7. CASE ~Empty(channel')
  <2> DEFINE New == {n \in S : handled[n].selfLsa.seq > router[n].selfLsa.seq}
  <2>1. flood' = flood \cup New /\ flood \subseteq Nodes /\ New \subseteq Nodes
    BY <1>1, <1>5, <1>7 DEF Effect, Inv, Types
  <2>2. ASSUME NEW n \in Nodes
        PROVE  /\ router'[n].id = n /\ router'[n].lsdb = router[n].lsdb
               /\ router'[n].neighbors \subseteq router[n].neighbors
               /\ n \in New => /\ ~router'[n].lsaTimer /\ router'[n].routeTimer
                               /\ router'[n].selfLsa.seq = router[n].selfLsa.seq + 1
                               /\ router'[n].selfLsa.origin = n
                               /\ \A m \in router'[n].neighbors :
                                     /\ 1 \in DOMAIN handled[n].out[m]
                                     /\ handled[n].out[m][1] = router'[n].selfLsa
               /\ n \notin New => /\ router'[n].selfLsa = router[n].selfLsa
                                  /\ router'[n].routeTimer = router[n].routeTimer
                                  /\ n \in S => \A m \in Nodes : handled[n].out[m] = <<>>
               /\ n \in flood => n \notin New /\ ~router'[n].lsaTimer
    <3>1. /\ router[n].selfLsa.seq \in Nat /\ router[n].id = n
          /\ n \in flood => ~router[n].lsaTimer
      BY OfTypes DEF Flooding
    <3>2. CASE n \in S
      <4>1. handled[n].id = n /\ handled[n].selfLsa.origin = n
        <5>1. handled[n] \in Router(n)
          BY <1>2, <3>2
        <5>2. handled[n].selfLsa \in [origin : {n}, seq : Nat, nbrs : SUBSET Nodes]
              /\ handled[n].id = n
          BY <5>1 DEF Router
        <5> QED BY <5>2
      <4>2. /\ router'[n].id = handled[n].id /\ router'[n].lsdb = handled[n].lsdb
            /\ router'[n].neighbors = handled[n].neighbors
            /\ router'[n].selfLsa = handled[n].selfLsa
            /\ router'[n].lsaTimer = handled[n].lsaTimer
            /\ router'[n].routeTimer = handled[n].routeTimer
        BY <1>5, <3>2 DEF Effect
      <4>3. n \notin flood
        BY <1>1, <3>1, <3>2
      <4>4. CASE n \in New
        <5>1. handled[n].selfLsa # router[n].selfLsa
          BY <3>1, <4>4
        <5> QED BY <1>2, <3>2, <4>1, <4>2, <4>3, <4>4, <5>1 DEF Leads
      <4>5. CASE n \notin New
        <5>1. handled[n].selfLsa.seq # router[n].selfLsa.seq + 1
          BY <3>1, <3>2, <4>5
        <5> QED BY <1>2, <3>2, <4>1, <4>2, <4>3, <4>5, <5>1 DEF NothingSent
      <4> QED BY <4>4, <4>5
    <3>3. CASE n \notin S
      <4>1. router'[n] = router[n] /\ n \notin New
        BY <1>5, <3>3 DEF Effect
      <4> QED BY <3>1, <3>3, <4>1
    <3> QED BY <3>2, <3>3
  <2>3. ASSUME NEW m \in Nodes, NEW n \in Nodes
        PROVE  LET k == Len(channel[m][n]) + 1
               IN  /\ \A i \in DOMAIN channel[m][n] :
                         i \in DOMAIN channel'[m][n] /\ channel'[m][n][i] = channel[m][n][i]
                   /\ m \in New /\ m \in rx[n] /\ n \in router'[m].neighbors =>
                         k \in DOMAIN channel'[m][n] /\ channel'[m][n][k] = router'[m].selfLsa
                   /\ \A i \in DOMAIN channel'[m][n] :
                         i \notin DOMAIN channel[m][n] =>
                             /\ m \in New /\ m \in rx[n] /\ n \in router'[m].neighbors
                             /\ k = i \/ k < i
    <3>1. channel[m][n] \in Seq(Lsa)
      BY OfTypes
    <3>2. CASE m \in S \cap rx[n]
      <4>1. PICK out : out = handled[m].out[n]
        OBVIOUS
      <4>2. out \in Seq(Lsa) /\ (out # <<>> => n \in router'[m].neighbors)
            /\ channel'[m][n] = channel[m][n] \o out
        BY <1>2, <1>5, <3>2, <4>1 DEF Effect
      <4>3. /\ m \in New /\ n \in router'[m].neighbors =>
                  1 \in DOMAIN out /\ out[1] = router'[m].selfLsa
            /\ m \notin New => out = <<>>
        BY <2>2, <3>2, <4>1
      <4> HIDE DEF New
      <4>4. /\ \A i \in DOMAIN channel[m][n] :
                  i \in DOMAIN channel'[m][n] /\ channel'[m][n][i] = channel[m][n][i]
            /\ 1 \in DOMAIN out =>
                  /\ Len(channel[m][n]) + 1 \in DOMAIN channel'[m][n]
                  /\ channel'[m][n][Len(channel[m][n]) + 1] = out[1]
            /\ \A i \in DOMAIN channel'[m][n] :
                  i \notin DOMAIN channel[m][n] =>
                      out # <<>> /\ (Len(channel[m][n]) + 1 = i \/ Len(channel[m][n]) + 1 < i)
        BY <3>1, <4>2, Appended
      <4> QED BY <3>2, <4>2, <4>3, <4>4
    <3>3. CASE m \notin S \cap rx[n]
      <4>1. channel'[m][n] = channel[m][n] /\ ~(m \in New /\ m \in rx[n])
        BY <1>5, <3>3 DEF Effect
      <4> QED BY <4>1
    <3> QED BY <3>2, <3>3
  <2> HIDE DEF New
  <2>4. ASSUME NEW n \in Nodes, NEW lsa \in Lsa, lsa.seq <= router[lsa.origin].selfLsa.seq
        PROVE  IsUpdate(router'[n], lsa) <=> IsUpdate(router[n], lsa)
    <3>1. router[n].id = n /\ router[n].selfLsa.seq \in Nat /\ lsa.seq \in Nat
      BY OfTypes DEF Lsa
    <3>2. router'[n].id = n /\ router'[n].lsdb = router[n].lsdb
          /\ (router'[n].selfLsa.seq = router[n].selfLsa.seq + 1
              \/ router'[n].selfLsa = router[n].selfLsa)
      BY <2>2
    <3> QED BY <2>4, <3>1, <3>2 DEF IsUpdate
  <2>5. ASSUME NEW lsa, Fresh(lsa) PROVE Fresh(lsa)'
    <3>1. lsa.origin \in flood /\ lsa.seq = router[lsa.origin].selfLsa.seq
      BY <2>5 DEF Fresh
    <3>2. router'[lsa.origin].selfLsa = router[lsa.origin].selfLsa
      BY <2>1, <2>2, <3>1
    <3> QED BY <2>1, <3>1, <3>2 DEF Fresh
  <2>6. ASSUME NEW n \in Nodes PROVE Reached(n)' <=> Reached(n) \/ n \in New
    <3>1. ASSUME NEW o \in flood
          PROVE  IsUpdate(router'[n], router'[o].selfLsa) <=> IsUpdate(router[n], router[o].selfLsa)
      <4>1. o \in Nodes /\ router'[o].selfLsa = router[o].selfLsa
        BY <2>1, <2>2
      <4>2. router[o].selfLsa \in Lsa /\ router[o].selfLsa.origin = o /\ router[o].selfLsa.seq \in Nat
        BY <4>1, OfTypes
      <4>3. router[o].selfLsa.seq <= router[router[o].selfLsa.origin].selfLsa.seq
        BY <4>2
      <4> QED BY <2>4, <4>1, <4>2, <4>3
    <3>2. ASSUME NEW o \in New
          PROVE  IsUpdate(router'[n], router'[o].selfLsa) <=> n # o
      <4>1. /\ o \in Nodes /\ router'[o].selfLsa.seq = router[o].selfLsa.seq + 1
            /\ router'[o].selfLsa.origin = o
        BY <2>1, <2>2
      <4>2. router[o].selfLsa.seq \in Nat
        BY <4>1, OfTypes
      <4>3. router'[n].id = n /\ router'[n].lsdb = router[n].lsdb
        BY <2>2
      <4>4. \A p \in DOMAIN router[n].lsdb : router[n].lsdb[p].seq \in Nat
                /\ router[n].lsdb[p].seq <= router[p].selfLsa.seq
        BY OfTypes
      <4> QED BY <4>1, <4>2, <4>3, <4>4 DEF IsUpdate
    <3>3. Reached(n)' <=> \E o \in flood \cup New : ~IsUpdate(router'[n], router'[o].selfLsa)
      BY <2>1 DEF Reached
    <3> QED BY <3>1, <3>2, <3>3 DEF Reached
  <2>7. ASSUME NEW m \in New, NEW n \in Nodes, ~Reached(n)'
        PROVE  IsUpdate(router'[n], router'[m].selfLsa) /\ Fresh(router[m].selfLsa)'
    <3>1. m \in flood'
      BY <2>1
    <3>2. router'[m].selfLsa.origin = m
      BY <2>1, <2>2
    <3> QED BY <2>7, <3>1, <3>2 DEF Reached, Fresh
  <2>8. ASSUME NEW m \in Nodes, NEW n \in Nodes, NEW i, i \in DOMAIN channel[m][n]
        PROVE  /\ IsUpdate(router'[n], channel[m][n][i]) <=> IsUpdate(router[n], channel[m][n][i])
               /\ channel'[m][n][i] = channel[m][n][i]
               /\ Fresh(channel[m][n][i]) => Fresh(channel[m][n][i])'
               /\ News(m, n, i) => News(m, n, i)'
    <3>1. PICK lsa : lsa = channel[m][n][i]
      OBVIOUS
    <3>2. lsa \in Lsa /\ lsa.seq <= router[lsa.origin].selfLsa.seq
      BY <2>8, <3>1, OfTypes
    <3>3. channel'[m][n][i] = lsa
      BY <2>3, <2>8, <3>1
    <3>4. IsUpdate(router'[n], lsa) <=> IsUpdate(router[n], lsa)
      BY <2>4, <3>2
    <3>5. Fresh(lsa) => Fresh(lsa)'
      BY <2>5
    <3>6. Fresh(channel[m][n][i])' <=> Fresh(lsa)'
      BY <3>3 DEF Fresh
    <3> QED BY <3>1, <3>3, <3>4, <3>5, <3>6 DEF News
  <2>9. ASSUME NEW m \in New, NEW n \in Nodes, m \in rx[n], n \in router'[m].neighbors, ~Reached(n)'
        PROVE  \E k \in DOMAIN channel'[m][n] : k = Len(channel[m][n]) + 1 /\ News(m, n, k)'
    <3>1. PICK k : k = Len(channel[m][n]) + 1
      OBVIOUS
    <3>2. k \in DOMAIN channel'[m][n] /\ channel'[m][n][k] = router'[m].selfLsa
      BY <2>1, <2>3, <2>9, <3>1
    <3>3. Fresh(channel[m][n][k])' <=> Fresh(router[m].selfLsa)'
      BY <3>2 DEF Fresh
    <3>4. News(m, n, k)'
      BY <2>7, <2>9, <3>2, <3>3 DEF News
    <3> QED BY <3>1, <3>2, <3>4
  <2>10. ASSUME NEW n \in flood' PROVE ~router'[n].lsaTimer
    BY <2>1, <2>2
  <2>11. ASSUME NEW m \in Nodes, NEW n \in Nodes, channel'[m][n] # <<>> PROVE Reached(m)'
    <3>1. CASE channel[m][n] # <<>>
      BY <2>6, <3>1 DEF Flooding
    <3>2. CASE channel[m][n] = <<>>
      <4>1. m \in New
        <5>1. m \in S \cap rx[n]
          BY <1>5, <2>11, <3>2 DEF Effect
        <5>2. handled[m].out[n] # <<>>
          <6>1. channel'[m][n] = <<>> \o handled[m].out[n]
            BY <1>5, <3>2, <5>1 DEF Effect
          <6> QED BY <2>11, <6>1
        <5> QED BY <2>2, <5>1, <5>2
      <4> QED BY <2>6, <4>1
    <3> QED BY <3>1, <3>2
  <2>12. ASSUME NEW n \in Nodes, Reached(n)' PROVE router'[n].routeTimer
    BY <2>2, <2>6, <2>12 DEF Flooding
  <2>13. ASSUME NEW m \in Nodes, NEW n \in Nodes, ~Reached(n)', NEW i \in DOMAIN channel'[m][n],
                IsUpdate(router'[n], channel'[m][n][i])
         PROVE  \/ Fresh(channel[m][n][i])'
                \/ \E j \in DOMAIN channel'[m][n] : j < i /\ News(m, n, j)'
    <3>0. ~Reached(n)
      BY <2>6, <2>13
    <3>1. CASE i \in DOMAIN channel[m][n]
      <4>1. IsUpdate(router[n], channel[m][n][i])
        BY <2>8, <2>13, <3>1
      <4>2. \/ Fresh(channel[m][n][i])
            \/ \E j \in DOMAIN channel[m][n] : j < i /\ News(m, n, j)
        BY <3>0, <3>1, <4>1 DEF Flooding
      <4>3. CASE Fresh(channel[m][n][i])
        BY <2>8, <3>1, <4>3
      <4>4. CASE \E j \in DOMAIN channel[m][n] : j < i /\ News(m, n, j)
        <5>1. PICK j \in DOMAIN channel[m][n] : j < i /\ News(m, n, j)
          BY <4>4
        <5>2. j \in DOMAIN channel'[m][n] /\ News(m, n, j)'
          BY <2>3, <2>8, <5>1
        <5> QED BY <5>1, <5>2
      <4> QED BY <4>2, <4>3, <4>4
    <3>2. CASE i \notin DOMAIN channel[m][n]
      <4>1. /\ m \in New /\ m \in rx[n] /\ n \in router'[m].neighbors
            /\ Len(channel[m][n]) + 1 = i \/ Len(channel[m][n]) + 1 < i
        BY <2>3, <2>13, <3>2
      <4>2. PICK k \in DOMAIN channel'[m][n] : k = Len(channel[m][n]) + 1 /\ News(m, n, k)'
        BY <2>9, <2>13, <4>1
      <4>3. k = i => Fresh(channel[m][n][i])'
        BY <4>2 DEF News
      <4> QED BY <4>1, <4>2, <4>3
    <3> QED BY <3>1, <3>2
  <2>14. ASSUME NEW m \in Nodes, NEW n \in Nodes, Reached(m)', n \in router'[m].neighbors, m \in rx'[n]
         PROVE  Reached(n)' \/ \E i \in DOMAIN channel'[m][n] : News(m, n, i)'
    <3>1. SUFFICES ASSUME ~Reached(n)' PROVE \E i \in DOMAIN channel'[m][n] : News(m, n, i)'
      OBVIOUS
    <3>2. m \in rx[n] /\ n \in router[m].neighbors /\ ~Reached(n)
      BY <1>3, <2>2, <2>6, <2>14, <3>1
    <3>3. CASE m \in New
      BY <2>9, <2>14, <3>1, <3>2, <3>3
    <3>4. CASE m \notin New
      <4>1. PICK i \in DOMAIN channel[m][n] : News(m, n, i)
        BY <2>6, <2>14, <3>2, <3>4 DEF Flooding
      <4>2. i \in DOMAIN channel'[m][n] /\ News(m, n, i)'
        BY <2>3, <2>8, <4>1
      <4> QED BY <4>2
    <3> QED BY <3>3, <3>4
  <2> QED BY <1>7, <2>10, <2>11, <2>12, <2>13, <2>14 DEF Flooding
<1> QED BY <1>6, <1>7

\* a node gets an LSA in a flood: news is fresh when it comes first
LEMMA ReceptionFlood ==
  ASSUME Inv, Flooding, NEW n \in Nodes, NEW from \in Nodes, ReceiveLsa(n, from)
  PROVE  Flooding'
<1> DEFINE lsa == Head(channel[from][n])
           s   == HandleReceivedLsa(router[n], from, lsa)
           handled == [x \in {n} |-> HandleReceivedLsa(router[n], from, lsa)]
           c   == [channel EXCEPT ![from][n] = Tail(@)]
<1>1. /\ channel[from][n] # <<>> /\ Perform(handled, c)
      /\ UNCHANGED <<active, rx, faults>>
  BY DEF ReceiveLsa
<1>2. /\ 1 \in DOMAIN channel[from][n] /\ lsa = channel[from][n][1]
      /\ lsa \in Lsa /\ lsa.origin \in Nodes /\ lsa.seq \in Nat
      /\ lsa.seq <= router[lsa.origin].selfLsa.seq
  <2>1. channel[from][n] \in Seq(Lsa)
    BY OfTypes
  <2>2. 1 \in DOMAIN channel[from][n] /\ lsa = channel[from][n][1]
    BY <1>1, <2>1
  <2> QED BY <2>2, OfTypes
<1>3. /\ router[n] \in Router(n) /\ router[n].out = NothingSent /\ router[n].id = n
  BY OfTypes
<1>4. ASSUME NEW p \in Nodes, NEW m \in Nodes
      PROVE  /\ c[p][m] = IF p = from /\ m = n THEN Tail(channel[from][n]) ELSE channel[p][m]
             /\ channel[p][m] \in Seq(Lsa) /\ c[p][m] \in Seq(Lsa)
  <2>1. channel \in [Nodes -> [Nodes -> Seq(Lsa)]]
    BY DEF Inv, Types
  <2>2. Tail(channel[from][n]) \in Seq(Lsa)
    BY <1>1, <2>1
  <2> QED BY <2>1, <2>2
<1>5. handled = [x \in {n} |-> s] /\ handled = [x \in {n} |-> handled[x]] /\ {n} \in SUBSET Nodes
  OBVIOUS
<1> HIDE DEF lsa, handled, c
<1>6. IF ~IsUpdate(router[n], lsa) THEN s = router[n]
      ELSE /\ s \in Router(n) /\ s.neighbors = router[n].neighbors /\ s.missed = router[n].missed
           /\ s.selfLsa = router[n].selfLsa /\ s.lsaTimer = router[n].lsaTimer /\ s.routeTimer
           /\ s.neighborChanged = router[n].neighborChanged /\ s.schedulerAddr = NoAddr
           /\ Serves(router[n]) => Serves(s)
           /\ lsa.origin # n
           /\ s.lsdb = Learned(router[n], lsa) /\ s.out = PassedOn(router[n], from, lsa)
  BY <1>2, <1>3, Received
<1> HIDE DEF s
<1>7. s \in Router(n) /\ s.selfLsa = router[n].selfLsa
  BY <1>3, <1>6
<1>8. Effect({n}, handled, c)
  BY <1>1, <1>5, <1>7, PerformEffect
<1>9. CASE Empty(channel')
  <2>1. flood' = {}
    BY <1>8, <1>9 DEF Effect
  <2> QED BY <1>9, <2>1, FloodOver
<1>10. CASE ~Empty(channel')
  <2>1. flood' = flood /\ flood \subseteq Nodes
    <3>1. router[n].selfLsa.seq \in Nat
      BY OfTypes
    <3>2. {x \in {n} : handled[x].selfLsa.seq > router[x].selfLsa.seq} = {}
      BY <1>5, <1>7, <3>1
    <3>3. flood' = flood \cup {x \in {n} : handled[x].selfLsa.seq > router[x].selfLsa.seq}
      BY <1>8, <1>10 DEF Effect
    <3> QED BY <3>2, <3>3 DEF Inv, Types
  <2>2. ASSUME NEW x \in Nodes
        PROVE  /\ router'[x].id = x /\ router'[x].neighbors = router[x].neighbors
               /\ router'[x].selfLsa = router[x].selfLsa
               /\ router'[x].lsaTimer = router[x].lsaTimer
               /\ x # n => /\ router'[x].lsdb = router[x].lsdb
                           /\ router'[x].routeTimer = router[x].routeTimer
    <3>1. router[x].id = x
      BY OfTypes
    <3>2. CASE x = n
      <4>1. s.id = n /\ s.neighbors = router[n].neighbors /\ s.lsaTimer = router[n].lsaTimer
        BY <1>6, <1>7 DEF Router
      <4>2. /\ router'[n].id = s.id /\ router'[n].neighbors = s.neighbors
            /\ router'[n].selfLsa = s.selfLsa /\ router'[n].lsaTimer = s.lsaTimer
        BY <1>5, <1>8 DEF Effect
      <4> QED BY <1>7, <3>2, <4>1, <4>2
    <3>3. CASE x # n
      <4>1. router'[x] = router[x]
        BY <1>8, <3>3 DEF Effect
      <4> QED BY <3>1, <3>3, <4>1
    <3> QED BY <3>2, <3>3
  <2>3. ASSUME NEW l PROVE Fresh(l)' <=> Fresh(l)
    BY <2>1, <2>2 DEF Fresh
  <2>4. ASSUME NEW x \in Nodes, x # n, NEW l
        PROVE  IsUpdate(router'[x], l) <=> IsUpdate(router[x], l)
    <3>1. router[x].id = x
      BY OfTypes
    <3> QED BY <2>2, <2>4, <3>1 DEF IsUpdate
  <2>5. ASSUME NEW x \in Nodes, x # n PROVE Reached(x)' <=> Reached(x)
    <3>1. Reached(x)' <=> \E o \in flood : ~IsUpdate(router'[x], router'[o].selfLsa)
      BY <2>1 DEF Reached
    <3> QED BY <2>1, <2>2, <2>4, <2>5, <3>1 DEF Reached
  <2>6. ASSUME NEW p \in Nodes, NEW x \in Nodes, x # n, p # n PROVE channel'[p][x] = channel[p][x]
    BY <1>4, <1>8, <2>6 DEF Effect
  <2>7. \A x \in flood' : ~router'[x].lsaTimer
    BY <2>1, <2>2 DEF Flooding
  <2>8. CASE ~IsUpdate(router[n], lsa)
    <3>1. router'[n].lsdb = router[n].lsdb /\ router'[n].routeTimer = router[n].routeTimer
          /\ handled[n].out = NothingSent
      BY <1>3, <1>5, <1>6, <1>8, <2>8 DEF Effect
    <3>2. ASSUME NEW x \in Nodes, NEW l PROVE IsUpdate(router'[x], l) <=> IsUpdate(router[x], l)
      <4>1. router[x].id = x
        BY OfTypes
      <4>2. router'[x].lsdb = router[x].lsdb
        BY <2>2, <3>1
      <4> QED BY <2>2, <4>1, <4>2 DEF IsUpdate
    <3>3. ASSUME NEW x \in Nodes
          PROVE  (Reached(x)' <=> Reached(x)) /\ router'[x].routeTimer = router[x].routeTimer
      <4>1. Reached(x)' <=> \E o \in flood : ~IsUpdate(router'[x], router'[o].selfLsa)
        BY <2>1 DEF Reached
      <4>2. Reached(x)' <=> Reached(x)
        BY <2>1, <2>2, <3>2, <4>1 DEF Reached
      <4> QED BY <2>2, <3>1, <4>2
    <3>4. ASSUME NEW p \in Nodes, NEW x \in Nodes PROVE channel'[p][x] = c[p][x]
      <4>1. c[p][x] \in Seq(Lsa)
        BY <1>4
      <4>2. handled[n].out[x] = <<>>
        BY <3>1 DEF NothingSent
      <4>3. channel'[p][x] = IF p \in {n} \cap rx[x] THEN c[p][x] \o handled[p].out[x]
                             ELSE c[p][x]
        BY <1>8 DEF Effect
      <4>4. channel'[p][x] = c[p][x] \/ channel'[p][x] = c[p][x] \o <<>>
        BY <4>2, <4>3
      <4> QED BY <4>1, <4>4
    <3>5. ASSUME NEW p \in Nodes, NEW x \in Nodes, ~(p = from /\ x = n)
          PROVE  channel'[p][x] = channel[p][x]
      BY <1>4, <3>4, <3>5
    <3>6. /\ \A i \in DOMAIN channel'[from][n] : i \in Nat /\ i + 1 \in DOMAIN channel[from][n]
                                                 /\ channel'[from][n][i] = channel[from][n][i + 1]
          /\ \A i \in DOMAIN channel[from][n] :
                i # 1 => i \in Nat /\ i - 1 \in DOMAIN channel'[from][n]
                         /\ channel'[from][n][i - 1] = channel[from][n][i]
      <4>1. channel'[from][n] = Tail(channel[from][n])
        BY <1>4, <3>4
      <4>2. channel[from][n] \in Seq(Lsa)
        BY <1>4
      <4> QED BY <1>1, <4>1, <4>2, SMTT(60)
    <3>7. ASSUME NEW p \in Nodes, NEW x \in Nodes, ~(p = from /\ x = n), NEW i
          PROVE  News(p, x, i)' <=> News(p, x, i)
      <4>1. channel'[p][x] = channel[p][x]
        BY <3>5, <3>7
      <4>2. PICK l : l = channel[p][x][i]
        OBVIOUS
      <4>3. Fresh(channel[p][x][i])' <=> Fresh(l)'
        BY <4>1, <4>2 DEF Fresh
      <4> QED BY <2>3, <3>2, <4>1, <4>2, <4>3 DEF News
    <3>8. ASSUME NEW i \in DOMAIN channel[from][n], News(from, n, i)
          PROVE  i # 1 /\ i - 1 \in DOMAIN channel'[from][n] /\ i \in Nat
                 /\ \E j \in DOMAIN channel'[from][n] : j = i - 1 /\ News(from, n, j)'
      <4>1. IsUpdate(router[n], channel[from][n][i]) /\ Fresh(channel[from][n][i])
        BY <3>8 DEF News
      <4>2. i # 1
        BY <1>2, <2>8, <4>1
      <4>3. PICK j : j = i - 1
        OBVIOUS
      <4>4. i \in Nat /\ j \in DOMAIN channel'[from][n] /\ channel'[from][n][j] = channel[from][n][i]
        BY <3>6, <4>2, <4>3
      <4>5. PICK l : l = channel[from][n][i]
        OBVIOUS
      <4>6. Fresh(channel[from][n][j])' <=> Fresh(l)'
        BY <4>4, <4>5 DEF Fresh
      <4>7. News(from, n, j)'
        BY <2>3, <3>2, <4>1, <4>4, <4>5, <4>6 DEF News
      <4> QED BY <4>2, <4>3, <4>4, <4>7
    <3>9. ASSUME NEW p \in Nodes, NEW x \in Nodes, channel'[p][x] # <<>> PROVE Reached(p)'
      <4>1. channel[p][x] # <<>>
        BY <1>1, <3>5, <3>9
      <4> QED BY <3>3, <4>1 DEF Flooding
    <3>10. ASSUME NEW x \in Nodes, Reached(x)' PROVE router'[x].routeTimer
      BY <3>3, <3>10 DEF Flooding
    <3>11. ASSUME NEW p \in Nodes, NEW x \in Nodes, ~Reached(x)', NEW i \in DOMAIN channel'[p][x],
                  IsUpdate(router'[x], channel'[p][x][i])
           PROVE  \/ Fresh(channel[p][x][i])'
                  \/ \E j \in DOMAIN channel'[p][x] : j < i /\ News(p, x, j)'
      <4>1. ~Reached(x)
        BY <3>3, <3>11
      <4>2. PICK l : l = channel'[p][x][i]
        OBVIOUS
      <4>3. IsUpdate(router[x], l) /\ (Fresh(channel[p][x][i])' <=> Fresh(l)')
        BY <3>2, <3>11, <4>2 DEF Fresh
      <4>4. CASE p = from /\ x = n
        <5>1. i \in Nat /\ i + 1 \in DOMAIN channel[from][n] /\ l = channel[from][n][i + 1]
          BY <3>6, <3>11, <4>2, <4>4
        <5>2. PICK k : k = i + 1
          OBVIOUS
        <5>3. \/ Fresh(l)
              \/ \E j \in DOMAIN channel[from][n] : j < k /\ News(from, n, j)
          BY <4>1, <4>3, <4>4, <5>1, <5>2 DEF Flooding
        <5>4. CASE Fresh(l)
          BY <2>3, <4>3, <5>4
        <5>5. CASE \E j \in DOMAIN channel[from][n] : j < k /\ News(from, n, j)
          <6>1. PICK j \in DOMAIN channel[from][n] : j < k /\ News(from, n, j)
            BY <5>5
          <6>2. PICK h \in DOMAIN channel'[from][n] : h = j - 1 /\ j \in Nat /\ News(from, n, h)'
            BY <3>8, <6>1
          <6>3. h < i
            BY <5>1, <5>2, <6>1, <6>2
          <6> QED BY <4>4, <6>2, <6>3
        <5> QED BY <5>3, <5>4, <5>5
      <4>5. CASE ~(p = from /\ x = n)
        <5>1. channel'[p][x] = channel[p][x]
          BY <3>5, <4>5
        <5>2. \/ Fresh(l)
              \/ \E j \in DOMAIN channel[p][x] : j < i /\ News(p, x, j)
          BY <3>11, <4>1, <4>2, <4>3, <5>1 DEF Flooding
        <5>3. CASE Fresh(l)
          BY <2>3, <4>3, <5>3
        <5>4. CASE \E j \in DOMAIN channel[p][x] : j < i /\ News(p, x, j)
          <6>1. PICK j \in DOMAIN channel[p][x] : j < i /\ News(p, x, j)
            BY <5>4
          <6>2. News(p, x, j)'
            BY <3>7, <4>5, <6>1
          <6> QED BY <5>1, <6>1, <6>2
        <5> QED BY <5>2, <5>3, <5>4
      <4> QED BY <4>4, <4>5
    <3>12. ASSUME NEW p \in Nodes, NEW x \in Nodes, Reached(p)', x \in router'[p].neighbors,
                  p \in rx'[x]
           PROVE  Reached(x)' \/ \E i \in DOMAIN channel'[p][x] : News(p, x, i)'
      <4>1. Reached(p) /\ x \in router[p].neighbors /\ p \in rx[x]
        BY <1>1, <2>2, <3>3, <3>12
      <4>2. Reached(x) \/ \E i \in DOMAIN channel[p][x] : News(p, x, i)
        BY <4>1 DEF Flooding
      <4>3. CASE Reached(x)
        BY <3>3, <4>3
      <4>4. CASE \E i \in DOMAIN channel[p][x] : News(p, x, i)
        <5>1. PICK i \in DOMAIN channel[p][x] : News(p, x, i)
          BY <4>4
        <5>2. CASE p = from /\ x = n
          BY <3>8, <5>1, <5>2
        <5>3. CASE ~(p = from /\ x = n)
          <6>1. i \in DOMAIN channel'[p][x] /\ News(p, x, i)'
            BY <3>5, <3>7, <5>1, <5>3
          <6> QED BY <6>1
        <5> QED BY <5>2, <5>3
      <4> QED BY <4>2, <4>3, <4>4
    <3> QED BY <1>10, <2>7, <3>9, <3>10, <3>11, <3>12 DEF Flooding
  <2>9. CASE IsUpdate(router[n], lsa)
    <3>1. /\ router'[n].lsdb = Learned(router[n], lsa) /\ router'[n].routeTimer
          /\ handled[n].out = PassedOn(router[n], from, lsa) /\ lsa.origin # n
      BY <1>5, <1>6, <1>8, <2>9 DEF Effect
    <3>2. Fresh(lsa) \/ Reached(n)
      <4>1. \A j \in DOMAIN channel[from][n] : ~(j < 1)
        BY <1>4
      <4> QED BY <1>2, <2>9, <4>1 DEF Flooding
    \* once told of lsa, n knows no less
    <3>3. ASSUME NEW o \in flood, ~IsUpdate(router[n], router[o].selfLsa)
          PROVE  ~IsUpdate(router'[n], router'[o].selfLsa)
      <4>1. /\ o \in Nodes /\ router'[o].selfLsa = router[o].selfLsa
            /\ router[o].selfLsa.origin = o /\ router[o].selfLsa.seq \in Nat
        BY <2>1, <2>2, OfTypes
      <4>2. CASE o = n
        BY <1>3, <2>2, <4>1, <4>2 DEF IsUpdate
      <4>3. CASE o # n
        <5>1. o \in DOMAIN router[n].lsdb /\ ~(router[o].selfLsa.seq > router[n].lsdb[o].seq)
          BY <1>3, <3>3, <4>1, <4>3 DEF IsUpdate
        <5>2. o \in DOMAIN router'[n].lsdb
          BY <3>1, <5>1, SMTT(60) DEF Learned
        <5>3. CASE o = lsa.origin
          <6>1. lsa.seq > router[n].lsdb[o].seq
            BY <1>3, <2>9, <3>1, <5>1, <5>3 DEF IsUpdate
          <6>2. router[n].lsdb[o].seq \in Nat
            BY <5>1, OfTypes
          <6> QED BY <1>2, <4>1, <5>1, <5>3, <6>1, <6>2
        <5>4. CASE o # lsa.origin
          <6>1. router'[n].lsdb[o] = router[n].lsdb[o]
            BY <3>1, <5>1, <5>4 DEF Learned
          <6> QED BY <2>2, <4>1, <4>3, <5>1, <5>2, <6>1 DEF IsUpdate
        <5> QED BY <5>3, <5>4
      <4> QED BY <4>2, <4>3
    <3>4. Reached(n)'
      <4>1. Reached(n)' <=> \E o \in flood : ~IsUpdate(router'[n], router'[o].selfLsa)
        BY <2>1 DEF Reached
      <4>2. CASE Reached(n)
        BY <3>3, <4>1, <4>2 DEF Reached
      <4>3. CASE Fresh(lsa)
        <5>1. PICK o : o = lsa.origin
          OBVIOUS
        <5>2. o \in flood /\ lsa.seq = router[o].selfLsa.seq /\ o # n /\ o \in Nodes
          BY <1>2, <3>1, <4>3, <5>1 DEF Fresh
        <5>3. router'[o].selfLsa.seq = lsa.seq /\ router'[o].selfLsa.origin = o
          BY <2>2, <5>2, OfTypes
        <5>4. o \in DOMAIN router'[n].lsdb /\ router'[n].lsdb[o].seq = lsa.seq
          BY <3>1, <5>1 DEF Learned
        <5>5. ~IsUpdate(router'[n], router'[o].selfLsa)
          BY <1>2, <2>2, <5>2, <5>3, <5>4 DEF IsUpdate
        <5> QED BY <4>1, <5>2, <5>5
      <4> QED BY <3>2, <4>2, <4>3
    <3>5. ASSUME NEW x \in Nodes, Reached(x) PROVE Reached(x)'
      BY <2>5, <3>4, <3>5
    <3>6. ASSUME NEW x \in Nodes, x # n
          PROVE  LET k == Len(channel[n][x]) + 1
                 IN  /\ \A i \in DOMAIN channel[n][x] :
                           i \in DOMAIN channel'[n][x] /\ channel'[n][x][i] = channel[n][x][i]
                     /\ n \in rx[x] /\ x \in router[n].neighbors \ {from} =>
                           k \in DOMAIN channel'[n][x] /\ channel'[n][x][k] = lsa
                     /\ \A i \in DOMAIN channel'[n][x] :
                           i \notin DOMAIN channel[n][x] =>
                               /\ n \in rx[x] /\ x \in router[n].neighbors \ {from}
                               /\ channel'[n][x][i] = lsa
                               /\ \A j \in DOMAIN channel[n][x] : j < i
      <4>1. channel[n][x] \in Seq(Lsa) /\ c[n][x] = channel[n][x]
        BY <1>4, <3>6
      <4>2. CASE n \in rx[x] /\ x \in router[n].neighbors \ {from}
        <5>1. channel'[n][x] = channel[n][x] \o <<lsa>>
          BY <1>8, <3>1, <4>1, <4>2 DEF Effect, PassedOn
        <5>2. <<lsa>> \in Seq(Lsa) /\ 1 \in DOMAIN <<lsa>> /\ <<lsa>>[1] = lsa
          BY <1>2
        <5>3. \A i \in DOMAIN channel'[n][x] :
                 i \notin DOMAIN channel[n][x] => channel'[n][x][i] = lsa
          BY <1>2, <4>1, <5>1, SMTT(60)
        <5> QED BY <4>1, <4>2, <5>1, <5>2, <5>3, Appended, SMTT(60)
      <4>3. CASE ~(n \in rx[x] /\ x \in router[n].neighbors \ {from})
        <5>1. n \in rx[x] => handled[n].out[x] = <<>>
          BY <3>1, <4>3 DEF PassedOn
        <5>2. channel'[n][x] = IF n \in {n} \cap rx[x] THEN c[n][x] \o handled[n].out[x]
                               ELSE c[n][x]
          BY <1>8 DEF Effect
        <5>3. channel'[n][x] = channel[n][x] \/ channel'[n][x] = channel[n][x] \o <<>>
          BY <4>1, <5>1, <5>2
        <5>4. channel'[n][x] = channel[n][x]
          BY <4>1, <5>3
        <5> QED BY <4>3, <5>4
      <4> QED BY <4>2, <4>3
    <3>7. ASSUME NEW p \in Nodes, NEW x \in Nodes, x # n, NEW i \in DOMAIN channel[p][x]
          PROVE  /\ i \in DOMAIN channel'[p][x] /\ channel'[p][x][i] = channel[p][x][i]
                 /\ Fresh(channel[p][x][i])' <=> Fresh(channel[p][x][i])
                 /\ News(p, x, i)' <=> News(p, x, i)
      <4>1. i \in DOMAIN channel'[p][x] /\ channel'[p][x][i] = channel[p][x][i]
        BY <2>6, <3>6, <3>7
      <4>2. PICK l : l = channel[p][x][i]
        OBVIOUS
      <4>3. Fresh(channel[p][x][i])' <=> Fresh(l)'
        BY <4>1, <4>2 DEF Fresh
      <4>4. Fresh(l)' <=> Fresh(l)
        BY <2>3
      <4>5. IsUpdate(router'[x], l) <=> IsUpdate(router[x], l)
        BY <2>4, <3>7
      <4> QED BY <4>1, <4>2, <4>3, <4>4, <4>5 DEF News
    <3>8. ASSUME NEW p \in Nodes, NEW x \in Nodes, channel'[p][x] # <<>> PROVE Reached(p)'
      <4>1. CASE p = n
        BY <3>4, <4>1
      <4>2. CASE p # n
        <5>1. channel'[p][x] = c[p][x]
          BY <1>8, <4>2 DEF Effect
        <5>2. channel[p][x] # <<>>
          BY <1>1, <1>4, <3>8, <5>1
        <5> QED BY <3>5, <5>2 DEF Flooding
      <4> QED BY <4>1, <4>2
    <3>9. ASSUME NEW x \in Nodes, Reached(x)' PROVE router'[x].routeTimer
      BY <2>2, <2>5, <3>1, <3>9 DEF Flooding
    <3>10. ASSUME NEW p \in Nodes, NEW x \in Nodes, ~Reached(x)', NEW i \in DOMAIN channel'[p][x],
                  IsUpdate(router'[x], channel'[p][x][i])
           PROVE  \/ Fresh(channel[p][x][i])'
                  \/ \E j \in DOMAIN channel'[p][x] : j < i /\ News(p, x, j)'
      <4>1. ~Reached(x) /\ x # n
        BY <3>4, <3>5, <3>10
      <4>2. CASE i \in DOMAIN channel[p][x]
        <5>1. IsUpdate(router[x], channel[p][x][i])
          BY <2>4, <3>7, <3>10, <4>1, <4>2
        <5>2. \/ Fresh(channel[p][x][i])
              \/ \E j \in DOMAIN channel[p][x] : j < i /\ News(p, x, j)
          BY <4>1, <4>2, <5>1 DEF Flooding
        <5>3. CASE Fresh(channel[p][x][i])
          BY <3>7, <4>1, <4>2, <5>3
        <5>4. CASE \E j \in DOMAIN channel[p][x] : j < i /\ News(p, x, j)
          <6>1. PICK j \in DOMAIN channel[p][x] : j < i /\ News(p, x, j)
            BY <5>4
          <6>2. j \in DOMAIN channel'[p][x] /\ News(p, x, j)'
            BY <3>7, <4>1, <6>1
          <6> QED BY <6>1, <6>2
        <5> QED BY <5>2, <5>3, <5>4
      <4>3. CASE i \notin DOMAIN channel[p][x]
        <5>1. p = n
          BY <2>6, <3>10, <4>1, <4>3
        <5>2. /\ n \in rx[x] /\ x \in router[n].neighbors /\ channel'[n][x][i] = lsa
              /\ \A j \in DOMAIN channel[n][x] : j < i
          BY <3>6, <3>10, <4>1, <4>3, <5>1
        <5>3. CASE Fresh(lsa)
          <6>1. PICK l : l = lsa
            OBVIOUS
          <6>2. Fresh(l)
            BY <5>3, <6>1
          <6>3. Fresh(l)'
            BY <2>3, <6>2
          <6> QED BY <5>1, <5>2, <6>1, <6>3 DEF Fresh
        <5>4. CASE Reached(n)
          <6>1. PICK j \in DOMAIN channel[n][x] : News(n, x, j)
            BY <4>1, <5>2, <5>4 DEF Flooding
          <6>2. j \in DOMAIN channel'[n][x] /\ News(n, x, j)' /\ j < i
            BY <3>7, <4>1, <5>2, <6>1
          <6> QED BY <5>1, <6>2
        <5> QED BY <3>2, <5>3, <5>4
      <4> QED BY <4>2, <4>3
    <3>11. ASSUME NEW p \in Nodes, NEW x \in Nodes, Reached(p)', x \in router'[p].neighbors,
                  p \in rx'[x]
           PROVE  Reached(x)' \/ \E i \in DOMAIN channel'[p][x] : News(p, x, i)'
      <4>1. SUFFICES ASSUME ~Reached(x)' PROVE \E i \in DOMAIN channel'[p][x] : News(p, x, i)'
        OBVIOUS
      <4>2. ~Reached(x) /\ x # n /\ x \in router[p].neighbors /\ p \in rx[x]
        BY <1>1, <2>2, <3>4, <3>5, <3>11, <4>1
      <4>3. CASE Reached(p)
        <5>1. PICK i \in DOMAIN channel[p][x] : News(p, x, i)
          BY <4>2, <4>3 DEF Flooding
        <5>2. i \in DOMAIN channel'[p][x] /\ News(p, x, i)'
          BY <3>7, <4>2, <5>1
        <5> QED BY <5>2
      <4>4. CASE ~Reached(p)
        <5>1. p = n /\ Fresh(lsa)
          BY <2>5, <3>2, <3>11, <4>4
        <5>2. x # from
          BY <1>1, <4>2 DEF Flooding
        <5>3. PICK l, k : l = lsa /\ k = Len(channel[n][x]) + 1
          OBVIOUS
        <5>4. k \in DOMAIN channel'[n][x] /\ channel'[n][x][k] = l
          BY <3>6, <4>2, <5>1, <5>2, <5>3
        <5>5. Fresh(l) /\ Fresh(l)'
          <6>1. Fresh(l)
            BY <5>1, <5>3
          <6> QED BY <2>3, <6>1
        <5>6. IsUpdate(router[x], l)
          <6>1. l.origin \in flood /\ l.seq = router[l.origin].selfLsa.seq /\ l.origin \in Nodes
            BY <1>2, <5>3, <5>5 DEF Fresh
          <6>2. PICK o : o = l.origin
            OBVIOUS
          <6>3. router[o].selfLsa.origin = o
            BY <6>1, <6>2, OfTypes
          <6>4. IsUpdate(router[x], router[o].selfLsa)
            BY <4>2, <6>1, <6>2 DEF Reached
          <6> QED BY <6>1, <6>2, <6>3, <6>4 DEF IsUpdate
        <5>7. IsUpdate(router'[x], l)
          BY <2>4, <4>2, <5>6
        <5>8. News(n, x, k)'
          <6>1. Fresh(channel[n][x][k])' <=> Fresh(l)'
            BY <5>4 DEF Fresh
          <6> QED BY <5>4, <5>5, <5>7, <6>1 DEF News
        <5> QED BY <5>1, <5>4, <5>8
      <4> QED BY <4>3, <4>4
    <3> QED BY <1>10, <2>7, <3>8, <3>9, <3>10, <3>11 DEF Flooding
  <2> QED BY <2>8, <2>9
<1> QED BY <1>9, <1>10

\* a handler that sends nothing, when nothing is on a link
LEMMA SilenceFlood ==
  ASSUME Inv, Empty(channel), NEW S \in SUBSET Nodes,
         NEW handled, handled = [n \in S |-> handled[n]],
         \A n \in S : handled[n] \in Router(n) /\ handled[n].out = NothingSent,
         Perform(handled, channel)
  PROVE  Flooding'
<1>1. Effect(S, handled, channel)
  BY PerformEffect
<1>2. ASSUME NEW m \in Nodes, NEW n \in Nodes PROVE channel'[m][n] = <<>>
  <2>1. m \in S => handled[m].out[n] = <<>>
    BY DEF NothingSent
  <2>2. channel'[m][n] = IF m \in S \cap rx[n] THEN channel[m][n] \o handled[m].out[n]
                         ELSE channel[m][n]
    BY <1>1 DEF Effect
  <2>3. channel[m][n] = <<>>
    BY DEF Empty
  <2>4. channel'[m][n] = <<>> \/ channel'[m][n] = <<>> \o <<>>
    BY <2>1, <2>2, <2>3
  <2> QED BY <2>4
<1>3. Empty(channel') /\ flood' = {}
  BY <1>1, <1>2 DEF Effect, Empty
<1> QED BY <1>3, FloodOver

\* every step keeps what is true of a flood
LEMMA FloodStep ==
  ASSUME Inv, Flooding, [Next]_vars PROVE Flooding'
<1>1. ASSUME NEW S \in Together(active), HelloTimer(S) PROVE Flooding'
  <2> DEFINE handled == [n \in S |-> Greet(router[n], Hears(n))]
  <2>1. S \in SUBSET Nodes
    BY DEF Inv, Types, Together
  <2>2. ASSUME NEW n \in S PROVE handled[n] \in Router(n) /\ handled[n].out = NothingSent
    <3>1. n \in Nodes /\ Hears(n) \in SUBSET Nodes
      BY <2>1 DEF Inv, Types, Hears
    <3>2. PICK r : r = router[n] /\ r \in Router(n) /\ r.out = NothingSent
      BY <3>1, OfTypes
    <3>3. PICK heard \in SUBSET Nodes : heard = Hears(n)
      BY <3>1
    <3> DEFINE s == Greet(r, heard)
    <3>4. /\ s \in Router(n) /\ s.neighbors = r.neighbors \cup heard
          /\ s.selfLsa = r.selfLsa /\ s.lsdb = r.lsdb /\ s.out = r.out
          /\ s.lsaTimer /\ s.routeTimer = r.routeTimer
          /\ s.missed = [m \in Nodes |-> IF m \in r.neighbors \ heard
                                         THEN r.missed[m] + 1 ELSE 0]
          /\ Marked(r, s)
          /\ Serves(r) => Serves(s)
      BY <3>1, <3>2, Greeted
    <3>5. handled[n] = s
      BY <3>2, <3>3
    <3> HIDE DEF handled, s
    <3> QED BY <3>2, <3>4, <3>5
  <2>3. Perform(handled, channel) /\ Empty(channel)
    BY <1>1 DEF HelloTimer
  <2>4. handled = [n \in S |-> handled[n]]
    OBVIOUS
  <2> HIDE DEF handled
  <2> QED BY <2>1, <2>2, <2>3, <2>4, SilenceFlood
<1>2. ASSUME NEW S \in Together(Waiting), LsaTimer(S) PROVE Flooding'
  BY <1>2, TimersFlood
<1>3. ASSUME NEW n \in Nodes, NEW m \in Nodes, ReceiveLsa(n, m) PROVE Flooding'
  BY <1>3, ReceptionFlood
<1>4. ASSUME NEW n \in Nodes, RouteComputationTimer(n) PROVE Flooding'
  <2>1. PICK hop \in [FarNodes(router[n]) -> router[n].neighbors] :
           Perform([x \in {n} |-> RecomputeIndirectRouting(router[n], hop)], channel)
    BY <1>4 DEF RouteComputationTimer
  <2> DEFINE handled == [x \in {n} |-> RecomputeIndirectRouting(router[n], hop)]
  <2>2. ASSUME NEW x \in {n} PROVE handled[x] \in Router(x) /\ handled[x].out = NothingSent
    <3>1. router[n] \in Router(n) /\ router[n].out = NothingSent
      BY OfTypes
    <3> QED BY <3>1, Computed
  <2>3. Perform(handled, channel) /\ Empty(channel)
    BY <1>4, <2>1 DEF RouteComputationTimer
  <2>4. handled = [x \in {n} |-> handled[x]] /\ {n} \in SUBSET Nodes
    OBVIOUS
  <2> HIDE DEF handled
  <2> QED BY <2>2, <2>3, <2>4, SilenceFlood
<1>5. CASE Empty(channel) /\ UNCHANGED <<channel, flood>>
  <2>1. Empty(channel') /\ flood' = {}
    BY <1>5 DEF Flooding
  <2> QED BY <2>1, FloodOver
<1>6. ASSUME NEW n \in Nodes, NEW m \in Nodes,
             NodeDown(n) \/ NodeUp(n) \/ IfDown(n, m) \/ IfUp(n, m)
      PROVE  Flooding'
  BY <1>5, <1>6 DEF NodeDown, NodeUp, IfDown, IfUp
<1>7. CASE UNCHANGED vars
  BY <1>7 DEF vars, Flooding, Reached, News, Fresh, Empty
<1> QED BY <1>1, <1>2, <1>3, <1>4, <1>6, <1>7 DEF Next

(* However LSAs overtake each other on different ways through the network, *)
(* and whatever fails between two floods, no node schedules a computation  *)
(* in the past (handleReceivedLsa): an LSA out of a cache is news only     *)
(* after a fresh one.                                                      *)
THEOREM NeverInThePast == Spec => []NeverSchedulesInThePast
<1>1. Init => Inv /\ Flooding
  <2>1. ASSUME Init PROVE Flooding
    <3>1. flood = {} /\ \A m, n \in Nodes : channel[m][n] = <<>> /\ DOMAIN channel[m][n] = {}
      BY <2>1 DEF Init
    <3>2. \A n \in Nodes : ~Reached(n)
      BY <3>1 DEF Reached
    <3> QED BY <3>1, <3>2 DEF Flooding
  <2> QED BY <2>1, InitialInv
<1>2. Inv /\ Flooding /\ [Next]_vars => Inv' /\ Flooding'
  BY InvStep, FloodStep
<1>3. Inv /\ Flooding => NeverSchedulesInThePast
  <2>1. SUFFICES ASSUME Inv, Flooding, NEW n \in Nodes, NEW m \in Nodes,
                        channel[m][n] # <<>>, ~router[n].routeTimer,
                        IsUpdate(router[n], Head(channel[m][n]))
                 PROVE  Fresh(Head(channel[m][n]))
    BY DEF NeverSchedulesInThePast, Fresh
  <2>2. channel[m][n] \in Seq(Lsa)
    BY <2>1, OfTypes
  <2>3. /\ 1 \in DOMAIN channel[m][n] /\ Head(channel[m][n]) = channel[m][n][1]
        /\ \A j \in DOMAIN channel[m][n] : ~(j < 1)
    BY <2>1, <2>2
  <2>4. ~Reached(n)
    BY <2>1 DEF Flooding
  <2> QED BY <2>1, <2>3, <2>4 DEF Flooding
<1> QED BY <1>1, <1>2, <1>3, PTL DEF Spec

=============================================================================
