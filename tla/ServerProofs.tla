----------------------------- MODULE ServerProofs -----------------------------
(***************************************************************************)
(* Proofs about module Server, for every number of gNBs, applications and  *)
(* units.                                                                  *)
(*                                                                         *)
(* Fine: what a server record is between any two assignments of the        *)
(* handlers that belong together: types, the queue, the waiting sets and   *)
(* the account of the units.  Each handler preserves it (one lemma per     *)
(* handler), if a MAC reports only on services that run.                   *)
(*                                                                         *)
(* That it does is WiresOk: for a gNB that has a start of a service before *)
(* it, carries the service or has a report of it on its way, the server    *)
(* runs the service there; and the three exclude each other in the order   *)
(* start, carried, ended, so that nothing of a service is left when the    *)
(* server hears of its end and forgets it.                                 *)
(***************************************************************************)
EXTENDS Server, TLAPS, FiniteSetTheorems, SequenceTheorems, WellFoundedInduction

\* the messages a server sends
NicGrant ==
    [type : {"NicGrant"}, app : Apps, stop : BOOLEAN, bands : Nat, load : Nat,
     processGnb : Gnbs \cup {NoGnb}, offloadGnb : Gnbs \cup {NoGnb}]
Message ==
    NicGrant
    \cup [type : {"SrvFD"}, app : Apps, success : {FALSE}, processGnb : Gnbs \cup {NoGnb},
          offloadGnb : Gnbs \cup {NoGnb}, dated : BOOLEAN, availCmpUnit : Int]
    \cup [type : {"SrvFD"}, app : Apps, success : BOOLEAN, processGnb : Gnbs,
          offloadGnb : Gnbs, dated : BOOLEAN, availCmpUnit : Int, grantedBand : {0}]
    \cup [type : {"RsuFD"}, gnb : Gnbs, veh : {NoUe}, bytePerBand : {0}, availBand : {0},
          freeCmpUnits : Int]

\* the reports of a MAC
MacReport ==
    [app : Apps, success : BOOLEAN, processGnb : {Self}, offloadGnb : Gnbs, usedBand : Nat]

\* a server in the middle of a handler
ServerRecord ==
    [gnbId : {Self}, cmpUnitFree : Int, granted : SUBSET Apps, service : [Apps -> Service],
     appsWaitStop : SUBSET Apps, appsWaitMacInitFb : SUBSET Apps,
     srvInInitVector : Seq(Apps), timeLeft : [Apps -> Nat], timer : Nat \cup {NoTimer},
     out : Seq(Message)]

InitializingIn(v) == {a \in v.granted : ~v.service[a].initComplete}
RunningIn(v) == {a \in v.granted : v.service[a].initComplete}

QueueOk(v) ==
    LET q == v.srvInInitVector
    IN  /\ \A i \in DOMAIN q : q[i] \in InitializingIn(v)
        /\ \A a \in InitializingIn(v) : \E i \in DOMAIN q : q[i] = a
        /\ \A i, j \in DOMAIN q : q[i] = q[j] => i = j
        /\ \A i, j \in DOMAIN q : i < j => v.timeLeft[q[i]] <= v.timeLeft[q[j]]
        /\ v.timer = IF q = <<>> THEN NoTimer ELSE v.timeLeft[q[1]]

WaitsOk(v) ==
    /\ v.appsWaitStop \subseteq InitializingIn(v)
    /\ v.appsWaitMacInitFb \subseteq RunningIn(v)

Cost(v) ==
    [a \in Apps |-> IF a \in RunningIn(v) \ v.appsWaitMacInitFb THEN v.service[a].cmpUnits ELSE 0]
UnitsOk(v) == v.cmpUnitFree + Total(Cost(v)) = CmpUnitTotal

Fine(v) == v \in ServerRecord /\ QueueOk(v) /\ WaitsOk(v) /\ UnitsOk(v)

-----------------------------------------------------------------------------
\* the i-th message of s starts a; it is about a; it reports the end of a
Starts(s, i, a) == i \in DOMAIN s /\ s[i].app = a /\ ~s[i].stop
Tells(s, i, a)  == i \in DOMAIN s /\ s[i].app = a
Ends(s, i, a)   == Tells(s, i, a) /\ ~s[i].success

\* a gNB has the grants s before it, carries c and has sent the reports r; what
\* that says of application a, which the server does or does not serve there
Wire(s, c, r, a, served) ==
    /\ \/ \E i \in DOMAIN s : Starts(s, i, a)
       \/ a \in c
       \/ \E i \in DOMAIN r : Tells(r, i, a)
       => served
    /\ \A i, j \in DOMAIN s : Starts(s, i, a) /\ Starts(s, j, a) => i = j
    /\ \A i \in DOMAIN s : Starts(s, i, a) =>
          a \notin c /\ \A j \in DOMAIN r : ~Tells(r, j, a)
    /\ a \in c => \A i \in DOMAIN r : ~Ends(r, i, a)
    /\ \A i, j \in DOMAIN r : Ends(r, i, a) /\ Tells(r, j, a) => j <= i

Serves(v, o, a) == a \in RunningIn(v) /\ v.service[a].offloadGnb = o

WireOk(v, o, a) == Wire(toMac[o], carrier[o].apps, toServer[o], a, Serves(v, o, a))

WiresOk == hasScheduler => \A o \in Gnbs, a \in Apps : WireOk(server, o, a)

IInv ==
    /\ Fine(server) /\ server.out = <<>>
    /\ hasScheduler \in BOOLEAN
    /\ toMac \in [Gnbs -> Seq(NicGrant)]
    /\ carrier \in [Gnbs -> [on : BOOLEAN, apps : SUBSET Apps]]
    /\ toServer \in [Gnbs -> Seq(MacReport)]
    /\ ~hasScheduler => server = InitialServer(Self)
    /\ WiresOk

-----------------------------------------------------------------------------
(* Sums over the applications.                                             *)

\* a nonempty set of naturals has a least element
LEMMA LeastNatural ==
  ASSUME NEW S, S \subseteq Nat, S # {}
  PROVE  \E n \in S : \A k \in S : n <= k
<1>1. PICK n \in S : \A k \in S : <<k, n>> \notin OpToRel(<, Nat)
  BY NatLessThanWellFounded, WFMin
<1>2. \A k \in S : ~(k < n)
  BY <1>1 DEF OpToRel
<1> QED BY <1>2

\* a set that holds 0, and with a number the next one, holds all up to N
LEMMA UpTo ==
  ASSUME NEW N \in Nat, NEW S, 0 \in S,
         \A i \in 0 .. N : i # N /\ i \in S => i + 1 \in S
  PROVE  \A i \in 0 .. N : i \in S
<1> DEFINE Bad == {i \in 0 .. N : i \notin S}
<1> SUFFICES ASSUME Bad # {} PROVE FALSE
  OBVIOUS
<1>1. PICK n \in Bad : \A k \in Bad : n <= k
  <2>1. Bad \subseteq Nat
    OBVIOUS
  <2> HIDE DEF Bad
  <2> QED BY <2>1, LeastNatural
<1>2. n \in 0 .. N /\ n # 0 /\ n - 1 \in 0 .. N /\ n - 1 # N /\ (n - 1) + 1 = n
  BY <1>1
<1>3. n - 1 \in S
  BY <1>1, <1>2
<1>4. n \in S
  BY <1>2, <1>3
<1> QED BY <1>1, <1>4

\* f[a] is the sum of n[1] .. n[a], for a up to N
Sums(f, n, N) == f = [a \in 0 .. N |-> IF a = 0 THEN 0 ELSE f[a - 1] + n[a]]

\* the recursive function of Total exists: a shortest range without one would
\* have a predecessor with one
LEMMA SumsExist ==
  ASSUME NEW n
  PROVE  \A N \in Nat : \E f : Sums(f, n, N)
<1> DEFINE Bad == {N \in Nat : ~\E f : Sums(f, n, N)}
<1> SUFFICES ASSUME Bad # {} PROVE FALSE
  OBVIOUS
<1>1. PICK N \in Bad : \A k \in Bad : N <= k
  BY LeastNatural
<1>2. CASE N = 0
  <2>1. Sums([a \in 0 .. 0 |-> 0], n, 0)
    BY DEF Sums
  <2> QED BY <2>1, <1>1, <1>2
<1>3. CASE N # 0
  <2>1. N - 1 \in Nat /\ N - 1 \notin Bad
    BY <1>1, <1>3
  <2>2. PICK f : Sums(f, n, N - 1)
    BY <2>1
  <2> DEFINE g == [a \in 0 .. N |-> IF a = N THEN f[N - 1] + n[N] ELSE f[a]]
  <2>3. ASSUME NEW a \in 0 .. N
        PROVE  g[a] = IF a = 0 THEN 0 ELSE g[a - 1] + n[a]
    <3>1. CASE a = N
      BY <3>1, <2>1, <1>3
    <3>2. CASE a # N
      BY <3>2, <2>1, <1>3, <2>2 DEF Sums
    <3> QED BY <3>1, <3>2
  <2>4. Sums(g, n, N)
    BY <2>3 DEF Sums
  <2> QED BY <2>4, <1>1
<1> QED BY <1>2, <1>3

\* Total by its partial sums
LEMMA TotalSums ==
  ASSUME NEW n \in [Apps -> Int]
  PROVE  \E f : /\ Total(n) = f[NumApps] /\ f[0] = 0
                /\ \A a \in Apps : f[a] = f[a - 1] + n[a]
<1> DEFINE upTo[a \in 0 .. NumApps] == IF a = 0 THEN 0 ELSE upTo[a - 1] + n[a]
<1>1. PICK f : Sums(f, n, NumApps)
  BY SumsExist, MecTypesAssumption
<1>2. Sums(upTo, n, NumApps)
  BY <1>1 DEF Sums
<1>3. Total(n) = upTo[NumApps]
  BY DEF Total
<1> HIDE DEF upTo
<1>4. upTo[0] = 0 /\ \A a \in Apps : upTo[a] = upTo[a - 1] + n[a]
  BY <1>2, MecTypesAssumption DEF Sums, Apps
<1> QED BY <1>3, <1>4

\* a change of one summand changes the sum by as much
LEMMA TotalChanges ==
  ASSUME NEW n \in [Apps -> Int], NEW m \in [Apps -> Int], NEW c \in Apps,
         \A a \in Apps : a # c => m[a] = n[a]
  PROVE  /\ Total(n) \in Int /\ Total(m) = Total(n) + m[c] - n[c]
<1>1. PICK f : /\ Total(n) = f[NumApps] /\ f[0] = 0
               /\ \A a \in Apps : f[a] = f[a - 1] + n[a]
  BY TotalSums
<1>2. PICK g : /\ Total(m) = g[NumApps] /\ g[0] = 0
               /\ \A a \in Apps : g[a] = g[a - 1] + m[a]
  BY TotalSums
<1> DEFINE S == {a \in 0 .. NumApps :
                   /\ f[a] \in Int
                   /\ g[a] = IF a < c THEN f[a] ELSE f[a] + m[c] - n[c]}
<1>3. 0 \in S
  BY <1>1, <1>2, MecTypesAssumption DEF Apps
<1>4. ASSUME NEW i \in 0 .. NumApps, i # NumApps, i \in S
      PROVE  i + 1 \in S
  <2>1. i + 1 \in Apps /\ i + 1 \in 0 .. NumApps /\ (i + 1) - 1 = i
    BY <1>4, MecTypesAssumption DEF Apps
  <2>2. f[i + 1] = f[i] + n[i + 1] /\ g[i + 1] = g[i] + m[i + 1]
    BY <1>1, <1>2, <2>1
  <2>3. n[i + 1] \in Int /\ m[i + 1] \in Int /\ n[c] \in Int /\ m[c] \in Int
    BY <2>1
  <2>4. CASE i + 1 = c
    BY <1>4, <2>1, <2>2, <2>3, <2>4 DEF Apps
  <2>5. CASE i + 1 # c
    <3>1. m[i + 1] = n[i + 1]
      BY <2>1, <2>5
    <3>2. i < c <=> i + 1 < c
      BY <2>5, MecTypesAssumption DEF Apps
    <3> QED BY <1>4, <2>1, <2>2, <2>3, <3>1, <3>2
  <2> QED BY <2>4, <2>5
<1>5. NumApps \in S
  <2> HIDE DEF S
  <2> QED BY <1>3, <1>4, UpTo, MecTypesAssumption
<1> QED BY <1>1, <1>2, <1>5 DEF Apps

\* nothing adds up to nothing
LEMMA TotalOfNone ==
  ASSUME NEW n \in [Apps -> Int], \A a \in Apps : n[a] = 0
  PROVE  Total(n) = 0
<1>1. PICK f : /\ Total(n) = f[NumApps] /\ f[0] = 0
               /\ \A a \in Apps : f[a] = f[a - 1] + n[a]
  BY TotalSums
<1> DEFINE S == {a \in 0 .. NumApps : f[a] = 0}
<1>2. 0 \in S
  BY <1>1, MecTypesAssumption
<1>3. ASSUME NEW i \in 0 .. NumApps, i # NumApps, i \in S
      PROVE  i + 1 \in S
  <2>1. i + 1 \in Apps /\ i + 1 \in 0 .. NumApps /\ (i + 1) - 1 = i
    BY <1>3, MecTypesAssumption DEF Apps
  <2> QED BY <1>1, <1>3, <2>1
<1>4. NumApps \in S
  <2> HIDE DEF S
  <2> QED BY <1>2, <1>3, UpTo, MecTypesAssumption
<1> QED BY <1>1, <1>4

-----------------------------------------------------------------------------
(* Sequences.                                                              *)

\* a inserted behind the first k elements
LEMMA Inserted ==
  ASSUME NEW S, NEW q \in Seq(S), NEW a \in S, NEW k \in 0 .. Len(q)
  PROVE  LET n == InsertAt(q, k + 1, a)
         IN  /\ n \in Seq(S) /\ Len(n) = Len(q) + 1 /\ n[k + 1] = a
             /\ \A i \in 1 .. k : n[i] = q[i]
             /\ \A i \in k + 1 .. Len(q) : n[i + 1] = q[i]
<1> DEFINE l == SubSeq(q, 1, k)
           r == SubSeq(q, k + 1, Len(q))
           m == l \o <<a>>
<1>1. l \in Seq(S) /\ Len(l) = k /\ \A i \in 1 .. k : l[i] = q[i]
  OBVIOUS
<1>2. /\ r \in Seq(S) /\ Len(r) = Len(q) - k
      /\ \A i \in 1 .. Len(q) - k : r[i] = q[k + i]
  OBVIOUS
<1>3. InsertAt(q, k + 1, a) = m \o r
  <2>1. (k + 1) - 1 = k
    OBVIOUS
  <2> QED BY <2>1 DEF InsertAt
<1> HIDE DEF l, r, InsertAt
<1>4. /\ m \in Seq(S) /\ Len(m) = k + 1 /\ m[k + 1] = a
      /\ \A i \in 1 .. k : m[i] = l[i]
  BY <1>1
<1> HIDE DEF m
<1>5. /\ m \o r \in Seq(S) /\ Len(m \o r) = Len(q) + 1
      /\ \A i \in 1 .. k + 1 : (m \o r)[i] = m[i]
      /\ \A i \in k + 2 .. Len(q) + 1 : (m \o r)[i] = r[i - (k + 1)]
  <2>1. Len(m) + Len(r) = Len(q) + 1
    BY <1>2, <1>4
  <2>2. /\ m \o r \in Seq(S) /\ Len(m \o r) = Len(m) + Len(r)
        /\ \A i \in 1 .. Len(m) + Len(r) :
              (m \o r)[i] = IF i <= Len(m) THEN m[i] ELSE r[i - Len(m)]
    BY <1>2, <1>4, ConcatProperties
  <2> QED BY <2>1, <2>2, <1>4
<1>6. ASSUME NEW i \in k + 1 .. Len(q) PROVE (m \o r)[i + 1] = q[i]
  <2>1. i + 1 \in k + 2 .. Len(q) + 1 /\ i - k \in 1 .. Len(q) - k
    OBVIOUS
  <2>2. (i + 1) - (k + 1) = i - k /\ k + (i - k) = i
    OBVIOUS
  <2>3. (m \o r)[i + 1] = r[i - k]
    BY <1>5, <2>1, <2>2
  <2>4. r[i - k] = q[k + (i - k)]
    BY <1>2, <2>1
  <2> QED BY <2>2, <2>3, <2>4
<1>7. ASSUME NEW i \in 1 .. k PROVE (m \o r)[i] = q[i]
  BY <1>1, <1>4, <1>5
<1>8. (m \o r)[k + 1] = a
  BY <1>4, <1>5
<1> QED BY <1>3, <1>5, <1>6, <1>7, <1>8

\* the elements of an ordered queue up to a bound are the first k
LEMMA AheadIsPrefix ==
  ASSUME NEW S, NEW q \in Seq(S), NEW left \in [S -> Nat], NEW t \in Nat,
         \A i, j \in DOMAIN q : i < j => left[q[i]] <= left[q[j]]
  PROVE  \E k \in 0 .. Len(q) :
            /\ Cardinality({i \in DOMAIN q : left[q[i]] <= t}) = k
            /\ \A i \in 1 .. k : left[q[i]] <= t
            /\ \A i \in k + 1 .. Len(q) : left[q[i]] > t
<1> DEFINE A == {i \in DOMAIN q : left[q[i]] <= t}
           B == {i \in 1 .. Len(q) + 1 : i \notin A}
<1>1. DOMAIN q = 1 .. Len(q) /\ Len(q) \in Nat /\ \A i \in DOMAIN q : left[q[i]] \in Nat
  OBVIOUS
<1>2. B \subseteq Nat /\ Len(q) + 1 \in B
  BY <1>1
<1>3. PICK m \in B : \A i \in B : m <= i
  <2> HIDE DEF B
  <2> QED BY <1>2, LeastNatural
<1> DEFINE k == m - 1
<1>4. k \in 0 .. Len(q)
  BY <1>1, <1>3
<1>5. ASSUME NEW i \in 1 .. k PROVE i \in A
  BY <1>1, <1>3
<1>6. ASSUME NEW i \in k + 1 .. Len(q) PROVE left[q[i]] > t
  <2>1. m \in DOMAIN q /\ left[q[m]] > t /\ m <= i /\ i \in DOMAIN q
    BY <1>1, <1>3, <1>6
  <2>2. left[q[m]] <= left[q[i]]
    <3>1. CASE m = i
      BY <3>1, <2>1, <1>1
    <3>2. CASE m < i
      BY <3>2, <2>1
    <3> QED BY <3>1, <3>2, <2>1, <1>1
  <2> QED BY <2>1, <2>2, <1>1
<1>7. A = 1 .. k
  BY <1>1, <1>4, <1>5, <1>6
<1>8. Cardinality(1 .. k) = k
  BY <1>4, FS_Interval
<1> QED BY <1>4, <1>5, <1>6, <1>7, <1>8

\* the i-th element removed
LEMMA Removed ==
  ASSUME NEW S, NEW s \in Seq(S), NEW i \in DOMAIN s
  PROVE  LET n == RemoveAt(s, i)
         IN  /\ n \in Seq(S) /\ Len(n) = Len(s) - 1
             /\ \A j \in DOMAIN n : n[j] = s[IF j < i THEN j ELSE j + 1]
<1> DEFINE l == SubSeq(s, 1, i - 1)
           r == SubSeq(s, i + 1, Len(s))
<1>0. Len(s) \in Nat /\ i \in 1 .. Len(s)
  OBVIOUS
<1>1. l \in Seq(S) /\ Len(l) = i - 1 /\ \A j \in 1 .. i - 1 : l[j] = s[j]
  BY <1>0
<1>2. /\ r \in Seq(S) /\ Len(r) = Len(s) - i
      /\ \A j \in 1 .. Len(s) - i : r[j] = s[i + j]
  BY <1>0
<1> HIDE DEF l, r
<1>3. /\ l \o r \in Seq(S) /\ Len(l \o r) = Len(s) - 1
      /\ \A j \in 1 .. i - 1 : (l \o r)[j] = l[j]
      /\ \A j \in i .. Len(s) - 1 : (l \o r)[j] = r[j - (i - 1)]
  BY <1>0, <1>1, <1>2, SMTT(30)
<1>4. ASSUME NEW j \in i .. Len(s) - 1 PROVE (l \o r)[j] = s[j + 1]
  <2>1. j - (i - 1) \in 1 .. Len(s) - i /\ i + (j - (i - 1)) = j + 1
    BY <1>0
  <2> QED BY <1>2, <1>3, <2>1
<1>5. RemoveAt(s, i) = l \o r
  BY DEF RemoveAt, l, r
<1> HIDE DEF RemoveAt
<1>6. ASSUME NEW j \in DOMAIN RemoveAt(s, i)
      PROVE  RemoveAt(s, i)[j] = s[IF j < i THEN j ELSE j + 1]
  <2>1. j \in 1 .. Len(s) - 1
    BY <1>3, <1>5
  <2>2. CASE j < i
    BY <2>1, <2>2, <1>0, <1>1, <1>3, <1>5
  <2>3. CASE ~(j < i)
    BY <2>1, <2>3, <1>0, <1>4, <1>5
  <2> QED BY <2>2, <2>3
<1> QED BY <1>3, <1>5, <1>6

\* a sequence without its head, and with one more at its end
LEMMA TailOf ==
  ASSUME NEW S, NEW s \in Seq(S), s # <<>>
  PROVE  /\ Tail(s) \in Seq(S) /\ Len(Tail(s)) = Len(s) - 1 /\ Len(s) \in Nat \ {0}
         /\ Head(s) = s[1] /\ 1 \in DOMAIN s /\ s[1] \in S
         /\ \A i \in DOMAIN Tail(s) : i + 1 \in DOMAIN s /\ Tail(s)[i] = s[i + 1]
  OBVIOUS

LEMMA AppendTo ==
  ASSUME NEW S, NEW s \in Seq(S), NEW e \in S
  PROVE  /\ Append(s, e) \in Seq(S) /\ Len(Append(s, e)) = Len(s) + 1
         /\ DOMAIN Append(s, e) = DOMAIN s \cup {Len(s) + 1}
         /\ \A i \in DOMAIN s : i <= Len(s) /\ Append(s, e)[i] = s[i]
         /\ Append(s, e)[Len(s) + 1] = e
  OBVIOUS

-----------------------------------------------------------------------------
(* The assignments the handlers are made of.                               *)

\* an account in which one service changes, as the free units do
LEMMA AccountKept ==
  ASSUME NEW v \in ServerRecord, UnitsOk(v), NEW n \in ServerRecord, NEW a \in Apps,
         \A b \in Apps : b # a => Cost(n)[b] = Cost(v)[b],
         n.cmpUnitFree + Cost(n)[a] = v.cmpUnitFree + Cost(v)[a]
  PROVE  UnitsOk(n)
<1>1. Cost(v) \in [Apps -> Int] /\ Cost(n) \in [Apps -> Int]
  BY DEF Cost, ServerRecord, Service
<1>2. v.cmpUnitFree \in Int /\ n.cmpUnitFree \in Int
  BY DEF ServerRecord
<1>3. /\ Total(Cost(v)) \in Int
      /\ Total(Cost(n)) = Total(Cost(v)) + Cost(n)[a] - Cost(v)[a]
  <2> HIDE DEF Cost
  <2> QED BY <1>1, TotalChanges
<1>4. Cost(v)[a] \in Int /\ Cost(n)[a] \in Int
  <2> HIDE DEF Cost
  <2> QED BY <1>1
<1> HIDE DEF Cost
<1> QED BY <1>2, <1>3, <1>4 DEF UnitsOk

\* what no property of a server speaks of may change
LEMMA FineKept ==
  ASSUME NEW v, Fine(v), NEW n \in ServerRecord,
         n.cmpUnitFree = v.cmpUnitFree, n.granted = v.granted,
         \A b \in v.granted : n.service[b] = v.service[b],
         n.appsWaitMacInitFb = v.appsWaitMacInitFb, n.srvInInitVector = v.srvInInitVector,
         n.timeLeft = v.timeLeft, n.timer = v.timer,
         n.appsWaitStop \subseteq InitializingIn(v)
  PROVE  Fine(n) /\ RunningIn(n) = RunningIn(v)
<1>1. RunningIn(n) = RunningIn(v) /\ InitializingIn(n) = InitializingIn(v)
  BY DEF RunningIn, InitializingIn
<1>2. QueueOk(n) /\ WaitsOk(n)
  BY <1>1 DEF Fine, QueueOk, WaitsOk
<1>3. Cost(n) = Cost(v)
  <2>1. \A a \in Apps : a \in RunningIn(v) => n.service[a] = v.service[a]
    BY DEF RunningIn
  <2>2. \A a \in Apps : Cost(n)[a] = Cost(v)[a]
    BY <1>1, <2>1 DEF Cost
  <2> QED BY <2>2 DEF Cost
<1>4. UnitsOk(n)
  BY <1>3 DEF Fine, UnitsOk
<1> QED BY <1>1, <1>2, <1>4 DEF Fine

\* a message is sent
LEMMA SendOutFields ==
  ASSUME NEW v \in ServerRecord, NEW msg \in Message
  PROVE  LET n == SendOut(v, msg)
         IN  /\ n \in ServerRecord /\ n.out = Append(v.out, msg)
             /\ n.cmpUnitFree = v.cmpUnitFree /\ n.granted = v.granted
             /\ n.service = v.service /\ n.appsWaitMacInitFb = v.appsWaitMacInitFb
             /\ n.srvInInitVector = v.srvInInitVector /\ n.timeLeft = v.timeLeft
             /\ n.timer = v.timer /\ n.appsWaitStop = v.appsWaitStop /\ n.gnbId = v.gnbId
<1> DEFINE sent == Append(v.out, msg)
<1>1. sent \in Seq(Message)
  <2>1. v.out \in Seq(Message)
    BY DEF ServerRecord
  <2> HIDE DEF Message
  <2> QED BY <2>1
<1> HIDE DEF sent, Message
<1>2. SendOut(v, msg) = [v EXCEPT !.out = sent]
  BY DEF SendOut, sent
<1>3. /\ [v EXCEPT !.out = sent] \in ServerRecord /\ [v EXCEPT !.out = sent].out = sent
  BY <1>1 DEF ServerRecord
<1> QED BY <1>2, <1>3 DEF ServerRecord, sent

LEMMA StoreFields ==
  ASSUME NEW v \in ServerRecord, NEW a \in Apps, NEW srv \in Service
  PROVE  LET n == Store(v, a, srv)
         IN  /\ n \in ServerRecord /\ n.granted = v.granted \cup {a}
             /\ n.service = [v.service EXCEPT ![a] = srv] /\ n.out = v.out
             /\ n.cmpUnitFree = v.cmpUnitFree /\ n.appsWaitMacInitFb = v.appsWaitMacInitFb
             /\ n.srvInInitVector = v.srvInInitVector /\ n.timeLeft = v.timeLeft
             /\ n.timer = v.timer /\ n.appsWaitStop = v.appsWaitStop /\ n.gnbId = v.gnbId
<1> DEFINE stored == [v.service EXCEPT ![a] = srv]
           apps   == v.granted \cup {a}
<1>1. stored \in [Apps -> Service] /\ apps \in SUBSET Apps
  <2>1. v.service \in [Apps -> Service] /\ v.granted \in SUBSET Apps
    BY DEF ServerRecord
  <2> HIDE DEF Service
  <2> QED BY <2>1
<1> HIDE DEF stored, apps, Service, Message
<1>2. Store(v, a, srv) = [v EXCEPT !.granted = apps, !.service = stored]
  BY DEF Store, stored, apps, ServerRecord
<1> QED BY <1>1, <1>2 DEF ServerRecord, stored, apps

LEMMA EraseFields ==
  ASSUME NEW v \in ServerRecord, NEW a \in Apps
  PROVE  LET n == Erase(v, a)
         IN  /\ n \in ServerRecord /\ n.granted = v.granted \ {a}
             /\ n.service = [v.service EXCEPT ![a] = DefaultService] /\ n.out = v.out
             /\ n.cmpUnitFree = v.cmpUnitFree /\ n.appsWaitMacInitFb = v.appsWaitMacInitFb
             /\ n.srvInInitVector = v.srvInInitVector /\ n.timeLeft = v.timeLeft
             /\ n.timer = v.timer /\ n.appsWaitStop = v.appsWaitStop /\ n.gnbId = v.gnbId
<1> DEFINE stored == [v.service EXCEPT ![a] = DefaultService]
           apps   == v.granted \ {a}
<1>1. stored \in [Apps -> Service] /\ apps \in SUBSET Apps
  <2>1. v.service \in [Apps -> Service] /\ v.granted \in SUBSET Apps
    BY DEF ServerRecord
  <2>2. DefaultService \in Service
    BY DEF DefaultService, Service
  <2> HIDE DEF Service, DefaultService
  <2> QED BY <2>1, <2>2
<1> HIDE DEF stored, apps, Service, Message, DefaultService
<1>2. Erase(v, a) = [v EXCEPT !.granted = apps, !.service = stored]
  BY DEF Erase, stored, apps, ServerRecord
<1> QED BY <1>1, <1>2 DEF ServerRecord, stored, apps

\* a service enters the queue
LEMMA EnqueueFine ==
  ASSUME NEW v, Fine(v), NEW a \in Apps, a \notin v.granted,
         NEW srv \in Service, ~srv.initComplete, NEW t \in Nat
  PROVE  LET n == Enqueue(Store(v, a, srv), a, t)
         IN  /\ Fine(n) /\ RunningIn(n) = RunningIn(v) /\ n.out = v.out
             /\ n.granted = v.granted \cup {a} /\ n.appsWaitStop = v.appsWaitStop
             /\ n.service = [v.service EXCEPT ![a] = srv]
<1> DEFINE w     == Store(v, a, srv)
           q     == v.srvInInitVector
           ahead == Cardinality({i \in DOMAIN q : v.timeLeft[q[i]] <= t})
           queue == InsertAt(q, ahead + 1, a)
           left  == [v.timeLeft EXCEPT ![a] = t]
           first == left[queue[1]]
           n     == Enqueue(w, a, t)
<1>1. v \in ServerRecord /\ QueueOk(v) /\ WaitsOk(v) /\ UnitsOk(v)
  BY DEF Fine
<1>2. /\ w \in ServerRecord /\ w.granted = v.granted \cup {a}
      /\ w.service = [v.service EXCEPT ![a] = srv] /\ w.out = v.out
      /\ w.cmpUnitFree = v.cmpUnitFree /\ w.appsWaitMacInitFb = v.appsWaitMacInitFb
      /\ w.srvInInitVector = v.srvInInitVector /\ w.timeLeft = v.timeLeft
      /\ w.timer = v.timer /\ w.appsWaitStop = v.appsWaitStop /\ w.gnbId = v.gnbId
  BY <1>1, StoreFields
<1>3. /\ q \in Seq(Apps) /\ v.timeLeft \in [Apps -> Nat] /\ v.granted \subseteq Apps
      /\ v.service \in [Apps -> Service]
  BY <1>1 DEF ServerRecord
<1>4. /\ ahead \in 0 .. Len(q)
      /\ \A i \in 1 .. ahead : v.timeLeft[q[i]] <= t
      /\ \A i \in ahead + 1 .. Len(q) : v.timeLeft[q[i]] > t
  <2>1. \A i, j \in DOMAIN q : i < j => v.timeLeft[q[i]] <= v.timeLeft[q[j]]
    BY <1>1 DEF QueueOk
  <2>2. PICK k \in 0 .. Len(q) :
            /\ Cardinality({i \in DOMAIN q : v.timeLeft[q[i]] <= t}) = k
            /\ \A i \in 1 .. k : v.timeLeft[q[i]] <= t
            /\ \A i \in k + 1 .. Len(q) : v.timeLeft[q[i]] > t
    <3> HIDE DEF q
    <3> QED BY <2>1, <1>3, AheadIsPrefix
  <2> QED BY <2>2
<1> HIDE DEF ahead, w
<1>5. /\ queue \in Seq(Apps) /\ Len(queue) = Len(q) + 1 /\ queue[ahead + 1] = a
      /\ \A i \in 1 .. ahead : queue[i] = q[i]
      /\ \A i \in ahead + 1 .. Len(q) : queue[i + 1] = q[i]
  <2>1. q \in Seq(Apps) /\ ahead \in 0 .. Len(q)
    BY <1>3, <1>4
  <2> HIDE DEF q, queue, left, first, n
  <2>2. ASSUME NEW s \in Seq(Apps), NEW k \in 0 .. Len(s)
        PROVE  /\ InsertAt(s, k + 1, a) \in Seq(Apps)
               /\ Len(InsertAt(s, k + 1, a)) = Len(s) + 1
    BY Inserted
  <2>3. ASSUME NEW s \in Seq(Apps), NEW k \in 0 .. Len(s)
        PROVE  InsertAt(s, k + 1, a)[k + 1] = a
    BY Inserted
  <2>4. ASSUME NEW s \in Seq(Apps), NEW k \in 0 .. Len(s)
        PROVE  \A i \in 1 .. k : InsertAt(s, k + 1, a)[i] = s[i]
    BY Inserted
  <2>5. ASSUME NEW s \in Seq(Apps), NEW k \in 0 .. Len(s)
        PROVE  \A i \in k + 1 .. Len(s) : InsertAt(s, k + 1, a)[i + 1] = s[i]
    BY Inserted
  <2> QED BY <2>1, <2>2, <2>3, <2>4, <2>5 DEF queue
<1>6. left \in [Apps -> Nat] /\ queue # <<>> /\ queue[1] \in Apps
  BY <1>3, <1>5
<1> HIDE DEF queue, left
<1>7. first \in Nat /\ first \in Nat \cup {NoTimer}
  BY <1>6
<1>8. n = [w EXCEPT !.timeLeft = left, !.srvInInitVector = queue, !.timer = first]
  BY <1>2 DEF Enqueue, left, queue, ahead
<1> HIDE DEF first, n
<1>9. /\ n \in ServerRecord /\ n.timeLeft = left /\ n.srvInInitVector = queue
      /\ n.timer = first /\ n.granted = v.granted \cup {a}
      /\ n.service = [v.service EXCEPT ![a] = srv] /\ n.out = v.out
      /\ n.cmpUnitFree = v.cmpUnitFree /\ n.appsWaitMacInitFb = v.appsWaitMacInitFb
      /\ n.appsWaitStop = v.appsWaitStop
  <2> HIDE DEF q
  <2> QED BY <1>2, <1>5, <1>6, <1>7, <1>8 DEF ServerRecord
<1>10. RunningIn(n) = RunningIn(v) /\ InitializingIn(n) = InitializingIn(v) \cup {a}
  <2>1. \A b \in Apps : n.service[b] = IF b = a THEN srv ELSE v.service[b]
    BY <1>3, <1>9
  <2> QED BY <2>1, <1>3, <1>9 DEF RunningIn, InitializingIn
<1>11. ASSUME NEW i \in DOMAIN queue
       PROVE  \/ i <= ahead /\ i \in DOMAIN q /\ queue[i] = q[i]
              \/ i = ahead + 1 /\ queue[i] = a
              \/ i > ahead + 1 /\ i - 1 \in DOMAIN q /\ queue[i] = q[i - 1]
  <2>1. DOMAIN q = 1 .. Len(q) /\ i \in 1 .. Len(q) + 1 /\ Len(q) \in Nat
    BY <1>3, <1>5
  <2>2. CASE i > ahead + 1
    <3>1. i - 1 \in ahead + 1 .. Len(q) /\ (i - 1) + 1 = i
      BY <2>1, <2>2, <1>4
    <3>2. queue[(i - 1) + 1] = q[i - 1]
      BY <3>1, <1>5
    <3> QED BY <3>1, <3>2, <2>1, <2>2, <1>4
  <2>3. CASE i <= ahead
    BY <2>1, <2>3, <1>4, <1>5
  <2> QED BY <2>1, <2>2, <2>3, <1>4, <1>5
<1>12. \A i \in DOMAIN q : q[i] \in InitializingIn(v) /\ q[i] \in Apps /\ q[i] # a
  BY <1>1, <1>3 DEF QueueOk, InitializingIn
<1>13. \A i \in DOMAIN q : left[q[i]] = v.timeLeft[q[i]] /\ v.timeLeft[q[i]] \in Nat
  BY <1>3, <1>12 DEF left
<1>14. left[a] = t
  BY <1>3 DEF left
<1>15. QueueOk(n)
  <2>1. \A i \in DOMAIN queue : queue[i] \in InitializingIn(n)
    BY <1>10, <1>11, <1>12
  <2>2. ASSUME NEW b \in InitializingIn(n) PROVE \E i \in DOMAIN queue : queue[i] = b
    <3>0. DOMAIN q = 1 .. Len(q) /\ DOMAIN queue = 1 .. Len(q) + 1 /\ Len(q) \in Nat
      BY <1>3, <1>5
    <3>1. CASE b = a
      BY <3>0, <3>1, <1>4, <1>5
    <3>2. CASE b # a
      <4>1. PICK j \in DOMAIN q : q[j] = b
        BY <3>2, <1>1, <1>10 DEF QueueOk
      <4>2. CASE j <= ahead
        BY <3>0, <4>1, <4>2, <1>4, <1>5
      <4>3. CASE j > ahead
        <5>1. j \in ahead + 1 .. Len(q) /\ j + 1 \in DOMAIN queue
          BY <3>0, <4>1, <4>3, <1>4
        <5> QED BY <5>1, <4>1, <1>5
      <4> QED BY <3>0, <4>1, <4>2, <4>3, <1>4
    <3> QED BY <3>1, <3>2
  <2>3. \A i, j \in DOMAIN q : q[i] = q[j] => i = j
    BY <1>1 DEF QueueOk
  <2>4. \A i, j \in DOMAIN q : i < j => v.timeLeft[q[i]] <= v.timeLeft[q[j]]
    BY <1>1 DEF QueueOk
  <2>5. ASSUME NEW i \in DOMAIN queue, NEW j \in DOMAIN queue, queue[i] = queue[j]
        PROVE  i = j
    <3>0. i \in Int /\ j \in Int /\ ahead \in Int
      BY <1>4, <1>5
    <3> QED BY <3>0, <2>3, <2>5, <1>11, <1>12
  <2>6. ASSUME NEW i \in DOMAIN queue, NEW j \in DOMAIN queue, i < j
        PROVE  left[queue[i]] <= left[queue[j]]
    <3>0. i \in Int /\ j \in Int /\ ahead \in Nat /\ DOMAIN q = 1 .. Len(q) /\ Len(q) \in Nat
      <4>1. DOMAIN q = 1 .. Len(q) /\ Len(q) \in Nat
        BY <1>3
      <4>2. i \in Int /\ j \in Int /\ ahead \in Nat
        BY <1>4, <1>5
      <4> HIDE DEF q
      <4> QED BY <4>1, <4>2
    <3> HIDE DEF q
    <3>1. CASE i <= ahead /\ j <= ahead
      BY <3>0, <3>1, <2>4, <2>6, <1>11, <1>13
    <3>2. CASE i <= ahead /\ j = ahead + 1
      BY <3>0, <3>2, <1>4, <1>11, <1>13, <1>14
    <3>3. CASE i <= ahead /\ j > ahead + 1
      <4>1. queue[i] = q[i] /\ i \in DOMAIN q /\ queue[j] = q[j - 1] /\ j - 1 \in DOMAIN q
        BY <3>0, <3>3, <1>11
      <4>2. i < j - 1
        BY <3>0, <3>3
      <4> QED BY <4>1, <4>2, <2>4, <1>13
    <3>4. CASE i = ahead + 1 /\ j > ahead + 1
      <4>1. queue[i] = a /\ queue[j] = q[j - 1] /\ j - 1 \in DOMAIN q
        BY <3>0, <3>4, <1>11
      <4>2. j - 1 \in ahead + 1 .. Len(q)
        BY <3>0, <3>4, <4>1
      <4>3. v.timeLeft[q[j - 1]] > t
        BY <4>2, <1>4
      <4> QED BY <4>1, <4>3, <1>13, <1>14
    <3>5. CASE i > ahead + 1 /\ j > ahead + 1
      <4>1. queue[i] = q[i - 1] /\ i - 1 \in DOMAIN q /\ queue[j] = q[j - 1] /\ j - 1 \in DOMAIN q
        BY <3>0, <3>5, <1>11
      <4>2. i - 1 < j - 1
        BY <3>0, <2>6
      <4> QED BY <4>1, <4>2, <2>4, <1>13
    <3> QED BY <3>0, <2>6, <3>1, <3>2, <3>3, <3>4, <3>5
  <2> QED BY <2>1, <2>2, <2>5, <2>6, <1>6, <1>9 DEF QueueOk, first
<1>16. WaitsOk(n)
  BY <1>1, <1>9, <1>10 DEF WaitsOk
<1>17. UnitsOk(n)
  <2>1. \A b \in Apps : Cost(n)[b] = Cost(v)[b]
    <3> TAKE b \in Apps
    <3>1. b \in RunningIn(v) => b # a /\ n.service[b] = v.service[b]
      BY <1>3, <1>9 DEF RunningIn
    <3> QED BY <3>1, <1>9, <1>10 DEF Cost
  <2>2. Cost(v)[a] \in Int /\ v.cmpUnitFree \in Int
    BY <1>1 DEF Cost, ServerRecord, Service
  <2> HIDE DEF Cost
  <2> QED BY <2>1, <2>2, <1>1, <1>9, AccountKept
<1> QED BY <1>9, <1>10, <1>15, <1>16, <1>17 DEF Fine, n, w

-----------------------------------------------------------------------------
(* The handlers.                                                           *)

\* dated reports carry the free units
Honest(n) ==
    \A i \in DOMAIN n.out :
        n.out[i].type = "SrvFD" /\ n.out[i].dated => n.out[i].availCmpUnit = n.cmpUnitFree

NoNicGrant(n) == \A i \in DOMAIN n.out : n.out[i].type # "NicGrant"

\* running services keep their gNBs
GnbsKept(v, n) ==
    \A b \in RunningIn(v) \cap RunningIn(n) :
        n.service[b].offloadGnb = v.service[b].offloadGnb

SaysEnd(n, a) ==
    \E i \in DOMAIN n.out : n.out[i].type = "SrvFD" /\ n.out[i].app = a /\ ~n.out[i].success

\* n is v but for the messages
OnlySent(v, n) ==
    /\ n.cmpUnitFree = v.cmpUnitFree /\ n.granted = v.granted
    /\ n.service = v.service /\ n.appsWaitMacInitFb = v.appsWaitMacInitFb
    /\ n.srvInInitVector = v.srvInInitVector /\ n.timeLeft = v.timeLeft
    /\ n.timer = v.timer /\ n.appsWaitStop = v.appsWaitStop /\ n.gnbId = v.gnbId

\* a report of failure leaves the rest as it was
LEMMA SendFailureFields ==
  ASSUME NEW v \in ServerRecord, v.out = <<>>, NEW a \in Apps, NEW p \in Gnbs \cup {NoGnb},
         NEW o \in Gnbs \cup {NoGnb}, NEW dated \in BOOLEAN
  PROVE  LET n == SendFailure(v, a, p, o, dated)
         IN  /\ n \in ServerRecord /\ NoNicGrant(n) /\ Honest(n) /\ SaysEnd(n, a) /\ OnlySent(v, n)
<1> DEFINE msg == [type |-> "SrvFD", app |-> a, success |-> FALSE, processGnb |-> p,
                   offloadGnb |-> o, dated |-> dated, availCmpUnit |-> v.cmpUnitFree]
           n   == SendFailure(v, a, p, o, dated)
<1>1. msg \in Message
  BY DEF Message, ServerRecord
<1>2. /\ msg.type = "SrvFD" /\ msg.app = a /\ ~msg.success
      /\ msg.availCmpUnit = v.cmpUnitFree
  OBVIOUS
<1>3. n = SendOut(v, msg)
  BY DEF SendFailure
<1> HIDE DEF msg, n
<1>4. /\ n \in ServerRecord /\ n.out = Append(v.out, msg)
      /\ n.cmpUnitFree = v.cmpUnitFree /\ n.granted = v.granted
      /\ n.service = v.service /\ n.appsWaitMacInitFb = v.appsWaitMacInitFb
      /\ n.srvInInitVector = v.srvInInitVector /\ n.timeLeft = v.timeLeft
      /\ n.timer = v.timer /\ n.appsWaitStop = v.appsWaitStop /\ n.gnbId = v.gnbId
  BY <1>1, <1>3, SendOutFields
<1>5. n.out = <<msg>>
  BY <1>4
<1>6. NoNicGrant(n) /\ Honest(n) /\ SaysEnd(n, a)
  BY <1>2, <1>4, <1>5 DEF NoNicGrant, Honest, SaysEnd
<1> QED BY <1>4, <1>6 DEF n, OnlySent

\* a NicGrant leaves the rest as it was
LEMMA SendGrantFields ==
  ASSUME NEW v \in ServerRecord, v.out = <<>>, NEW a \in v.granted, NEW isStop \in BOOLEAN
  PROVE  LET n == SendGrant2OffloadingNic(v, a, isStop)
         IN  /\ n \in ServerRecord
             /\ \E msg \in NicGrant : /\ n.out = <<msg>> /\ msg.app = a /\ msg.stop = isStop
                                      /\ msg.offloadGnb = v.service[a].offloadGnb
             /\ n.cmpUnitFree = v.cmpUnitFree /\ n.granted = v.granted
             /\ n.service = v.service /\ n.appsWaitMacInitFb = v.appsWaitMacInitFb
             /\ n.srvInInitVector = v.srvInInitVector /\ n.timeLeft = v.timeLeft
             /\ n.timer = v.timer /\ n.appsWaitStop = v.appsWaitStop /\ n.gnbId = v.gnbId
<1> DEFINE srv == v.service[a]
           w   == Store(v, a, srv)
           msg == [type |-> "NicGrant", app |-> a, stop |-> isStop, bands |-> srv.bands,
                   load |-> srv.load, processGnb |-> srv.processGnb,
                   offloadGnb |-> srv.offloadGnb]
           n   == SendGrant2OffloadingNic(v, a, isStop)
<1>1. a \in Apps /\ srv \in Service /\ v.service \in [Apps -> Service]
  BY DEF ServerRecord
<1>2. msg \in NicGrant /\ msg \in Message
  BY <1>1 DEF NicGrant, Message, Service
<1>3. msg.app = a /\ msg.stop = isStop /\ msg.offloadGnb = v.service[a].offloadGnb
  OBVIOUS
<1>4. n = SendOut(w, msg)
  BY DEF SendGrant2OffloadingNic
<1>5. /\ w \in ServerRecord /\ w.granted = v.granted \cup {a}
      /\ w.service = [v.service EXCEPT ![a] = srv] /\ w.out = v.out
      /\ w.cmpUnitFree = v.cmpUnitFree /\ w.appsWaitMacInitFb = v.appsWaitMacInitFb
      /\ w.srvInInitVector = v.srvInInitVector /\ w.timeLeft = v.timeLeft
      /\ w.timer = v.timer /\ w.appsWaitStop = v.appsWaitStop /\ w.gnbId = v.gnbId
  <2> HIDE DEF srv
  <2> QED BY <1>1, StoreFields
<1>6. w.granted = v.granted /\ w.service = v.service
  <2>1. [v.service EXCEPT ![a] = srv] = v.service
    BY <1>1
  <2> QED BY <1>5, <2>1
<1> HIDE DEF msg, n, w, srv
<1>7. /\ n \in ServerRecord /\ n.out = Append(w.out, msg)
      /\ n.cmpUnitFree = w.cmpUnitFree /\ n.granted = w.granted
      /\ n.service = w.service /\ n.appsWaitMacInitFb = w.appsWaitMacInitFb
      /\ n.srvInInitVector = w.srvInInitVector /\ n.timeLeft = w.timeLeft
      /\ n.timer = w.timer /\ n.appsWaitStop = w.appsWaitStop /\ n.gnbId = w.gnbId
  BY <1>2, <1>4, <1>5, SendOutFields
<1>8. n.out = <<msg>>
  BY <1>5, <1>7
<1> QED BY <1>2, <1>3, <1>5, <1>6, <1>7, <1>8 DEF n

\* a start: refused, or queued
LEMMA InitializeServiceFine ==
  ASSUME NEW v, Fine(v), v.out = <<>>, NEW grant \in SrvGrant, grant.app \notin v.granted
  PROVE  LET n == InitializeService(v, grant)
         IN  /\ Fine(n) /\ RunningIn(n) = RunningIn(v) /\ GnbsKept(v, n)
             /\ NoNicGrant(n) /\ Honest(n)
             /\ v.granted \subseteq n.granted /\ n.appsWaitStop = v.appsWaitStop
<1> DEFINE a   == grant.app
           srv == [processGnb |-> grant.processGnb, offloadGnb |-> grant.offloadGnb,
                   cmpUnits |-> grant.cmpUnits, bands |-> grant.bands, load |-> grant.load,
                   initComplete |-> FALSE]
           n   == InitializeService(v, grant)
<1>1. /\ a \in Apps /\ grant.processGnb \in Gnbs \cup {NoGnb}
      /\ grant.offloadGnb \in Gnbs \cup {NoGnb} /\ grant.initTime \in Nat
      /\ srv \in Service /\ ~srv.initComplete
  BY DEF SrvGrant, Service
<1>2. v \in ServerRecord /\ WaitsOk(v) /\ v.granted \subseteq Apps
  BY DEF Fine, ServerRecord
<1>3. ASSUME NEW w, n = Erase(w, a),
             \/ w = SendFailure(v, a, grant.processGnb, grant.offloadGnb, FALSE)
             \/ w = SendFailure(v, a, grant.processGnb, grant.offloadGnb, TRUE)
      PROVE  /\ Fine(n) /\ RunningIn(n) = RunningIn(v) /\ GnbsKept(v, n)
             /\ NoNicGrant(n) /\ Honest(n)
             /\ v.granted \subseteq n.granted /\ n.appsWaitStop = v.appsWaitStop
  <2> HIDE DEF n, srv, a
  <2>1. /\ w \in ServerRecord /\ NoNicGrant(w) /\ Honest(w) /\ SaysEnd(w, a)
        /\ w.cmpUnitFree = v.cmpUnitFree /\ w.granted = v.granted
        /\ w.service = v.service /\ w.appsWaitMacInitFb = v.appsWaitMacInitFb
        /\ w.srvInInitVector = v.srvInInitVector /\ w.timeLeft = v.timeLeft
        /\ w.timer = v.timer /\ w.appsWaitStop = v.appsWaitStop /\ w.gnbId = v.gnbId
    <3>1. w \in ServerRecord /\ NoNicGrant(w) /\ Honest(w) /\ SaysEnd(w, a) /\ OnlySent(v, w)
      <4> HIDE DEF SendFailure, OnlySent, Honest, NoNicGrant, SaysEnd, ServerRecord
      <4> DEFINE p == grant.processGnb
                 o == grant.offloadGnb
      <4>1. p \in Gnbs \cup {NoGnb} /\ o \in Gnbs \cup {NoGnb} /\ a \in Apps
        BY <1>1
      <4>2. w = SendFailure(v, a, p, o, FALSE) \/ w = SendFailure(v, a, p, o, TRUE)
        BY <1>3
      <4> HIDE DEF p, o
      <4>3. CASE w = SendFailure(v, a, p, o, FALSE)
        BY <1>2, <4>1, <4>3, SendFailureFields
      <4>4. CASE w = SendFailure(v, a, p, o, TRUE)
        BY <1>2, <4>1, <4>4, SendFailureFields
      <4> QED BY <4>2, <4>3, <4>4
    <3> QED BY <3>1 DEF OnlySent
  <2>2. /\ n \in ServerRecord /\ n.granted = w.granted \ {a}
        /\ n.service = [w.service EXCEPT ![a] = DefaultService] /\ n.out = w.out
        /\ n.cmpUnitFree = w.cmpUnitFree /\ n.appsWaitMacInitFb = w.appsWaitMacInitFb
        /\ n.srvInInitVector = w.srvInInitVector /\ n.timeLeft = w.timeLeft
        /\ n.timer = w.timer /\ n.appsWaitStop = w.appsWaitStop /\ n.gnbId = w.gnbId
    BY <1>1, <1>3, <2>1, EraseFields
  <2>3. n.granted = v.granted /\ a \notin v.granted
    BY <2>1, <2>2 DEF a
  <2>4. \A b \in v.granted : n.service[b] = v.service[b]
    <3>1. v.service \in [Apps -> Service]
      BY <1>2 DEF ServerRecord
    <3> QED BY <1>2, <2>1, <2>2, <2>3, <3>1
  <2>5. n.appsWaitStop \subseteq InitializingIn(v)
    BY <1>2, <2>1, <2>2 DEF WaitsOk
  <2>6. Fine(n) /\ RunningIn(n) = RunningIn(v)
    BY <2>1, <2>2, <2>3, <2>4, <2>5, FineKept
  <2>7. GnbsKept(v, n)
    BY <2>4 DEF GnbsKept, RunningIn
  <2>8. NoNicGrant(n) /\ Honest(n)
    BY <2>1, <2>2 DEF NoNicGrant, Honest
  <2> QED BY <2>1, <2>2, <2>3, <2>6, <2>7, <2>8
<1>4. ASSUME n = Enqueue(Store(v, a, srv), a, grant.initTime)
      PROVE  /\ Fine(n) /\ RunningIn(n) = RunningIn(v) /\ GnbsKept(v, n)
             /\ NoNicGrant(n) /\ Honest(n)
             /\ v.granted \subseteq n.granted /\ n.appsWaitStop = v.appsWaitStop
  <2>0. a \notin v.granted
    OBVIOUS
  <2> HIDE DEF n, srv, a
  <2>1. /\ Fine(n) /\ RunningIn(n) = RunningIn(v) /\ n.out = v.out
        /\ n.granted = v.granted \cup {a} /\ n.appsWaitStop = v.appsWaitStop
        /\ n.service = [v.service EXCEPT ![a] = srv]
    BY <1>1, <1>4, <2>0, EnqueueFine
  <2>2. GnbsKept(v, n)
    <3>1. v.service \in [Apps -> Service]
      BY <1>2 DEF ServerRecord
    <3> QED BY <1>2, <2>0, <2>1, <3>1 DEF GnbsKept, RunningIn
  <2>3. NoNicGrant(n) /\ Honest(n)
    BY <2>1 DEF NoNicGrant, Honest
  <2> QED BY <2>1, <2>2, <2>3
<1> QED BY <1>3, <1>4 DEF InitializeService

\* the timer takes the first service of the queue
LEMMA DequeueFields ==
  ASSUME NEW v, Fine(v), v.srvInInitVector # <<>>
  PROVE  LET n == Dequeue(v)
             a == Head(v.srvInInitVector)
         IN  /\ a \in InitializingIn(v) /\ n \in ServerRecord
             /\ n.srvInInitVector = Tail(v.srvInInitVector)
             /\ n.timeLeft = [v.timeLeft EXCEPT ![a] = 0]
             /\ n.timer = (IF Tail(v.srvInInitVector) = <<>> THEN NoTimer
                           ELSE v.timeLeft[Tail(v.srvInInitVector)[1]])
             /\ n.out = v.out /\ n.granted = v.granted /\ n.service = v.service
             /\ n.cmpUnitFree = v.cmpUnitFree /\ n.appsWaitMacInitFb = v.appsWaitMacInitFb
             /\ n.appsWaitStop = v.appsWaitStop
<1> DEFINE q    == v.srvInInitVector
           a    == Head(q)
           rest == Tail(q)
           left == [v.timeLeft EXCEPT ![a] = 0]
           next == IF rest = <<>> THEN NoTimer ELSE v.timeLeft[rest[1]]
           n    == Dequeue(v)
<1>1. v \in ServerRecord /\ q \in Seq(Apps) /\ v.timeLeft \in [Apps -> Nat]
  BY DEF Fine, ServerRecord
<1>2. /\ rest \in Seq(Apps) /\ a = q[1] /\ 1 \in DOMAIN q /\ a \in Apps
      /\ rest # <<>> => rest[1] \in Apps
  <2>1. q # <<>>
    OBVIOUS
  <2> HIDE DEF q
  <2> QED BY <1>1, <2>1
<1>3. a \in InitializingIn(v)
  BY <1>2 DEF Fine, QueueOk
<1>4. left \in [Apps -> Nat] /\ next \in Nat \cup {NoTimer}
  BY <1>1, <1>2
<1>5. n = [v EXCEPT !.srvInInitVector = rest, !.timeLeft = left, !.timer = next]
  BY <1>1 DEF Dequeue, ServerRecord
<1> HIDE DEF rest, left, next, n, a
<1>6. /\ n \in ServerRecord /\ n.srvInInitVector = rest /\ n.timeLeft = left
      /\ n.timer = next /\ n.out = v.out /\ n.granted = v.granted /\ n.service = v.service
      /\ n.cmpUnitFree = v.cmpUnitFree /\ n.appsWaitMacInitFb = v.appsWaitMacInitFb
      /\ n.appsWaitStop = v.appsWaitStop
  BY <1>1, <1>2, <1>4, <1>5 DEF ServerRecord
<1> QED BY <1>3, <1>6 DEF n, rest, left, next, a

\* the queue without the service that is not initializing any more
LEMMA QueueShorter ==
  ASSUME NEW v, Fine(v), v.srvInInitVector # <<>>, NEW n \in ServerRecord,
         InitializingIn(n) = InitializingIn(v) \ {Head(v.srvInInitVector)},
         n.srvInInitVector = Tail(v.srvInInitVector),
         n.timeLeft = [v.timeLeft EXCEPT ![Head(v.srvInInitVector)] = 0],
         n.timer = (IF Tail(v.srvInInitVector) = <<>> THEN NoTimer
                    ELSE v.timeLeft[Tail(v.srvInInitVector)[1]])
  PROVE  QueueOk(n)
<1> DEFINE q    == v.srvInInitVector
           rest == Tail(q)
<1>1. q \in Seq(Apps) /\ v.timeLeft \in [Apps -> Nat] /\ q # <<>>
  BY DEF Fine, ServerRecord
<1>2. /\ \A i \in DOMAIN q : q[i] \in InitializingIn(v)
      /\ \A a \in InitializingIn(v) : \E i \in DOMAIN q : q[i] = a
      /\ \A i, j \in DOMAIN q : q[i] = q[j] => i = j
      /\ \A i, j \in DOMAIN q : i < j => v.timeLeft[q[i]] <= v.timeLeft[q[j]]
  BY DEF Fine, QueueOk
<1>3. /\ rest \in Seq(Apps) /\ Head(q) = q[1] /\ 1 \in DOMAIN q
      /\ DOMAIN q = 1 .. Len(q) /\ DOMAIN rest = 1 .. Len(q) - 1 /\ Len(q) \in Nat
      /\ \A i \in DOMAIN rest : i + 1 \in DOMAIN q /\ rest[i] = q[i + 1] /\ rest[i] \in Apps
  <2> HIDE DEF q
  <2> QED BY <1>1
<1>4. n.srvInInitVector = rest
  OBVIOUS
<1> HIDE DEF q, rest
<1>5. ASSUME NEW i \in DOMAIN rest
      PROVE  rest[i] # q[1] /\ rest[i] \in InitializingIn(v)
  <2>1. i + 1 \in DOMAIN q /\ rest[i] = q[i + 1] /\ i + 1 # 1 /\ 1 \in DOMAIN q
    BY <1>3
  <2> QED BY <2>1, <1>2
<1>6. \A i \in DOMAIN rest : n.timeLeft[rest[i]] = v.timeLeft[rest[i]]
  BY <1>1, <1>3, <1>5 DEF q
<1>7. ASSUME NEW a \in InitializingIn(n) PROVE \E i \in DOMAIN rest : rest[i] = a
  <2>1. a \in InitializingIn(v) /\ a # q[1]
    BY <1>3 DEF q
  <2>2. PICK i \in DOMAIN q : q[i] = a
    BY <1>2, <2>1
  <2>3. i # 1 /\ i - 1 \in DOMAIN rest /\ (i - 1) + 1 = i
    BY <1>3, <2>1, <2>2
  <2> QED BY <1>3, <2>2, <2>3
<1>8. \A i \in DOMAIN rest : rest[i] \in InitializingIn(n)
  BY <1>3, <1>5 DEF q
<1>9. ASSUME NEW i \in DOMAIN rest, NEW j \in DOMAIN rest
      PROVE  /\ rest[i] = rest[j] => i = j
             /\ i < j => n.timeLeft[rest[i]] <= n.timeLeft[rest[j]]
  <2>1. i \in Nat /\ j \in Nat
    BY <1>3
  <2> QED BY <2>1, <1>2, <1>3, <1>6, SMTT(30)
<1>10. n.timer = IF rest = <<>> THEN NoTimer ELSE n.timeLeft[rest[1]]
  <2>1. rest # <<>> => 1 \in DOMAIN rest
    BY <1>3
  <2> QED BY <2>1, <1>6 DEF q, rest
<1> QED BY <1>4, <1>7, <1>8, <1>9, <1>10 DEF QueueOk

\* a service ends its initialization, to be carried or to be forgotten
LEMMA InitCompleteFine ==
  ASSUME NEW v, Fine(v), v.out = <<>>, v.srvInInitVector # <<>>
  PROVE  LET n == HandleServiceInitComplete(v)
             a == Head(v.srvInInitVector)
         IN  /\ Fine(n) /\ GnbsKept(v, n) /\ Honest(n) /\ a \in Apps /\ a \notin RunningIn(v)
             /\ n.appsWaitStop \subseteq v.appsWaitStop
             /\ \/ /\ RunningIn(n) = RunningIn(v) /\ NoNicGrant(n)
                   /\ v.granted \ n.granted \subseteq v.appsWaitStop
                \/ /\ RunningIn(n) = RunningIn(v) \cup {a} /\ v.granted = n.granted
                   /\ \E msg \in NicGrant : /\ n.out = <<msg>> /\ msg.app = a /\ ~msg.stop
                                            /\ msg.offloadGnb = n.service[a].offloadGnb
<1> DEFINE q == v.srvInInitVector
           a == Head(q)
           r == Dequeue(v)
           n == HandleServiceInitComplete(v)
<1>1. /\ a \in InitializingIn(v) /\ r \in ServerRecord
      /\ r.srvInInitVector = Tail(v.srvInInitVector)
      /\ r.timeLeft = [v.timeLeft EXCEPT ![a] = 0]
      /\ r.timer = (IF Tail(v.srvInInitVector) = <<>> THEN NoTimer
                    ELSE v.timeLeft[Tail(v.srvInInitVector)[1]])
      /\ r.out = v.out /\ r.granted = v.granted /\ r.service = v.service
      /\ r.cmpUnitFree = v.cmpUnitFree /\ r.appsWaitMacInitFb = v.appsWaitMacInitFb
      /\ r.appsWaitStop = v.appsWaitStop
  BY DequeueFields
<1>2. /\ v \in ServerRecord /\ WaitsOk(v) /\ UnitsOk(v) /\ v.granted \subseteq Apps
      /\ v.service \in [Apps -> Service] /\ v.appsWaitStop \subseteq Apps
      /\ v.appsWaitMacInitFb \subseteq Apps
  BY DEF Fine, ServerRecord
<1>3. a \in Apps /\ a \in v.granted /\ a \notin RunningIn(v) /\ a \notin v.appsWaitMacInitFb
  BY <1>1, <1>2 DEF InitializingIn, RunningIn, WaitsOk
<1>4. ASSUME NEW m \in ServerRecord, \A b \in Apps : b # a => Cost(m)[b] = Cost(v)[b],
             Cost(m)[a] = 0, m.cmpUnitFree = v.cmpUnitFree
      PROVE  UnitsOk(m)
  <2>1. Cost(v)[a] = 0 /\ v.cmpUnitFree \in Int
    BY <1>2, <1>3 DEF Cost, ServerRecord
  <2> HIDE DEF Cost
  <2> QED BY <1>2, <1>3, <1>4, <2>1, AccountKept
<1>5. CASE a \in r.appsWaitStop
  <2> DEFINE e    == Erase(r, a)
             wait == r.appsWaitStop \ {a}
  <2>1. n = [e EXCEPT !.appsWaitStop = wait]
    <3>1. e.appsWaitStop = r.appsWaitStop
      BY <1>1, <1>3, EraseFields
    <3> QED BY <3>1, <1>5 DEF HandleServiceInitComplete
  <2> HIDE DEF n, r, a, q
  <2>2. /\ e \in ServerRecord /\ e.granted = r.granted \ {a}
        /\ e.service = [r.service EXCEPT ![a] = DefaultService] /\ e.out = r.out
        /\ e.cmpUnitFree = r.cmpUnitFree /\ e.appsWaitMacInitFb = r.appsWaitMacInitFb
        /\ e.srvInInitVector = r.srvInInitVector /\ e.timeLeft = r.timeLeft
        /\ e.timer = r.timer /\ e.appsWaitStop = r.appsWaitStop /\ e.gnbId = r.gnbId
    BY <1>1, <1>3, EraseFields
  <2>3. wait \in SUBSET Apps
    BY <1>1, <1>2
  <2> HIDE DEF e, wait
  <2>4. /\ n \in ServerRecord /\ n.appsWaitStop = wait /\ n.granted = e.granted
        /\ n.service = e.service /\ n.out = e.out /\ n.cmpUnitFree = e.cmpUnitFree
        /\ n.appsWaitMacInitFb = e.appsWaitMacInitFb /\ n.srvInInitVector = e.srvInInitVector
        /\ n.timeLeft = e.timeLeft /\ n.timer = e.timer
    BY <2>1, <2>2, <2>3 DEF ServerRecord
  <2>5. /\ n.granted = v.granted \ {a}
        /\ \A b \in Apps : b # a => n.service[b] = v.service[b]
    BY <1>1, <1>2, <2>2, <2>4
  <2>6. InitializingIn(n) = InitializingIn(v) \ {a} /\ RunningIn(n) = RunningIn(v)
    BY <1>2, <1>3, <2>5 DEF InitializingIn, RunningIn
  <2>7. QueueOk(n)
    <3>1. /\ n.srvInInitVector = Tail(v.srvInInitVector)
          /\ n.timeLeft = [v.timeLeft EXCEPT ![a] = 0]
          /\ n.timer = (IF Tail(v.srvInInitVector) = <<>> THEN NoTimer
                        ELSE v.timeLeft[Tail(v.srvInInitVector)[1]])
      BY <1>1, <2>2, <2>4
    <3> HIDE DEF QueueOk
    <3> QED BY <3>1, <2>4, <2>6, QueueShorter DEF a, q
  <2>8. WaitsOk(n)
    BY <1>1, <1>2, <2>2, <2>4, <2>6 DEF WaitsOk, wait
  <2>9. UnitsOk(n)
    <3>1. \A b \in Apps : b # a => Cost(n)[b] = Cost(v)[b]
      BY <1>1, <2>2, <2>4, <2>5, <2>6 DEF Cost
    <3>2. Cost(n)[a] = 0
      BY <1>3, <2>6 DEF Cost
    <3> HIDE DEF Cost
    <3> QED BY <3>1, <3>2, <1>1, <1>4, <2>2, <2>4
  <2>10. GnbsKept(v, n)
    BY <1>2, <1>3, <2>5 DEF GnbsKept, RunningIn
  <2>11. NoNicGrant(n) /\ Honest(n)
    BY <1>1, <2>2, <2>4 DEF NoNicGrant, Honest
  <2>12. Fine(n)
    BY <2>4, <2>7, <2>8, <2>9 DEF Fine
  <2>13. n.appsWaitStop \subseteq v.appsWaitStop /\ v.granted \ n.granted \subseteq v.appsWaitStop
    BY <1>1, <1>5, <2>4, <2>5 DEF wait
  <2> QED BY <1>3, <2>6, <2>10, <2>11, <2>12, <2>13 DEF n, a, q
<1>6. CASE a \notin r.appsWaitStop
  <2> DEFINE srv   == [r.service[a] EXCEPT !.initComplete = TRUE]
             ready == Store(r, a, srv)
             g     == SendGrant2OffloadingNic(ready, a, FALSE)
             wait  == r.appsWaitMacInitFb \cup {a}
  <2>1. /\ srv \in Service /\ srv.initComplete
        /\ srv.offloadGnb = v.service[a].offloadGnb
    <3>1. r.service[a] = v.service[a] /\ v.service[a] \in Service
      BY <1>1, <1>2, <1>3
    <3> QED BY <3>1 DEF Service
  <2> HIDE DEF r, a, q, srv
  <2>2. /\ ready \in ServerRecord /\ ready.granted = r.granted \cup {a}
        /\ ready.service = [r.service EXCEPT ![a] = srv] /\ ready.out = r.out
        /\ ready.cmpUnitFree = r.cmpUnitFree /\ ready.appsWaitMacInitFb = r.appsWaitMacInitFb
        /\ ready.srvInInitVector = r.srvInInitVector /\ ready.timeLeft = r.timeLeft
        /\ ready.timer = r.timer /\ ready.appsWaitStop = r.appsWaitStop
        /\ ready.gnbId = r.gnbId
    BY <1>1, <1>3, <2>1, StoreFields
  <2>3. a \in ready.granted /\ ready.out = <<>> /\ ready.service[a] = srv
    BY <1>1, <1>2, <1>3, <2>2
  <2> HIDE DEF ready
  <2>4. /\ g \in ServerRecord
        /\ \E msg \in NicGrant : /\ g.out = <<msg>> /\ msg.app = a /\ msg.stop = FALSE
                                 /\ msg.offloadGnb = ready.service[a].offloadGnb
        /\ g.cmpUnitFree = ready.cmpUnitFree /\ g.granted = ready.granted
        /\ g.service = ready.service /\ g.appsWaitMacInitFb = ready.appsWaitMacInitFb
        /\ g.srvInInitVector = ready.srvInInitVector /\ g.timeLeft = ready.timeLeft
        /\ g.timer = ready.timer /\ g.appsWaitStop = ready.appsWaitStop
        /\ g.gnbId = ready.gnbId
    BY <2>2, <2>3, SendGrantFields, ZenonT(60)
  <2>5. n = [g EXCEPT !.appsWaitMacInitFb = wait]
    <3>1. g.appsWaitMacInitFb = r.appsWaitMacInitFb
      BY <2>2, <2>4
    <3> HIDE DEF g
    <3> QED BY <3>1, <1>6 DEF HandleServiceInitComplete, g, ready, srv, r, a, q
  <2>6. wait \in SUBSET Apps
    BY <1>1, <1>2, <1>3
  <2> HIDE DEF g, wait, n
  <2>7. /\ n \in ServerRecord /\ n.appsWaitMacInitFb = wait /\ n.granted = g.granted
        /\ n.service = g.service /\ n.out = g.out /\ n.cmpUnitFree = g.cmpUnitFree
        /\ n.appsWaitStop = g.appsWaitStop /\ n.srvInInitVector = g.srvInInitVector
        /\ n.timeLeft = g.timeLeft /\ n.timer = g.timer
    BY <2>4, <2>5, <2>6 DEF ServerRecord
  <2>8. /\ n.granted = v.granted
        /\ n.service[a] = srv
        /\ \A b \in Apps : b # a => n.service[b] = v.service[b]
    BY <1>1, <1>2, <1>3, <2>2, <2>3, <2>4, <2>7
  <2>9. InitializingIn(n) = InitializingIn(v) \ {a} /\ RunningIn(n) = RunningIn(v) \cup {a}
    BY <1>2, <1>3, <2>1, <2>8 DEF InitializingIn, RunningIn
  <2>10. QueueOk(n)
    <3>1. /\ n.srvInInitVector = Tail(v.srvInInitVector)
          /\ n.timeLeft = [v.timeLeft EXCEPT ![a] = 0]
          /\ n.timer = (IF Tail(v.srvInInitVector) = <<>> THEN NoTimer
                        ELSE v.timeLeft[Tail(v.srvInInitVector)[1]])
      BY <1>1, <2>2, <2>4, <2>7
    <3> HIDE DEF QueueOk
    <3> QED BY <3>1, <2>7, <2>9, QueueShorter DEF a, q
  <2>11. n.appsWaitStop = v.appsWaitStop /\ a \notin v.appsWaitStop
    BY <1>1, <1>6, <2>2, <2>4, <2>7
  <2>12. WaitsOk(n)
    BY <1>1, <1>2, <2>7, <2>9, <2>11 DEF WaitsOk, wait
  <2>13. UnitsOk(n)
    <3>1. \A b \in Apps : b # a => Cost(n)[b] = Cost(v)[b]
      BY <1>1, <2>7, <2>8, <2>9 DEF Cost, wait
    <3>2. Cost(n)[a] = 0
      BY <1>3, <2>7 DEF Cost, wait
    <3> HIDE DEF Cost
    <3> QED BY <3>1, <3>2, <1>1, <1>4, <2>2, <2>4, <2>7
  <2>14. GnbsKept(v, n)
    BY <1>2, <1>3, <2>8 DEF GnbsKept, RunningIn
  <2>15. PICK msg \in NicGrant : /\ n.out = <<msg>> /\ msg.app = a /\ ~msg.stop
                                 /\ msg.offloadGnb = n.service[a].offloadGnb
    BY <2>3, <2>4, <2>7, <2>8
  <2>16. Honest(n)
    BY <2>15 DEF Honest, NicGrant
  <2>17. Fine(n)
    BY <2>7, <2>10, <2>12, <2>13 DEF Fine
  <2> QED BY <1>3, <2>8, <2>9, <2>11, <2>14, <2>15, <2>16, <2>17 DEF n, a, q
<1> QED BY <1>5, <1>6

\* a stop: sent on, or remembered
LEMMA StopServiceFine ==
  ASSUME NEW v, Fine(v), v.out = <<>>, NEW a \in v.granted
  PROVE  LET n == StopService(v, a)
         IN  /\ Fine(n) /\ RunningIn(n) = RunningIn(v) /\ GnbsKept(v, n) /\ Honest(n)
             /\ n.granted = v.granted
             /\ \/ /\ n.appsWaitStop = v.appsWaitStop
                   /\ \E msg \in NicGrant : /\ n.out = <<msg>> /\ msg.stop
                                            /\ msg.offloadGnb = v.service[a].offloadGnb
                \/ n.appsWaitStop = v.appsWaitStop \cup {a} /\ NoNicGrant(n) /\ SaysEnd(n, a)
<1> DEFINE n == StopService(v, a)
<1>1. /\ v \in ServerRecord /\ WaitsOk(v) /\ a \in Apps /\ v.service[a] \in Service
      /\ v.appsWaitStop \subseteq Apps
  BY DEF Fine, ServerRecord
<1>2. CASE v.service[a].initComplete
  <2>1. n = SendGrant2OffloadingNic(v, a, TRUE)
    BY <1>2 DEF StopService
  <2> HIDE DEF n
  <2>2. /\ n \in ServerRecord
        /\ \E msg \in NicGrant : /\ n.out = <<msg>> /\ msg.app = a /\ msg.stop = TRUE
                                 /\ msg.offloadGnb = v.service[a].offloadGnb
        /\ n.cmpUnitFree = v.cmpUnitFree /\ n.granted = v.granted
        /\ n.service = v.service /\ n.appsWaitMacInitFb = v.appsWaitMacInitFb
        /\ n.srvInInitVector = v.srvInInitVector /\ n.timeLeft = v.timeLeft
        /\ n.timer = v.timer /\ n.appsWaitStop = v.appsWaitStop /\ n.gnbId = v.gnbId
    <3> DEFINE stop == TRUE
    <3>1. stop \in BOOLEAN /\ n = SendGrant2OffloadingNic(v, a, stop)
      BY <2>1
    <3> HIDE DEF stop
    <3>2. \E msg \in NicGrant : /\ n.out = <<msg>> /\ msg.app = a /\ msg.stop = stop
                                /\ msg.offloadGnb = v.service[a].offloadGnb
      BY <1>1, <3>1, SendGrantFields
    <3>3. /\ n \in ServerRecord /\ OnlySent(v, n)
      BY <1>1, <3>1, SendGrantFields DEF OnlySent
    <3> QED BY <3>2, <3>3 DEF stop, OnlySent
  <2>3. n.appsWaitStop \subseteq InitializingIn(v)
    BY <1>1, <2>2 DEF WaitsOk
  <2>4. Fine(n) /\ RunningIn(n) = RunningIn(v)
    BY <2>2, <2>3, FineKept
  <2>5. GnbsKept(v, n)
    BY <2>2 DEF GnbsKept
  <2>6. Honest(n)
    BY <2>2 DEF Honest, NicGrant
  <2>7. \E msg \in NicGrant : /\ n.out = <<msg>> /\ msg.stop
                              /\ msg.offloadGnb = v.service[a].offloadGnb
    BY <2>2
  <2> QED BY <2>2, <2>4, <2>5, <2>6, <2>7 DEF n
<1>3. CASE ~v.service[a].initComplete
  <2> DEFINE p    == v.service[a].processGnb
             o    == v.service[a].offloadGnb
             w    == SendFailure(v, a, p, o, FALSE)
             wait == w.appsWaitStop \cup {a}
  <2>1. n = [w EXCEPT !.appsWaitStop = wait]
    BY <1>3 DEF StopService
  <2>2. p \in Gnbs \cup {NoGnb} /\ o \in Gnbs \cup {NoGnb}
    BY <1>1 DEF Service
  <2> HIDE DEF p, o, n
  <2>3. w \in ServerRecord /\ NoNicGrant(w) /\ Honest(w) /\ SaysEnd(w, a) /\ OnlySent(v, w)
    BY <1>1, <2>2, SendFailureFields
  <2>4. wait \in SUBSET Apps /\ wait = v.appsWaitStop \cup {a}
    BY <1>1, <2>3 DEF OnlySent
  <2> HIDE DEF w, wait
  <2>5. /\ n \in ServerRecord /\ n.appsWaitStop = wait /\ n.granted = w.granted
        /\ n.service = w.service /\ n.out = w.out /\ n.cmpUnitFree = w.cmpUnitFree
        /\ n.appsWaitMacInitFb = w.appsWaitMacInitFb /\ n.srvInInitVector = w.srvInInitVector
        /\ n.timeLeft = w.timeLeft /\ n.timer = w.timer
    BY <2>1, <2>3, <2>4 DEF ServerRecord
  <2>6. n.appsWaitStop \subseteq InitializingIn(v)
    BY <1>1, <1>3, <2>4, <2>5 DEF WaitsOk, InitializingIn
  <2>7. Fine(n) /\ RunningIn(n) = RunningIn(v)
    BY <2>3, <2>5, <2>6, FineKept DEF OnlySent
  <2>8. GnbsKept(v, n)
    BY <2>3, <2>5 DEF GnbsKept, OnlySent
  <2>9. NoNicGrant(n) /\ Honest(n) /\ SaysEnd(n, a)
    BY <2>3, <2>5 DEF NoNicGrant, Honest, SaysEnd
  <2> QED BY <2>3, <2>4, <2>5, <2>7, <2>8, <2>9 DEF n, OnlySent
<1> QED BY <1>2, <1>3

\* a report of a MAC on a service that runs
LEMMA ServiceFeedbackFine ==
  ASSUME NEW v, Fine(v), v.out = <<>>, NEW fd \in MacReport, fd.app \in RunningIn(v)
  PROVE  LET n == HandleServiceFeedback(v, fd)
         IN  /\ Fine(n) /\ GnbsKept(v, n) /\ NoNicGrant(n) /\ Honest(n)
             /\ n.appsWaitStop = v.appsWaitStop
             /\ IF fd.success THEN RunningIn(n) = RunningIn(v) /\ n.granted = v.granted
                ELSE /\ RunningIn(n) = RunningIn(v) \ {fd.app}
                     /\ n.granted = v.granted \ {fd.app} /\ SaysEnd(n, fd.app)
<1> DEFINE a       == fd.app
           waits   == a \in v.appsWaitMacInitFb
           wait    == v.appsWaitMacInitFb \ {a}
           units   == v.service[a].cmpUnits
           settled == [v EXCEPT !.appsWaitMacInitFb = wait]
           srv     == [v.service[a] EXCEPT !.bands = fd.usedBand]
           running == Store(settled, a, srv)
           less    == v.cmpUnitFree - units
           more    == v.cmpUnitFree + units
           charged == [running EXCEPT !.cmpUnitFree = less]
           freed   == [settled EXCEPT !.cmpUnitFree = more]
           m       == IF fd.success THEN (IF waits THEN charged ELSE running)
                      ELSE Erase(IF waits THEN settled ELSE freed, a)
           msg     == [type |-> "SrvFD", app |-> a, success |-> fd.success,
                       processGnb |-> fd.processGnb, offloadGnb |-> fd.offloadGnb,
                       dated |-> TRUE, availCmpUnit |-> m.cmpUnitFree, grantedBand |-> 0]
           n       == HandleServiceFeedback(v, fd)
<1>1. /\ v \in ServerRecord /\ WaitsOk(v) /\ UnitsOk(v) /\ a \in Apps /\ a \in v.granted
      /\ v.service[a] \in Service /\ v.service \in [Apps -> Service] /\ v.granted \subseteq Apps
      /\ v.appsWaitMacInitFb \in SUBSET Apps /\ v.appsWaitStop \subseteq Apps
      /\ v.cmpUnitFree \in Int /\ units \in Nat /\ v.service[a].initComplete
  BY DEF Fine, ServerRecord, RunningIn, Service
<1>2. /\ fd.success \in BOOLEAN /\ fd.processGnb \in Gnbs /\ fd.offloadGnb \in Gnbs
      /\ fd.usedBand \in Nat
  BY ServerAssumption DEF MacReport
<1>3. /\ srv \in Service /\ srv.initComplete
      /\ srv.offloadGnb = v.service[a].offloadGnb /\ srv.cmpUnits = units
  BY <1>1, <1>2 DEF Service
<1>4. n = SendOut(m, msg)
  <2>1. /\ running.cmpUnitFree = v.cmpUnitFree /\ settled.cmpUnitFree = v.cmpUnitFree
    BY <1>1 DEF Store, ServerRecord
  <2>2. n = Forward(m, fd)
    <3> HIDE DEF running, settled
    <3>1. charged = [running EXCEPT !.cmpUnitFree = @ - v.service[a].cmpUnits]
      BY <2>1
    <3>2. freed = [settled EXCEPT !.cmpUnitFree = @ + v.service[a].cmpUnits]
      BY <2>1
    <3> HIDE DEF charged, freed
    <3>3. CASE fd.success
      BY <3>1, <3>3 DEF HandleServiceFeedback, settled, running
    <3>4. CASE ~fd.success
      BY <3>2, <3>4 DEF HandleServiceFeedback, settled
    <3> QED BY <3>3, <3>4
  <2> HIDE DEF m
  <2> QED BY <2>2 DEF Forward
<1>5. wait \in SUBSET Apps /\ less \in Int /\ more \in Int
  BY <1>1
<1> HIDE DEF a, units, srv, less, more, wait, n
<1>6. /\ settled \in ServerRecord /\ settled.appsWaitMacInitFb = wait
      /\ settled.granted = v.granted /\ settled.service = v.service /\ settled.out = v.out
      /\ settled.cmpUnitFree = v.cmpUnitFree /\ settled.appsWaitStop = v.appsWaitStop
      /\ settled.srvInInitVector = v.srvInInitVector
      /\ settled.timeLeft = v.timeLeft /\ settled.timer = v.timer
  BY <1>1, <1>5 DEF ServerRecord
<1> HIDE DEF settled
<1>7. /\ freed \in ServerRecord /\ freed.appsWaitMacInitFb = wait
      /\ freed.granted = v.granted /\ freed.service = v.service /\ freed.out = v.out
      /\ freed.cmpUnitFree = more /\ freed.appsWaitStop = v.appsWaitStop
      /\ freed.srvInInitVector = v.srvInInitVector
      /\ freed.timeLeft = v.timeLeft /\ freed.timer = v.timer
  BY <1>5, <1>6 DEF ServerRecord
<1>8. /\ running \in ServerRecord /\ running.granted = settled.granted \cup {a}
      /\ running.service = [settled.service EXCEPT ![a] = srv] /\ running.out = settled.out
      /\ running.cmpUnitFree = settled.cmpUnitFree
      /\ running.appsWaitMacInitFb = settled.appsWaitMacInitFb
      /\ running.srvInInitVector = settled.srvInInitVector
      /\ running.timeLeft = settled.timeLeft /\ running.timer = settled.timer
      /\ running.appsWaitStop = settled.appsWaitStop /\ running.gnbId = settled.gnbId
  BY <1>1, <1>3, <1>6, StoreFields
<1> HIDE DEF freed, running
<1>9. /\ charged \in ServerRecord /\ charged.granted = running.granted
      /\ charged.service = running.service /\ charged.out = running.out
      /\ charged.cmpUnitFree = less /\ charged.appsWaitMacInitFb = wait
      /\ charged.srvInInitVector = running.srvInInitVector
      /\ charged.timeLeft = running.timeLeft /\ charged.timer = running.timer
      /\ charged.appsWaitStop = running.appsWaitStop
  BY <1>5, <1>6, <1>8 DEF ServerRecord
<1> HIDE DEF charged
<1>10. /\ m \in ServerRecord /\ m.out = v.out /\ m.appsWaitMacInitFb = wait
       /\ m.srvInInitVector = v.srvInInitVector /\ m.timeLeft = v.timeLeft
       /\ m.timer = v.timer /\ m.appsWaitStop = v.appsWaitStop
       /\ \A b \in Apps : b # a => m.service[b] = v.service[b]
       /\ m.granted = (IF fd.success THEN v.granted ELSE v.granted \ {a})
       /\ fd.success => m.service[a] = srv
       /\ m.cmpUnitFree = (IF fd.success THEN (IF waits THEN less ELSE v.cmpUnitFree)
                           ELSE (IF waits THEN v.cmpUnitFree ELSE more))
  <2>1. CASE fd.success
    <3> DEFINE w == IF waits THEN charged ELSE running
    <3>1. m = w
      BY <2>1
    <3>2. /\ w \in ServerRecord /\ w.appsWaitMacInitFb = wait
          /\ w.granted = running.granted /\ w.service = running.service
          /\ w.out = v.out /\ w.cmpUnitFree = (IF waits THEN less ELSE v.cmpUnitFree)
          /\ w.appsWaitStop = v.appsWaitStop /\ w.srvInInitVector = v.srvInInitVector
          /\ w.timeLeft = v.timeLeft /\ w.timer = v.timer
      BY <1>6, <1>8, <1>9
    <3> HIDE DEF w, m, waits
    <3> QED BY <1>1, <1>6, <1>8, <2>1, <3>1, <3>2
  <2>2. CASE ~fd.success
    <3> DEFINE w == IF waits THEN settled ELSE freed
    <3>1. /\ w \in ServerRecord /\ w.appsWaitMacInitFb = wait
          /\ w.granted = v.granted /\ w.service = v.service /\ w.out = v.out
          /\ w.cmpUnitFree = (IF waits THEN v.cmpUnitFree ELSE more)
          /\ w.appsWaitStop = v.appsWaitStop /\ w.srvInInitVector = v.srvInInitVector
          /\ w.timeLeft = v.timeLeft /\ w.timer = v.timer
      BY <1>6, <1>7
    <3>2. m = Erase(w, a)
      BY <2>2
    <3> HIDE DEF w, m
    <3>3. /\ m \in ServerRecord /\ m.granted = w.granted \ {a}
          /\ m.service = [w.service EXCEPT ![a] = DefaultService] /\ m.out = w.out
          /\ m.cmpUnitFree = w.cmpUnitFree /\ m.appsWaitMacInitFb = w.appsWaitMacInitFb
          /\ m.srvInInitVector = w.srvInInitVector /\ m.timeLeft = w.timeLeft
          /\ m.timer = w.timer /\ m.appsWaitStop = w.appsWaitStop /\ m.gnbId = w.gnbId
      BY <1>1, <3>1, <3>2, EraseFields
    <3> QED BY <1>1, <2>2, <3>1, <3>3
  <2> QED BY <2>1, <2>2, <1>2
<1> HIDE DEF m
<1>11. msg \in Message /\ msg.type = "SrvFD" /\ msg.app = a /\ msg.success = fd.success
       /\ msg.availCmpUnit = m.cmpUnitFree
  <2>1. m.cmpUnitFree \in Int
    BY <1>10 DEF ServerRecord
  <2> QED BY <2>1, <1>1, <1>2 DEF Message
<1> HIDE DEF msg
<1>12. /\ n \in ServerRecord /\ n.out = Append(m.out, msg)
       /\ n.cmpUnitFree = m.cmpUnitFree /\ n.granted = m.granted
       /\ n.service = m.service /\ n.appsWaitMacInitFb = m.appsWaitMacInitFb
       /\ n.srvInInitVector = m.srvInInitVector /\ n.timeLeft = m.timeLeft
       /\ n.timer = m.timer /\ n.appsWaitStop = m.appsWaitStop /\ n.gnbId = m.gnbId
  BY <1>4, <1>10, <1>11, SendOutFields
<1>13. /\ InitializingIn(n) = InitializingIn(v)
       /\ RunningIn(n) = (IF fd.success THEN RunningIn(v) ELSE RunningIn(v) \ {a})
  BY <1>1, <1>3, <1>10, <1>12 DEF InitializingIn, RunningIn
<1>14. QueueOk(n)
  BY <1>10, <1>12, <1>13 DEF QueueOk, Fine
<1>15. WaitsOk(n)
  BY <1>1, <1>10, <1>12, <1>13 DEF WaitsOk, wait
<1>16. UnitsOk(n)
  <2>1. \A b \in Apps : b # a => Cost(n)[b] = Cost(v)[b]
    BY <1>10, <1>12, <1>13 DEF Cost, wait
  <2>2. Cost(v)[a] = IF waits THEN 0 ELSE units
    BY <1>1 DEF Cost, units, a
  <2>3. Cost(n)[a] = IF fd.success THEN units ELSE 0
    BY <1>1, <1>3, <1>10, <1>12, <1>13 DEF Cost, wait, a
  <2>4. n.cmpUnitFree + Cost(n)[a] = v.cmpUnitFree + Cost(v)[a]
    BY <1>1, <1>2, <1>10, <1>12, <2>2, <2>3 DEF less, more
  <2> HIDE DEF Cost
  <2> QED BY <1>1, <1>12, <2>1, <2>4, AccountKept
<1>17. GnbsKept(v, n)
  <2> SUFFICES ASSUME NEW b \in RunningIn(v) \cap RunningIn(n)
               PROVE  n.service[b].offloadGnb = v.service[b].offloadGnb
    BY DEF GnbsKept
  <2>1. b \in Apps
    BY <1>1 DEF RunningIn
  <2>2. CASE b = a
    <3>1. fd.success
      BY <1>13, <2>2
    <3> QED BY <1>3, <1>10, <1>12, <2>2, <3>1 DEF a
  <2>3. CASE b # a
    BY <1>10, <1>12, <2>1, <2>3
  <2> QED BY <2>2, <2>3
<1>18. n.out = <<msg>>
  BY <1>10, <1>12
<1>19. NoNicGrant(n) /\ Honest(n)
  BY <1>11, <1>12, <1>18 DEF NoNicGrant, Honest
<1>20. ~fd.success => SaysEnd(n, a)
  BY <1>11, <1>18 DEF SaysEnd
<1>21. Fine(n)
  BY <1>12, <1>14, <1>15, <1>16 DEF Fine
<1> QED BY <1>10, <1>12, <1>13, <1>17, <1>19, <1>20, <1>21 DEF n, a

-----------------------------------------------------------------------------
(* What travels between the server and one gNB.                            *)

\* a grant leaves the channel
LEMMA WireWithoutGrant ==
  ASSUME NEW S, NEW s \in Seq(S), NEW i \in DOMAIN s, NEW c, NEW r, NEW a, NEW served,
         Wire(s, c, r, a, served)
  PROVE  Wire(RemoveAt(s, i), c, r, a, served)
<1> DEFINE n == RemoveAt(s, i)
           was(j) == IF j < i THEN j ELSE j + 1
<1>1. /\ DOMAIN s = 1 .. Len(s) /\ Len(s) \in Nat /\ i \in 1 .. Len(s)
      /\ n \in Seq(S) /\ Len(n) = Len(s) - 1
      /\ \A j \in DOMAIN n : n[j] = s[was(j)]
  BY Removed
<1> HIDE DEF n
<1>2. DOMAIN n = 1 .. Len(s) - 1
  BY <1>1
<1>3. \A j \in DOMAIN n : was(j) \in DOMAIN s
  BY <1>1, <1>2
<1>4. \A j, k \in DOMAIN n : was(j) = was(k) => j = k
  BY <1>1, <1>2
<1> HIDE DEF was
<1>5. \A j \in DOMAIN n : Starts(n, j, a) => Starts(s, was(j), a)
  BY <1>1, <1>3 DEF Starts
<1>6. Wire(n, c, r, a, served)
  BY <1>3, <1>4, <1>5 DEF Wire
<1> QED BY <1>6 DEF n

\* a grant enters the channel; a start only of what the gNB is not concerned with
LEMMA WireWithGrant ==
  ASSUME NEW S, NEW s \in Seq(S), NEW msg \in S, NEW c, NEW r, NEW a,
         NEW served, NEW serves, Wire(s, c, r, a, served), served => serves,
         msg.app = a /\ ~msg.stop => ~served /\ serves
  PROVE  Wire(Append(s, msg), c, r, a, serves)
<1> DEFINE n == Append(s, msg)
           l == Len(s) + 1
<1>1. /\ DOMAIN n = DOMAIN s \cup {l} /\ n[l] = msg
      /\ \A i \in DOMAIN s : n[i] = s[i]
  BY AppendTo
<1> HIDE DEF n, l
<1>2. CASE msg.app = a /\ ~msg.stop
  <2>1. /\ \A i \in DOMAIN s : ~Starts(s, i, a)
        /\ a \notin c /\ \A i \in DOMAIN r : ~Tells(r, i, a)
    BY <1>2 DEF Wire
  <2>2. \A i \in DOMAIN n : Starts(n, i, a) => i = l
    BY <1>1, <2>1 DEF Starts
  <2>3. \A i \in DOMAIN r : ~Ends(r, i, a)
    BY <2>1 DEF Ends
  <2>4. Wire(n, c, r, a, serves)
    BY <1>2, <2>1, <2>2, <2>3 DEF Wire
  <2> QED BY <2>4 DEF n
<1>3. CASE ~(msg.app = a /\ ~msg.stop)
  <2>1. \A i \in DOMAIN n : Starts(n, i, a) => i \in DOMAIN s /\ Starts(s, i, a)
    BY <1>1, <1>3 DEF Starts
  <2>2. Wire(n, c, r, a, serves)
    BY <2>1 DEF Wire
  <2> QED BY <2>2 DEF n
<1> QED BY <1>2, <1>3

\* the gNB reports, and carries c2 from then on
LEMMA WireReported ==
  ASSUME NEW R, NEW r \in Seq(R), NEW fd \in R, NEW s, NEW c, NEW c2, NEW a, NEW served,
         Wire(s, c, r, a, served),
         fd.app # a => (a \in c2 <=> a \in c),
         fd.app = a => /\ served /\ (fd.success <=> a \in c2)
                       /\ \A i \in DOMAIN s : ~Starts(s, i, a)
                       /\ \A i \in DOMAIN r : ~Ends(r, i, a)
  PROVE  Wire(s, c2, Append(r, fd), a, served)
<1> DEFINE n == Append(r, fd)
           l == Len(r) + 1
<1>1. /\ DOMAIN n = DOMAIN r \cup {l} /\ n[l] = fd
      /\ \A i \in DOMAIN r : n[i] = r[i] /\ i <= l /\ i # l
  <2>1. \A i \in DOMAIN r : i <= l /\ i # l
    OBVIOUS
  <2> QED BY <2>1, AppendTo
<1>2. l <= l
  OBVIOUS
<1> HIDE DEF n, l
<1>3. \A i \in DOMAIN r : (Tells(n, i, a) <=> Tells(r, i, a)) /\ (Ends(n, i, a) <=> Ends(r, i, a))
  BY <1>1 DEF Tells, Ends
<1>4. (Tells(n, l, a) <=> fd.app = a) /\ (Ends(n, l, a) <=> fd.app = a /\ ~fd.success)
  BY <1>1 DEF Tells, Ends
<1>5. CASE fd.app # a
  <2>1. \A i \in DOMAIN n : /\ Tells(n, i, a) => i \in DOMAIN r /\ Tells(r, i, a)
                            /\ Ends(n, i, a) => i \in DOMAIN r /\ Ends(r, i, a)
    BY <1>1, <1>3, <1>4, <1>5
  <2>2. Wire(s, c2, n, a, served)
    BY <2>1, <1>5 DEF Wire
  <2> QED BY <2>2 DEF n
<1>6. CASE fd.app = a
  <2>1. \A i \in DOMAIN n : Ends(n, i, a) => i = l /\ a \notin c2
    BY <1>1, <1>3, <1>4, <1>6
  <2>2. \A j \in DOMAIN n : j <= l
    BY <1>1, <1>2
  <2>3. Wire(s, c2, n, a, served)
    BY <2>1, <2>2, <1>6 DEF Wire
  <2> QED BY <2>3 DEF n
<1> QED BY <1>5, <1>6

\* the server takes a report; when it is the end of a, nothing is left of a
LEMMA WireHeard ==
  ASSUME NEW R, NEW r \in Seq(R), r # <<>>, NEW s, NEW c, NEW a, NEW served, NEW serves,
         Wire(s, c, r, a, served), served => serves \/ Ends(r, 1, a)
  PROVE  Wire(s, c, Tail(r), a, serves)
<1> DEFINE n == Tail(r)
<1>1. 1 \in DOMAIN r /\ \A i \in DOMAIN n : i + 1 \in DOMAIN r /\ n[i] = r[i + 1] /\ i \in Nat \ {0}
  <2>1. \A i \in DOMAIN n : i \in Nat \ {0}
    BY TailOf
  <2> QED BY <2>1, TailOf
<1> HIDE DEF n
<1>2. \A i \in DOMAIN n : /\ Tells(n, i, a) => Tells(r, i + 1, a)
                          /\ Ends(n, i, a) => Ends(r, i + 1, a)
  BY <1>1 DEF Tells, Ends
<1>3. \A i, j \in DOMAIN n : Ends(n, i, a) /\ Tells(n, j, a) => j <= i
  <2> TAKE i, j \in DOMAIN n
  <2> HAVE Ends(n, i, a) /\ Tells(n, j, a)
  <2>1. Ends(r, i + 1, a) /\ Tells(r, j + 1, a) /\ i + 1 \in DOMAIN r /\ j + 1 \in DOMAIN r
    BY <1>1, <1>2
  <2>2. j + 1 <= i + 1
    BY <2>1 DEF Wire
  <2> QED BY <1>1, <2>2
<1>4. Ends(r, 1, a) => /\ \A i \in DOMAIN s : ~Starts(s, i, a)
                       /\ a \notin c /\ \A i \in DOMAIN n : ~Tells(n, i, a)
  <2> SUFFICES ASSUME Ends(r, 1, a)
               PROVE  /\ \A i \in DOMAIN s : ~Starts(s, i, a)
                      /\ a \notin c /\ \A i \in DOMAIN n : ~Tells(n, i, a)
    OBVIOUS
  <2>1. \A i \in DOMAIN n : ~Tells(n, i, a)
    <3> SUFFICES ASSUME NEW i \in DOMAIN n, Tells(n, i, a) PROVE FALSE
      OBVIOUS
    <3>1. i + 1 <= 1
      BY <1>1, <1>2 DEF Wire
    <3> QED BY <3>1, <1>1
  <2>2. Tells(r, 1, a)
    BY DEF Ends
  <2> QED BY <1>1, <2>1, <2>2 DEF Wire
<1>5. /\ \A i \in DOMAIN s : Starts(s, i, a) => \A j \in DOMAIN n : ~Tells(n, j, a)
      /\ a \in c => \A i \in DOMAIN n : ~Ends(n, i, a)
  BY <1>1, <1>2 DEF Wire
<1>6. \/ \E i \in DOMAIN s : Starts(s, i, a)
      \/ a \in c
      \/ \E i \in DOMAIN n : Tells(n, i, a)
      => serves
  BY <1>1, <1>2, <1>4 DEF Wire
<1>7. Wire(s, c, n, a, serves)
  BY <1>3, <1>5, <1>6 DEF Wire
<1> QED BY <1>7 DEF n

\* grants and services may be lost, and the server may start to serve
LEMMA WireWithLess ==
  ASSUME NEW s, NEW s2 \in {s, <<>>}, NEW c, NEW c2, NEW r, NEW a, a \in c2 => a \in c,
         NEW served, NEW serves, Wire(s, c, r, a, served), served => serves
  PROVE  Wire(s2, c2, r, a, serves)
<1>1. CASE s2 = s
  BY <1>1 DEF Wire
<1>2. CASE s2 = <<>>
  BY <1>2 DEF Wire
<1> QED BY <1>1, <1>2

-----------------------------------------------------------------------------
(* The steps.                                                              *)

\* a report of the local MAC
LEMMA RsuFeedbackFine ==
  ASSUME NEW v, Fine(v), v.out = <<>>
  PROVE  LET n == HandleRsuFeedback(v, [gnb |-> Self, veh |-> NoUe, bytePerBand |-> 0,
                                        availBand |-> 0])
         IN  Fine(n) /\ NoNicGrant(n) /\ Honest(n) /\ OnlySent(v, n)
<1> DEFINE fd  == [gnb |-> Self, veh |-> NoUe, bytePerBand |-> 0, availBand |-> 0]
           msg == [type |-> "RsuFD", gnb |-> fd.gnb, veh |-> fd.veh,
                   bytePerBand |-> fd.bytePerBand, availBand |-> fd.availBand,
                   freeCmpUnits |-> v.cmpUnitFree]
           n   == HandleRsuFeedback(v, fd)
<1>1. v \in ServerRecord /\ WaitsOk(v)
  BY DEF Fine
<1>2. msg \in Message /\ msg.type = "RsuFD"
  BY <1>1, ServerAssumption DEF Message, ServerRecord
<1>3. n = SendOut(v, msg)
  BY DEF HandleRsuFeedback
<1> HIDE DEF msg, n
<1>4. /\ n \in ServerRecord /\ n.out = Append(v.out, msg)
      /\ n.cmpUnitFree = v.cmpUnitFree /\ n.granted = v.granted
      /\ n.service = v.service /\ n.appsWaitMacInitFb = v.appsWaitMacInitFb
      /\ n.srvInInitVector = v.srvInInitVector /\ n.timeLeft = v.timeLeft
      /\ n.timer = v.timer /\ n.appsWaitStop = v.appsWaitStop /\ n.gnbId = v.gnbId
  BY <1>1, <1>2, <1>3, SendOutFields
<1>5. n.appsWaitStop \subseteq InitializingIn(v)
  BY <1>1, <1>4 DEF WaitsOk
<1>6. Fine(n)
  BY <1>4, <1>5, FineKept
<1>7. n.out = <<msg>>
  BY <1>4
<1>8. NoNicGrant(n) /\ Honest(n)
  BY <1>2, <1>7 DEF NoNicGrant, Honest
<1> QED BY <1>4, <1>6, <1>8 DEF n, OnlySent

\* the server of a node without scheduler
LEMMA InitialServerFine ==
  /\ Fine(InitialServer(Self)) /\ InitialServer(Self).out = <<>>
  /\ RunningIn(InitialServer(Self)) = {} /\ InitialServer(Self).granted = {}
  /\ InitialServer(Self).appsWaitStop = {}
<1> DEFINE v == InitialServer(Self)
<1>1. DefaultService \in Service
  BY DEF DefaultService, Service
<1>2. v \in ServerRecord
  <2>1. [a \in Apps |-> DefaultService] \in [Apps -> Service]
    BY <1>1
  <2>2. CmpUnitTotal \in Int /\ <<>> \in Seq(Apps) /\ <<>> \in Seq(Message)
    BY ServerHandlersAssumption
  <2> HIDE DEF Service, DefaultService, Message
  <2> QED BY <2>1, <2>2 DEF InitialServer, ServerRecord
<1>3. /\ v.out = <<>> /\ v.granted = {} /\ v.appsWaitStop = {} /\ v.appsWaitMacInitFb = {}
      /\ v.srvInInitVector = <<>> /\ v.timer = NoTimer /\ v.cmpUnitFree = CmpUnitTotal
  BY DEF InitialServer
<1> HIDE DEF v
<1>4. RunningIn(v) = {} /\ InitializingIn(v) = {}
  BY <1>3 DEF RunningIn, InitializingIn
<1>5. QueueOk(v) /\ WaitsOk(v)
  BY <1>3, <1>4 DEF QueueOk, WaitsOk
<1>6. UnitsOk(v)
  <2>1. Cost(v) \in [Apps -> Int] /\ \A a \in Apps : Cost(v)[a] = 0
    BY <1>4 DEF Cost
  <2> HIDE DEF Cost
  <2>2. Total(Cost(v)) = 0
    BY <2>1, TotalOfNone
  <2> QED BY <2>2, <1>3, ServerHandlersAssumption DEF UnitsOk
<1>7. Fine(v)
  BY <1>2, <1>5, <1>6 DEF Fine
<1> QED BY <1>3, <1>4, <1>7 DEF v

\* the messages of a handler leave it
LEMMA PerformFine ==
  ASSUME NEW h, Fine(h), Perform(h)
  PROVE  /\ Fine(server') /\ server'.out = <<>> /\ RunningIn(server') = RunningIn(h)
         /\ OnlySent(h, server') /\ out' = h.out
         /\ h.out = <<>> => server' = h
<1> DEFINE empty == <<>>
           n     == [h EXCEPT !.out = empty]
<1>1. server' = n /\ out' = h.out
  BY DEF Perform
<1>2. h \in ServerRecord /\ WaitsOk(h)
  BY DEF Fine
<1>3. empty \in Seq(Message) /\ empty = <<>>
  OBVIOUS
<1> HIDE DEF empty
<1>4. n \in ServerRecord /\ n.out = empty /\ OnlySent(h, n)
  BY <1>2, <1>3 DEF ServerRecord, OnlySent
<1> HIDE DEF n
<1>5. n.appsWaitStop \subseteq InitializingIn(h)
  BY <1>2, <1>4 DEF WaitsOk, OnlySent
<1>6. Fine(n) /\ RunningIn(n) = RunningIn(h)
  BY <1>4, <1>5, FineKept DEF OnlySent
<1>7. h.out = <<>> => n = h
  BY <1>2, <1>3 DEF n, ServerRecord
<1> QED BY <1>1, <1>3, <1>4, <1>6, <1>7

LEMMA PerformQuiet ==
  ASSUME NEW h, NoNicGrant(h), Perform(h), toMac \in [Gnbs -> Seq(NicGrant)]
  PROVE  toMac' = toMac
<1>1. \A o \in Gnbs : toMac'[o] = toMac[o]
  BY DEF Perform, NoNicGrant
<1>2. toMac' = [o \in Gnbs |-> toMac'[o]]
  BY DEF Perform
<1>3. toMac = [o \in Gnbs |-> toMac[o]]
  OBVIOUS
<1> QED BY <1>1, <1>2, <1>3

LEMMA PerformSends ==
  ASSUME NEW h, NEW msg \in NicGrant, h.out = <<msg>>, Perform(h),
         toMac \in [Gnbs -> Seq(NicGrant)]
  PROVE  /\ toMac' \in [Gnbs -> Seq(NicGrant)]
         /\ \A o \in Gnbs : toMac'[o] = IF o = msg.offloadGnb THEN Append(toMac[o], msg) ELSE toMac[o]
<1>1. msg.type = "NicGrant"
  BY DEF NicGrant
<1>2. DOMAIN h.out = {1} /\ h.out[1] = msg /\ Head(h.out) = msg
  OBVIOUS
<1>3. ASSUME NEW o \in Gnbs
      PROVE  toMac'[o] = IF o = msg.offloadGnb THEN Append(toMac[o], msg) ELSE toMac[o]
  BY <1>1, <1>2 DEF Perform
<1>4. ASSUME NEW o \in Gnbs PROVE toMac'[o] \in Seq(NicGrant)
  <2>1. toMac[o] \in Seq(NicGrant)
    OBVIOUS
  <2> HIDE DEF NicGrant
  <2>2. Append(toMac[o], msg) \in Seq(NicGrant)
    BY <2>1
  <2> QED BY <1>3, <2>1, <2>2
<1>5. toMac' = [o \in Gnbs |-> toMac'[o]]
  BY DEF Perform
<1> QED BY <1>3, <1>4, <1>5


\* a server that sends no grant and keeps what it runs
LEMMA QuietStep ==
  ASSUME IInv, NEW h, Fine(h), NoNicGrant(h), GnbsKept(server, h), RunningIn(h) = RunningIn(server),
         Perform(h), UNCHANGED <<hasScheduler, carrier, toServer>>,
         ~hasScheduler => h = server
  PROVE  IInv'
<1>1. /\ Fine(server') /\ server'.out = <<>> /\ RunningIn(server') = RunningIn(h)
      /\ OnlySent(h, server')
  BY PerformFine
<1>2. toMac' = toMac
  BY PerformQuiet DEF IInv
<1>3. ASSUME NEW o \in Gnbs, NEW a \in Apps PROVE Serves(server, o, a) => Serves(server', o, a)
  BY <1>1 DEF Serves, GnbsKept, OnlySent
<1>4. ASSUME hasScheduler, NEW o \in Gnbs, NEW a \in Apps PROVE WireOk(server, o, a)'
  <2> DEFINE s == toMac[o]
             c == carrier[o].apps
             r == toServer[o]
             served == Serves(server, o, a)
             serves == Serves(server', o, a)
  <2>1. Wire(s, c, r, a, served)
    BY <1>4 DEF IInv, WiresOk, WireOk
  <2>2. served => serves
    BY <1>3
  <2> HIDE DEF s, c, r, served, serves
  <2>3. Wire(s, c, r, a, serves)
    BY <2>1, <2>2, WireWithLess
  <2> QED BY <2>3, <1>2 DEF WireOk, s, c, r, serves
<1>5. ~hasScheduler' => server' = InitialServer(Self)
  BY PerformFine DEF IInv
<1> QED BY <1>1, <1>2, <1>4, <1>5 DEF IInv, WiresOk

\* a server that sends a grant: a stop, or the first start of what it runs now
LEMMA SendingStep ==
  ASSUME IInv, NEW h, Fine(h), NEW msg \in NicGrant, h.out = <<msg>>, Perform(h),
         GnbsKept(server, h), RunningIn(server) \subseteq RunningIn(h),
         ~msg.stop => /\ msg.app \notin RunningIn(server) /\ msg.app \in RunningIn(h)
                      /\ msg.offloadGnb = h.service[msg.app].offloadGnb,
         hasScheduler, UNCHANGED <<hasScheduler, carrier, toServer>>
  PROVE  IInv'
<1>1. /\ Fine(server') /\ server'.out = <<>> /\ RunningIn(server') = RunningIn(h)
      /\ OnlySent(h, server')
  BY PerformFine
<1>2. /\ toMac' \in [Gnbs -> Seq(NicGrant)]
      /\ \A o \in Gnbs : toMac'[o] = IF o = msg.offloadGnb THEN Append(toMac[o], msg) ELSE toMac[o]
  BY PerformSends DEF IInv
<1>3. ASSUME NEW o \in Gnbs, NEW a \in Apps PROVE Serves(server, o, a) => Serves(server', o, a)
  BY <1>1 DEF Serves, GnbsKept, OnlySent
<1>4. ASSUME NEW o \in Gnbs, NEW a \in Apps PROVE WireOk(server, o, a)'
  <2> DEFINE s == toMac[o]
             c == carrier[o].apps
             r == toServer[o]
             served == Serves(server, o, a)
             serves == Serves(server', o, a)
  <2>1. Wire(s, c, r, a, served) /\ s \in Seq(NicGrant)
    BY DEF IInv, WiresOk, WireOk
  <2>2. served => serves
    BY <1>3
  <2>3. o = msg.offloadGnb /\ msg.app = a /\ ~msg.stop => ~served /\ serves
    BY <1>1 DEF Serves, OnlySent
  <2> HIDE DEF s, c, r, served, serves
  <2>4. CASE o = msg.offloadGnb
    <3>1. Wire(Append(s, msg), c, r, a, serves)
      BY <2>1, <2>2, <2>3, <2>4, WireWithGrant
    <3> QED BY <3>1, <2>4, <1>2 DEF WireOk, s, c, r, serves
  <2>5. CASE o # msg.offloadGnb
    <3>1. Wire(s, c, r, a, serves)
      <4>1. s \in {s, <<>>} /\ (a \in c => a \in c)
        OBVIOUS
      <4> QED BY <4>1, <2>1, <2>2, WireWithLess
    <3> QED BY <3>1, <2>5, <1>2 DEF WireOk, s, c, r, serves
  <2> QED BY <2>4, <2>5
<1> QED BY <1>1, <1>2, <1>4 DEF IInv, WiresOk

\* the handlers leave a server without scheduler as it is
LEMMA HandlesCommand ==
  ASSUME IInv, NEW grant \in SchedulerCommands
  PROVE  LET h == HandleSrvGrant(server, grant, hasScheduler)
         IN  \/ h = server
             \/ /\ hasScheduler /\ grant \in SrvGrant /\ grant.start
                /\ grant.app \notin server.granted /\ h = InitializeService(server, grant)
             \/ /\ hasScheduler /\ ~grant.start
                /\ grant.app \in server.granted /\ h = StopService(server, grant.app)
<1>1. grant \in SrvGrant
  <2> DEFINE yes == {TRUE}
             no  == {FALSE}
             any == BOOLEAN
  <2>1. /\ yes \subseteq any /\ no \subseteq any /\ Self \in Gnbs
        /\ Demands \subseteq Nat /\ InitTimes \subseteq Nat
    BY ServerAssumption
  <2>2. \/ grant \in [app : Apps, start : yes, processGnb : Gnbs, offloadGnb : Gnbs,
                      cmpUnits : Demands, bands : {1}, load : {1}, initTime : InitTimes]
        \/ grant \in [app : Apps, start : no, processGnb : {Self}, offloadGnb : {Self},
                      cmpUnits : {0}, bands : {0}, load : {0}, initTime : {0}]
    BY DEF SchedulerCommands
  <2>3. SrvGrant = [app : Apps, start : any, processGnb : Gnbs, offloadGnb : Gnbs,
                    cmpUnits : Nat, bands : Nat, load : Nat, initTime : Nat]
    BY DEF SrvGrant
  <2> HIDE DEF yes, no, any
  <2>4. CASE grant \in [app : Apps, start : yes, processGnb : Gnbs, offloadGnb : Gnbs,
                       cmpUnits : Demands, bands : {1}, load : {1}, initTime : InitTimes]
    <3>1. 1 \in Nat
      OBVIOUS
    <3>2. /\ grant.app \in Apps /\ grant.start \in yes /\ grant.processGnb \in Gnbs
          /\ grant.offloadGnb \in Gnbs /\ grant.cmpUnits \in Demands /\ grant.bands \in {1}
          /\ grant.load \in {1} /\ grant.initTime \in InitTimes
      BY <2>4
    <3>4. grant.start \in any /\ grant.cmpUnits \in Nat /\ grant.initTime \in Nat
      BY <2>1, <3>2
    <3>3. grant = [app |-> grant.app, start |-> grant.start, processGnb |-> grant.processGnb,
                   offloadGnb |-> grant.offloadGnb, cmpUnits |-> grant.cmpUnits,
                   bands |-> grant.bands, load |-> grant.load, initTime |-> grant.initTime]
      BY <2>4
    <3> QED BY <2>3, <3>2, <3>3, <3>4
  <2>5. CASE grant \in [app : Apps, start : no, processGnb : {Self}, offloadGnb : {Self},
                       cmpUnits : {0}, bands : {0}, load : {0}, initTime : {0}]
    <3>1. grant.start \in any
      BY <2>1, <2>5
    <3> QED BY <2>1, <2>3, <2>5, <3>1
  <2> QED BY <2>2, <2>4, <2>5
<1>2. ~hasScheduler => server.granted = {}
  BY InitialServerFine DEF IInv
<1> QED BY <1>1, <1>2 DEF HandleSrvGrant, IInv

LEMMA ReceiveSrvGrantKeeps ==
  ASSUME IInv, NEW grant \in SchedulerCommands, ReceiveSrvGrant(grant)
  PROVE  IInv'
<1> DEFINE h == HandleSrvGrant(server, grant, hasScheduler)
<1>1. Perform(h) /\ UNCHANGED <<hasScheduler, carrier, toServer>>
  BY DEF ReceiveSrvGrant
<1>2. /\ Fine(server) /\ server.out = <<>> /\ hasScheduler \in BOOLEAN
  BY DEF IInv
<1>3. \/ h = server
      \/ /\ hasScheduler /\ grant \in SrvGrant /\ grant.start
         /\ grant.app \notin server.granted /\ h = InitializeService(server, grant)
      \/ /\ hasScheduler /\ ~grant.start
         /\ grant.app \in server.granted /\ h = StopService(server, grant.app)
  BY HandlesCommand
<1> HIDE DEF h
<1>4. CASE h = server
  <2>1. Fine(h) /\ NoNicGrant(h) /\ GnbsKept(server, h) /\ RunningIn(h) = RunningIn(server)
    BY <1>2, <1>4 DEF NoNicGrant, GnbsKept
  <2> QED BY <1>1, <1>4, <2>1, QuietStep
<1>5. CASE /\ hasScheduler /\ grant \in SrvGrant /\ grant.start
           /\ grant.app \notin server.granted /\ h = InitializeService(server, grant)
  <2>1. Fine(h) /\ NoNicGrant(h) /\ GnbsKept(server, h) /\ RunningIn(h) = RunningIn(server)
    BY <1>2, <1>5, InitializeServiceFine
  <2> QED BY <1>1, <1>5, <2>1, QuietStep
<1>6. CASE /\ hasScheduler /\ ~grant.start
           /\ grant.app \in server.granted /\ h = StopService(server, grant.app)
  <2>1. /\ Fine(h) /\ RunningIn(h) = RunningIn(server) /\ GnbsKept(server, h)
        /\ \/ \E msg \in NicGrant : h.out = <<msg>> /\ msg.stop
           \/ NoNicGrant(h)
    BY <1>2, <1>6, StopServiceFine
  <2>2. CASE NoNicGrant(h)
    BY <1>1, <1>6, <2>1, <2>2, QuietStep
  <2>3. CASE \E msg \in NicGrant : h.out = <<msg>> /\ msg.stop
    <3>1. PICK msg \in NicGrant : h.out = <<msg>> /\ msg.stop
      BY <2>3
    <3> QED BY <1>1, <1>6, <2>1, <3>1, SendingStep
  <2> QED BY <2>1, <2>2, <2>3
<1> QED BY <1>3, <1>4, <1>5, <1>6

LEMMA ServiceInitCompleteKeeps ==
  ASSUME IInv, ServiceInitComplete
  PROVE  IInv'
<1> DEFINE h == HandleServiceInitComplete(server)
           a == Head(server.srvInInitVector)
<1>1. Perform(h) /\ UNCHANGED <<hasScheduler, carrier, toServer>>
  BY DEF ServiceInitComplete
<1>2. Fine(server) /\ server.out = <<>> /\ server.srvInInitVector # <<>>
  BY DEF IInv, ServiceInitComplete, Fine, QueueOk, NoTimer
<1>3. hasScheduler
  BY <1>2, InitialServerFine DEF IInv, InitialServer
<1>4. /\ Fine(h) /\ GnbsKept(server, h) /\ a \notin RunningIn(server)
      /\ \/ RunningIn(h) = RunningIn(server) /\ NoNicGrant(h)
         \/ /\ RunningIn(h) = RunningIn(server) \cup {a}
            /\ \E msg \in NicGrant : /\ h.out = <<msg>> /\ msg.app = a /\ ~msg.stop
                                     /\ msg.offloadGnb = h.service[a].offloadGnb
  BY <1>2, InitCompleteFine
<1> HIDE DEF h, a
<1>5. CASE RunningIn(h) = RunningIn(server) /\ NoNicGrant(h)
  BY <1>1, <1>3, <1>4, <1>5, QuietStep
<1>6. CASE /\ RunningIn(h) = RunningIn(server) \cup {a}
           /\ \E msg \in NicGrant : /\ h.out = <<msg>> /\ msg.app = a /\ ~msg.stop
                                    /\ msg.offloadGnb = h.service[a].offloadGnb
  <2>1. PICK msg \in NicGrant : /\ h.out = <<msg>> /\ msg.app = a /\ ~msg.stop
                                /\ msg.offloadGnb = h.service[a].offloadGnb
    BY <1>6
  <2> QED BY <1>1, <1>3, <1>4, <1>6, <2>1, SendingStep
<1> QED BY <1>4, <1>5, <1>6

LEMMA ReceiveRsuFDKeeps ==
  ASSUME IInv, ReceiveRsuFD
  PROVE  IInv'
<1> DEFINE h == HandleRsuFeedback(server, [gnb |-> Self, veh |-> NoUe, bytePerBand |-> 0,
                                           availBand |-> 0])
<1>1. hasScheduler /\ Perform(h) /\ UNCHANGED <<hasScheduler, carrier, toServer>>
  BY DEF ReceiveRsuFD
<1>2. Fine(h) /\ NoNicGrant(h) /\ OnlySent(server, h)
  BY RsuFeedbackFine DEF IInv
<1> HIDE DEF h
<1>3. GnbsKept(server, h) /\ RunningIn(h) = RunningIn(server)
  BY <1>2 DEF GnbsKept, RunningIn, OnlySent
<1> QED BY <1>1, <1>2, <1>3, QuietStep

LEMMA LoseSchedulerKeeps ==
  ASSUME IInv, LoseScheduler
  PROVE  IInv'
<1> DEFINE h == ReleaseServerResources(server)
<1>1. h = InitialServer(Self)
  <2> DEFINE v == InitialServer(Self)
  <2>1. server.gnbId = Self /\ server.out = <<>>
    BY DEF IInv, Fine, ServerRecord
  <2>2. h = [v EXCEPT !.out = <<>>]
    BY <2>1 DEF ReleaseServerResources
  <2> QED BY <2>2 DEF InitialServer
<1>2. Perform(h)
  BY DEF LoseScheduler
<1> HIDE DEF h
<1>3. Fine(h) /\ h.out = <<>>
  BY <1>1, InitialServerFine
<1>4. Fine(server') /\ server'.out = <<>> /\ server' = h
  BY <1>2, <1>3, PerformFine
<1>5. toMac' = toMac
  <2>1. NoNicGrant(h)
    BY <1>3 DEF NoNicGrant
  <2> QED BY <1>2, <2>1, PerformQuiet DEF IInv
<1>6. carrier' \in [Gnbs -> [on : BOOLEAN, apps : SUBSET Apps]]
  BY DEF LoseScheduler, IInv
<1> QED BY <1>1, <1>4, <1>5, <1>6 DEF IInv, LoseScheduler, WiresOk

\* time passes: all services in the queue are one tick nearer to their end
LEMMA TickKeeps ==
  ASSUME IInv, Tick
  PROVE  IInv'
<1> DEFINE q     == server.srvInInitVector
           left  == [a \in Apps |-> IF a \in ToSet(q) THEN server.timeLeft[a] - 1
                                    ELSE server.timeLeft[a]]
           timer == server.timer - 1
           n     == [server EXCEPT !.timer = timer, !.timeLeft = left]
<1>1. /\ Fine(server) /\ server \in ServerRecord /\ server.out = <<>>
      /\ q \in Seq(Apps) /\ server.timeLeft \in [Apps -> Nat]
      /\ server.timer \in Nat \cup {NoTimer} /\ server.timer > 0
  BY DEF IInv, Fine, ServerRecord, Tick
<1>2. server' = n
  BY <1>1 DEF Tick, ServerRecord
<1>3. /\ \A i \in DOMAIN q : q[i] \in Apps /\ q[i] \in ToSet(q)
      /\ \A a \in ToSet(q) : \E i \in DOMAIN q : q[i] = a
  BY <1>1 DEF ToSet
<1>4. q # <<>> /\ server.timer = server.timeLeft[q[1]]
  BY <1>1 DEF Fine, QueueOk, NoTimer
<1>5. ASSUME NEW i \in DOMAIN q
      PROVE  server.timeLeft[q[i]] \in Nat /\ server.timeLeft[q[i]] > 0
  <2>1. DOMAIN q = 1 .. Len(q) /\ 1 \in DOMAIN q
    BY <1>1, <1>4
  <2>2. server.timeLeft[q[1]] <= server.timeLeft[q[i]]
    <3>1. CASE i = 1
      BY <3>1, <1>1, <1>4
    <3>2. CASE 1 < i
      BY <3>2, <2>1 DEF QueueOk, Fine, IInv
    <3> QED BY <2>1, <3>1, <3>2
  <2> QED BY <2>2, <1>1, <1>3, <1>4
<1>6. left \in [Apps -> Nat] /\ \A i \in DOMAIN q : left[q[i]] = server.timeLeft[q[i]] - 1
  BY <1>1, <1>3, <1>5
<1>7. timer \in Nat /\ timer \in Nat \cup {NoTimer} /\ timer = left[q[1]]
  BY <1>1, <1>3, <1>4, <1>6
<1> HIDE DEF left, timer
<1>8. /\ n \in ServerRecord /\ n.timer = timer /\ n.timeLeft = left
      /\ n.cmpUnitFree = server.cmpUnitFree /\ n.granted = server.granted
      /\ n.service = server.service /\ n.appsWaitMacInitFb = server.appsWaitMacInitFb
      /\ n.srvInInitVector = q /\ n.appsWaitStop = server.appsWaitStop
      /\ n.out = server.out
  BY <1>1, <1>6, <1>7 DEF ServerRecord
<1> HIDE DEF n
<1>9. /\ InitializingIn(n) = InitializingIn(server) /\ RunningIn(n) = RunningIn(server)
      /\ Cost(n) = Cost(server)
  BY <1>8 DEF InitializingIn, RunningIn, Cost
<1>10. QueueOk(n)
  <2>1. \A i, j \in DOMAIN q : i < j => server.timeLeft[q[i]] <= server.timeLeft[q[j]]
    BY <1>1 DEF Fine, QueueOk
  <2>2. \A i, j \in DOMAIN q : i < j => left[q[i]] <= left[q[j]]
    BY <1>5, <1>6, <2>1
  <2>3. /\ \A i \in DOMAIN q : q[i] \in InitializingIn(server)
        /\ \A a \in InitializingIn(server) : \E i \in DOMAIN q : q[i] = a
        /\ \A i, j \in DOMAIN q : q[i] = q[j] => i = j
    BY <1>1 DEF Fine, QueueOk
  <2> HIDE DEF q
  <2> QED BY <2>2, <2>3, <1>4, <1>7, <1>8, <1>9 DEF QueueOk
<1>11. WaitsOk(n) /\ UnitsOk(n)
  BY <1>1, <1>8, <1>9 DEF Fine, WaitsOk, UnitsOk
<1>12. Fine(server') /\ server'.out = <<>>
  BY <1>1, <1>2, <1>8, <1>10, <1>11 DEF Fine
<1>13. /\ hasScheduler' = hasScheduler /\ toMac' = toMac /\ carrier' = carrier
       /\ toServer' = toServer
  BY DEF Tick, environment
<1>14. hasScheduler
  <2>1. server.srvInInitVector # <<>>
    BY <1>4
  <2> QED BY <2>1 DEF IInv, InitialServer
<1>15. ASSUME NEW o \in Gnbs, NEW a \in Apps PROVE WireOk(server, o, a)'
  <2>1. WireOk(server, o, a)
    BY <1>14 DEF IInv, WiresOk
  <2>2. Serves(server', o, a) <=> Serves(server, o, a)
    BY <1>2, <1>8, <1>9 DEF Serves
  <2>3. Serves(server', o, a) = Serves(server, o, a)
    BY <2>2 DEF Serves
  <2> QED BY <1>13, <2>1, <2>3 DEF WireOk
<1> QED BY <1>12, <1>13, <1>14, <1>15 DEF IInv, WiresOk

\* a report is heard; without a scheduler it is dropped
LEMMA ReceiveSrvFDKeeps ==
  ASSUME IInv, NEW o \in Gnbs, ReceiveSrvFD(o)
  PROVE  IInv'
<1> DEFINE r  == toServer[o]
           fd == Head(r)
           h  == IF hasScheduler THEN HandleServiceFeedback(server, fd) ELSE server
<1>1. /\ r # <<>> /\ toServer' = [toServer EXCEPT ![o] = Tail(r)] /\ Perform(h)
      /\ UNCHANGED <<hasScheduler, carrier>>
  BY DEF ReceiveSrvFD, IInv
<1>2. /\ Fine(server) /\ server.out = <<>> /\ toServer \in [Gnbs -> Seq(MacReport)]
      /\ hasScheduler \in BOOLEAN
  BY DEF IInv
<1>3. /\ r \in Seq(MacReport) /\ fd \in MacReport /\ fd = r[1] /\ 1 \in DOMAIN r
      /\ Tail(r) \in Seq(MacReport)
  <2>1. r \in Seq(MacReport)
    BY <1>2
  <2> HIDE DEF r, MacReport
  <2> QED BY <1>1, <2>1, TailOf DEF fd
<1>4. toServer' \in [Gnbs -> Seq(MacReport)] /\ toServer'[o] = Tail(r)
  <2> HIDE DEF MacReport, r
  <2> QED BY <1>1, <1>2, <1>3
<1>5. CASE ~hasScheduler
  <2>1. h = server
    BY <1>5
  <2> HIDE DEF h
  <2>2. NoNicGrant(h)
    BY <1>2, <2>1 DEF NoNicGrant
  <2>3. toMac' = toMac
    BY <1>1, <2>2, PerformQuiet DEF IInv
  <2>4. Fine(server') /\ server'.out = <<>> /\ server' = server
    BY <1>1, <1>2, <2>1, PerformFine
  <2> QED BY <1>1, <1>4, <1>5, <2>3, <2>4 DEF IInv, WiresOk
<1>6. CASE hasScheduler
  <2> DEFINE b == fd.app
  <2>1. b \in Apps /\ Tells(r, 1, b) /\ fd.success \in BOOLEAN
    BY <1>3 DEF Tells, MacReport
  <2>2. Serves(server, o, b)
    <3>1. WireOk(server, o, b)
      BY <1>6, <2>1 DEF IInv, WiresOk
    <3> QED BY <1>3, <2>1, <3>1 DEF WireOk, Wire
  <2>3. b \in RunningIn(server) /\ server.service[b].offloadGnb = o
    BY <2>2 DEF Serves
  <2>4. h = HandleServiceFeedback(server, fd)
    BY <1>6
  <2> HIDE DEF h, fd
  <2>5. /\ Fine(h) /\ GnbsKept(server, h) /\ NoNicGrant(h)
        /\ RunningIn(h) = IF fd.success THEN RunningIn(server) ELSE RunningIn(server) \ {b}
    BY <1>2, <1>3, <2>3, <2>4, ServiceFeedbackFine
  <2>6. /\ Fine(server') /\ server'.out = <<>> /\ RunningIn(server') = RunningIn(h)
        /\ OnlySent(h, server')
    BY <1>1, <2>5, PerformFine
  <2>7. toMac' = toMac
    BY <1>1, <2>5, PerformQuiet DEF IInv
  <2>8. ASSUME NEW p \in Gnbs, NEW a \in Apps PROVE WireOk(server, p, a)'
    <3> DEFINE s  == toMac[p]
               c  == carrier[p].apps
               rp == toServer[p]
               served == Serves(server, p, a)
               serves == Serves(server', p, a)
    <3>1. Wire(s, c, rp, a, served)
      BY <1>6 DEF IInv, WiresOk, WireOk
    <3>2. served => serves \/ (a = b /\ ~fd.success)
      BY <2>5, <2>6 DEF Serves, GnbsKept, OnlySent
    <3>3. served /\ a = b => p = o
      BY <2>3 DEF Serves
    <3> HIDE DEF s, c, served, serves
    <3>4. CASE p = o
      <4>1. served => serves \/ Ends(r, 1, a)
        BY <1>3, <2>1, <3>2 DEF Ends
      <4> HIDE DEF r
      <4>2. Wire(s, c, r, a, served)
        BY <3>1, <3>4 DEF r
      <4>3. Wire(s, c, Tail(r), a, serves)
        BY <1>1, <1>3, <4>1, <4>2, WireHeard
      <4> QED BY <1>1, <1>4, <2>7, <3>4, <4>3 DEF WireOk, s, c, serves
    <3>5. CASE p # o
      <4>1. served => serves
        BY <3>2, <3>3, <3>5
      <4> HIDE DEF rp
      <4>2. s \in {s, <<>>} /\ (a \in c => a \in c)
        OBVIOUS
      <4>3. Wire(s, c, rp, a, serves)
        BY <3>1, <4>1, <4>2, WireWithLess
      <4>4. toServer'[p] = rp
        BY <1>1, <1>2, <3>5 DEF rp
      <4> QED BY <1>1, <2>7, <4>3, <4>4 DEF WireOk, s, c, serves
    <3> QED BY <3>4, <3>5
  <2> QED BY <1>1, <1>4, <1>6, <2>6, <2>7, <2>8 DEF IInv, WiresOk
<1> QED BY <1>2, <1>5, <1>6

\* a gNB reports: it has taken a grant or heard from a vehicle
LEMMA ReportKeeps ==
  ASSUME IInv, NEW o \in Gnbs, NEW s \in Seq(NicGrant), NEW apps \in SUBSET Apps,
         NEW fd \in MacReport, toMac' = [toMac EXCEPT ![o] = s], Report(o, apps, fd),
         UNCHANGED <<server, hasScheduler>>,
         \A a \in Apps : a # fd.app => (a \in apps <=> a \in carrier[o].apps),
         hasScheduler =>
            /\ \A a \in Apps : Wire(s, carrier[o].apps, toServer[o], a, Serves(server, o, a))
            /\ Serves(server, o, fd.app) /\ (fd.success <=> fd.app \in apps)
            /\ \A i \in DOMAIN s : ~Starts(s, i, fd.app)
            /\ \A i \in DOMAIN toServer[o] : ~Ends(toServer[o], i, fd.app)
  PROVE  IInv'
<1> DEFINE r == toServer[o]
           c == carrier[o].apps
<1>1. /\ toMac \in [Gnbs -> Seq(NicGrant)] /\ toServer \in [Gnbs -> Seq(MacReport)]
      /\ carrier \in [Gnbs -> [on : BOOLEAN, apps : SUBSET Apps]] /\ r \in Seq(MacReport)
  BY DEF IInv
<1>2. Append(r, fd) \in Seq(MacReport)
  <2> HIDE DEF r, MacReport
  <2> QED BY <1>1
<1>3. /\ toServer' = [toServer EXCEPT ![o] = Append(r, fd)]
      /\ carrier' = [carrier EXCEPT ![o].apps = apps]
  BY <1>1 DEF Report
<1>4. /\ toServer' \in [Gnbs -> Seq(MacReport)] /\ toServer'[o] = Append(r, fd)
      /\ \A p \in Gnbs : p # o => toServer'[p] = toServer[p]
  <2> HIDE DEF r, MacReport
  <2> QED BY <1>1, <1>2, <1>3
<1>5. /\ toMac' \in [Gnbs -> Seq(NicGrant)] /\ toMac'[o] = s
      /\ \A p \in Gnbs : p # o => toMac'[p] = toMac[p]
  <2> HIDE DEF NicGrant
  <2> QED BY <1>1
<1>6. /\ carrier' \in [Gnbs -> [on : BOOLEAN, apps : SUBSET Apps]] /\ carrier'[o].apps = apps
      /\ \A p \in Gnbs : p # o => carrier'[p] = carrier[p]
  BY <1>1, <1>3
<1>7. ASSUME hasScheduler, NEW p \in Gnbs, NEW a \in Apps PROVE WireOk(server, p, a)'
  <2>1. Serves(server', p, a) = Serves(server, p, a)
    OBVIOUS
  <2>2. CASE p # o
    <3>1. WireOk(server, p, a)
      BY <1>7 DEF IInv, WiresOk
    <3> QED BY <1>4, <1>5, <1>6, <2>1, <2>2, <3>1 DEF WireOk
  <2>3. CASE p = o
    <3> DEFINE served == Serves(server, o, a)
    <3>1. Wire(s, c, r, a, served)
      BY <1>7
    <3>2. /\ fd.app # a => (a \in apps <=> a \in c)
          /\ fd.app = a => /\ served /\ (fd.success <=> a \in apps)
                           /\ \A i \in DOMAIN s : ~Starts(s, i, a)
                           /\ \A i \in DOMAIN r : ~Ends(r, i, a)
      BY <1>7
    <3> HIDE DEF served, c, r
    <3>3. r \in Seq(MacReport)
      BY <1>1
    <3>4. Wire(s, apps, Append(r, fd), a, served)
      BY <3>1, <3>2, <3>3, WireReported
    <3> QED BY <1>4, <1>5, <1>6, <2>1, <2>3, <3>4 DEF WireOk, served
  <2> QED BY <2>2, <2>3
<1> QED BY <1>4, <1>5, <1>6, <1>7 DEF IInv, WiresOk

\* the gNBs lose grants and services, if any, and report nothing
LEMMA LessKeeps ==
  ASSUME IInv, UNCHANGED <<server, hasScheduler, toServer>>,
         toMac' \in [Gnbs -> Seq(NicGrant)],
         carrier' \in [Gnbs -> [on : BOOLEAN, apps : SUBSET Apps]],
         \A o \in Gnbs : toMac'[o] \in {toMac[o], <<>>} /\ carrier'[o].apps \subseteq carrier[o].apps
  PROVE  IInv'
<1>1. ASSUME hasScheduler, NEW o \in Gnbs, NEW a \in Apps PROVE WireOk(server, o, a)'
  <2> DEFINE s == toMac[o]
             s2 == toMac'[o]
             c == carrier[o].apps
             c2 == carrier'[o].apps
             r == toServer[o]
             served == Serves(server, o, a)
             serves == Serves(server', o, a)
  <2>1. Wire(s, c, r, a, served)
    BY <1>1 DEF IInv, WiresOk, WireOk
  <2>2. s2 \in {s, <<>>} /\ (a \in c2 => a \in c)
    OBVIOUS
  <2>3. served => serves
    OBVIOUS
  <2> HIDE DEF s, s2, c, c2, r, served, serves
  <2>4. Wire(s2, c2, r, a, serves)
    <3>1. CASE s2 = s
      BY <2>1, <2>2, <2>3, <3>1 DEF Wire
    <3>2. CASE s2 = <<>>
      BY <2>1, <2>2, <2>3, <3>2 DEF Wire
    <3> QED BY <2>2, <3>1, <3>2
  <2> QED BY <2>4 DEF WireOk, s2, c2, r, serves
<1> QED BY <1>1 DEF IInv, WiresOk

LEMMA CarrierKeeps ==
  ASSUME IInv, NEW o \in Gnbs, CarrierLoses(o) \/ CarrierFinds(o)
  PROVE  IInv'
<1>1. /\ toMac \in [Gnbs -> Seq(NicGrant)]
      /\ carrier \in [Gnbs -> [on : BOOLEAN, apps : SUBSET Apps]]
  BY DEF IInv
<1>2. CASE CarrierLoses(o)
  <2>1. PICK kept \in {toMac[o], <<>>} : toMac' = [toMac EXCEPT ![o] = kept]
    BY <1>2 DEF CarrierLoses
  <2>2. kept \in Seq(NicGrant)
    <3>1. toMac[o] \in Seq(NicGrant) /\ <<>> \in Seq(NicGrant)
      BY <1>1
    <3> HIDE DEF NicGrant
    <3> QED BY <3>1, <2>1
  <2>3. /\ toMac' \in [Gnbs -> Seq(NicGrant)]
        /\ \A p \in Gnbs : toMac'[p] \in {toMac[p], <<>>}
    <3> HIDE DEF NicGrant
    <3> QED BY <1>1, <2>1, <2>2
  <2>4. /\ carrier' \in [Gnbs -> [on : BOOLEAN, apps : SUBSET Apps]]
        /\ \A p \in Gnbs : carrier'[p].apps \subseteq carrier[p].apps
    BY <1>1, <1>2 DEF CarrierLoses
  <2> QED BY <1>2, <2>3, <2>4, LessKeeps DEF CarrierLoses
<1>3. CASE CarrierFinds(o)
  <2>1. toMac' = toMac /\ UNCHANGED <<server, hasScheduler, toServer>>
    BY <1>3 DEF CarrierFinds
  <2>2. /\ carrier' \in [Gnbs -> [on : BOOLEAN, apps : SUBSET Apps]]
        /\ \A p \in Gnbs : carrier'[p].apps \subseteq carrier[p].apps
    BY <1>1, <1>3 DEF CarrierFinds
  <2> QED BY <1>1, <2>1, <2>2, LessKeeps
<1> QED BY <1>2, <1>3

\* a scheduler is found when nothing is left on the way
LEMMA FindSchedulerKeeps ==
  ASSUME IInv, FindScheduler
  PROVE  IInv'
<1>1. /\ toMac' = toMac /\ toServer' = toServer /\ server' = server /\ hasScheduler' = TRUE
      /\ carrier' = [carrier EXCEPT ![Self].on = TRUE] /\ Drained
  BY DEF FindScheduler
<1>2. /\ carrier' \in [Gnbs -> [on : BOOLEAN, apps : SUBSET Apps]]
      /\ \A o \in Gnbs : carrier'[o].apps = carrier[o].apps
  BY <1>1 DEF IInv
<1>3. ASSUME NEW o \in Gnbs, NEW a \in Apps PROVE WireOk(server, o, a)'
  <2>1. toMac'[o] = <<>> /\ toServer'[o] = <<>> /\ carrier'[o].apps = {}
    BY <1>1, <1>2 DEF Drained
  <2> QED BY <2>1 DEF WireOk, Wire
<1> QED BY <1>1, <1>2, <1>3 DEF IInv, WiresOk

\* a gNB takes up a grant
LEMMA TakeGrantKeeps ==
  ASSUME IInv, NEW o \in Gnbs, NEW i \in DOMAIN toMac[o], NEW used \in UsedBands,
         TakeGrant(o, i, used)
  PROVE  IInv'
<1> DEFINE q     == toMac[o]
           grant == q[i]
           b     == grant.app
           s     == RemoveAt(q, i)
           c     == carrier[o].apps
           r     == toServer[o]
<1>1. /\ toMac \in [Gnbs -> Seq(NicGrant)] /\ toServer \in [Gnbs -> Seq(MacReport)]
      /\ carrier \in [Gnbs -> [on : BOOLEAN, apps : SUBSET Apps]] /\ q \in Seq(NicGrant)
      /\ c \subseteq Apps /\ used \in Nat
  BY ServerAssumption DEF IInv
<1>2. grant \in NicGrant
  <2> HIDE DEF NicGrant
  <2> QED BY <1>1
<1>3. b \in Apps /\ grant.stop \in BOOLEAN
  BY <1>2 DEF NicGrant
<1>4. /\ toMac' = [toMac EXCEPT ![o] = s] /\ UNCHANGED <<server, hasScheduler>>
      /\ \/ ~grant.stop /\ Report(o, c \cup {b}, SrvFD(o, b, TRUE, used))
         \/ /\ grant.stop /\ b \in c
            /\ Report(o, c \ {b}, SrvFD(o, b, FALSE, 0))
         \/ UNCHANGED <<carrier, toServer>>
  BY <1>1 DEF TakeGrant
<1>5. s \in Seq(NicGrant)
  <2>1. i \in DOMAIN q
    OBVIOUS
  <2> HIDE DEF NicGrant, q
  <2> QED BY <1>1, <2>1, Removed
<1>6. ASSUME hasScheduler, NEW a \in Apps
      PROVE  /\ Wire(q, c, r, a, Serves(server, o, a)) /\ Wire(s, c, r, a, Serves(server, o, a))
  <2> DEFINE served == Serves(server, o, a)
  <2>1. Wire(q, c, r, a, served) /\ i \in DOMAIN q
    BY <1>6 DEF IInv, WiresOk, WireOk
  <2> HIDE DEF q, c, r, served
  <2>2. Wire(RemoveAt(q, i), c, r, a, served)
    BY <1>1, <2>1, WireWithoutGrant
  <2> QED BY <2>1, <2>2 DEF served
<1>7. CASE ~grant.stop /\ Report(o, c \cup {b}, SrvFD(o, b, TRUE, used))
  <2> DEFINE fd   == SrvFD(o, b, TRUE, used)
             apps == c \cup {b}
  <2>1. fd \in MacReport /\ fd.app = b /\ fd.success /\ apps \in SUBSET Apps
    BY <1>1, <1>3 DEF SrvFD, MacReport
  <2>2. \A a \in Apps : a # b => (a \in apps <=> a \in c)
    OBVIOUS
  <2>3. ASSUME hasScheduler
        PROVE  /\ Serves(server, o, b)
               /\ \A j \in DOMAIN s : ~Starts(s, j, b)
               /\ \A j \in DOMAIN r : ~Ends(r, j, b)
    <3>1. Starts(q, i, b)
      BY <1>7 DEF Starts
    <3>2. Wire(q, c, r, b, Serves(server, o, b))
      BY <1>3, <1>6, <2>3
    <3>3. \A j \in DOMAIN s : ~Starts(s, j, b)
      <4>1. /\ \A j \in DOMAIN s : s[j] = q[IF j < i THEN j ELSE j + 1]
            /\ Len(s) = Len(q) - 1 /\ i \in 1 .. Len(q) /\ DOMAIN q = 1 .. Len(q)
            /\ Len(q) \in Nat /\ DOMAIN s = 1 .. Len(s)
        <5>1. i \in DOMAIN q
          OBVIOUS
        <5> HIDE DEF NicGrant, q
        <5> QED BY <1>1, <1>5, <5>1, Removed
      <4> SUFFICES ASSUME NEW j \in DOMAIN s, Starts(s, j, b) PROVE FALSE
        OBVIOUS
      <4> DEFINE k == IF j < i THEN j ELSE j + 1
      <4> HIDE DEF s, q
      <4>2. k \in DOMAIN q /\ k # i
        BY <4>1
      <4>3. Starts(q, k, b)
        BY <4>1, <4>2 DEF Starts
      <4>4. i \in DOMAIN q
        BY <4>1
      <4> HIDE DEF k, c, r
      <4> QED BY <3>1, <3>2, <4>2, <4>3, <4>4 DEF Wire
    <3> HIDE DEF q, s, c, r
    <3>4. i \in DOMAIN q
      BY <3>1 DEF Starts
    <3> QED BY <3>1, <3>2, <3>3, <3>4 DEF Wire, Ends
  <2> HIDE DEF fd, apps, s
  <2>4. Report(o, apps, fd)
    BY <1>7 DEF fd, apps
  <2>5. fd.success <=> fd.app \in apps
    BY <2>1 DEF apps
  <2> HIDE DEF b
  <2> QED BY <1>4, <1>5, <1>6, <2>1, <2>2, <2>3, <2>4, <2>5, ReportKeeps
<1>8. CASE grant.stop /\ b \in c /\ Report(o, c \ {b}, SrvFD(o, b, FALSE, 0))
  <2> DEFINE fd   == SrvFD(o, b, FALSE, 0)
             apps == c \ {b}
  <2>1. fd \in MacReport /\ fd.app = b /\ ~fd.success /\ apps \in SUBSET Apps
    BY <1>1, <1>3 DEF SrvFD, MacReport
  <2>2. \A a \in Apps : a # b => (a \in apps <=> a \in c)
    OBVIOUS
  <2>3. ASSUME hasScheduler
        PROVE  /\ Serves(server, o, b)
               /\ \A j \in DOMAIN s : ~Starts(s, j, b)
               /\ \A j \in DOMAIN r : ~Ends(r, j, b)
    <3>1. Wire(s, c, r, b, Serves(server, o, b))
      BY <1>3, <1>6, <2>3
    <3> HIDE DEF s, c, r
    <3> QED BY <1>8, <3>1 DEF Wire
  <2> HIDE DEF fd, apps, s
  <2>4. Report(o, apps, fd)
    BY <1>8 DEF fd, apps
  <2>5. fd.success <=> fd.app \in apps
    BY <2>1 DEF apps
  <2> HIDE DEF b
  <2> QED BY <1>4, <1>5, <1>6, <2>1, <2>2, <2>3, <2>4, <2>5, ReportKeeps
<1>9. CASE UNCHANGED <<carrier, toServer>>
  <2>1. /\ toMac' \in [Gnbs -> Seq(NicGrant)] /\ toMac'[o] = s
        /\ \A p \in Gnbs : p # o => toMac'[p] = toMac[p]
    <3> HIDE DEF NicGrant, s
    <3> QED BY <1>1, <1>4, <1>5
  <2>2. ASSUME hasScheduler, NEW p \in Gnbs, NEW a \in Apps PROVE WireOk(server, p, a)'
    <3>1. WireOk(server, p, a) /\ Serves(server', p, a) = Serves(server, p, a)
      BY <1>4, <2>2 DEF IInv, WiresOk
    <3>2. p = o => Wire(s, c, r, a, Serves(server, o, a))
      BY <1>6, <2>2
    <3> HIDE DEF s
    <3> QED BY <1>9, <2>1, <3>1, <3>2 DEF WireOk
  <2> QED BY <1>4, <1>9, <2>1, <2>2 DEF IInv, WiresOk
<1> QED BY <1>4, <1>7, <1>8, <1>9

\* a vehicle makes the gNB adjust or end a service
LEMMA VehicleKeeps ==
  ASSUME IInv, NEW o \in Gnbs, NEW a \in Apps,
         Terminate(o, a) \/ \E used \in UsedBands : Adjust(o, a, used)
  PROVE  IInv'
<1> DEFINE s == toMac[o]
           c == carrier[o].apps
           r == toServer[o]
<1>1. /\ toMac \in [Gnbs -> Seq(NicGrant)] /\ s \in Seq(NicGrant) /\ c \subseteq Apps
  BY DEF IInv
<1>2. /\ a \in c /\ UNCHANGED <<server, hasScheduler, toMac>>
      /\ \E fd, apps : /\ Report(o, apps, fd) /\ fd \in MacReport /\ fd.app = a
                       /\ apps = IF fd.success THEN c ELSE c \ {a}
  <2>1. CASE Terminate(o, a)
    <3>1. SrvFD(o, a, FALSE, 0) \in MacReport /\ SrvFD(o, a, FALSE, 0).app = a
          /\ ~SrvFD(o, a, FALSE, 0).success
      BY DEF SrvFD, MacReport
    <3> QED BY <2>1, <3>1 DEF Terminate
  <2>2. CASE \E used \in UsedBands : Adjust(o, a, used)
    <3>1. PICK used \in UsedBands : Adjust(o, a, used)
      BY <2>2
    <3>2. SrvFD(o, a, TRUE, used) \in MacReport /\ SrvFD(o, a, TRUE, used).app = a
          /\ SrvFD(o, a, TRUE, used).success
      BY ServerAssumption DEF SrvFD, MacReport
    <3> QED BY <3>1, <3>2 DEF Adjust
  <2> QED BY <2>1, <2>2
<1>3. PICK fd, apps : /\ Report(o, apps, fd) /\ fd \in MacReport /\ fd.app = a
                      /\ apps = IF fd.success THEN c ELSE c \ {a}
  BY <1>2
<1>4. ASSUME hasScheduler, NEW b \in Apps PROVE Wire(s, c, r, b, Serves(server, o, b))
  BY <1>4 DEF IInv, WiresOk, WireOk
<1>5. /\ toMac' = [toMac EXCEPT ![o] = s] /\ apps \in SUBSET Apps
      /\ \A b \in Apps : b # fd.app => (b \in apps <=> b \in c)
      /\ fd.success <=> fd.app \in apps
  BY <1>1, <1>2, <1>3
<1>6. ASSUME hasScheduler
      PROVE  /\ Serves(server, o, a)
             /\ \A j \in DOMAIN s : ~Starts(s, j, a)
             /\ \A j \in DOMAIN r : ~Ends(r, j, a)
  <2>1. Wire(s, c, r, a, Serves(server, o, a))
    BY <1>4, <1>6
  <2> HIDE DEF s, c, r
  <2> QED BY <1>2, <2>1 DEF Wire
<1> HIDE DEF s
<1>7. hasScheduler =>
         /\ \A b \in Apps : Wire(s, c, r, b, Serves(server, o, b))
         /\ Serves(server, o, fd.app)
         /\ \A j \in DOMAIN s : ~Starts(s, j, fd.app)
         /\ \A j \in DOMAIN r : ~Ends(r, j, fd.app)
  BY <1>3, <1>4, <1>6
<1> QED BY <1>1, <1>2, <1>3, <1>5, <1>7, ReportKeeps

LEMMA InitIInv == Init => IInv
<1> SUFFICES ASSUME Init PROVE IInv
  OBVIOUS
<1>1. Fine(server) /\ server.out = <<>>
  BY InitialServerFine DEF Init
<1>2. toMac \in [Gnbs -> Seq(NicGrant)] /\ toServer \in [Gnbs -> Seq(MacReport)]
  <2>1. <<>> \in Seq(NicGrant) /\ <<>> \in Seq(MacReport)
    OBVIOUS
  <2> HIDE DEF NicGrant, MacReport
  <2> QED BY <2>1 DEF Init
<1>3. carrier \in [Gnbs -> [on : BOOLEAN, apps : SUBSET Apps]]
  BY DEF Init
<1> QED BY <1>1, <1>2, <1>3 DEF Init, IInv, WiresOk

LEMMA NextIInv == IInv /\ [Next]_vars => IInv'
<1> SUFFICES ASSUME IInv, [Next]_vars PROVE IInv'
  OBVIOUS
<1>1. ASSUME NEW grant \in SchedulerCommands, ReceiveSrvGrant(grant) PROVE IInv'
  BY <1>1, ReceiveSrvGrantKeeps
<1>2. CASE Tick
  BY <1>2, TickKeeps
<1>3. CASE ServiceInitComplete
  BY <1>3, ServiceInitCompleteKeeps
<1>4. ASSUME NEW o \in Gnbs, ReceiveSrvFD(o) PROVE IInv'
  BY <1>4, ReceiveSrvFDKeeps
<1>5. CASE ReceiveRsuFD
  BY <1>5, ReceiveRsuFDKeeps
<1>6. CASE LoseScheduler
  BY <1>6, LoseSchedulerKeeps
<1>7. CASE FindScheduler
  BY <1>7, FindSchedulerKeeps
<1>8. ASSUME NEW o \in Gnbs, NEW i \in DOMAIN toMac[o], NEW used \in UsedBands,
             TakeGrant(o, i, used)
      PROVE  IInv'
  BY <1>8, TakeGrantKeeps
<1>9. ASSUME NEW o \in Gnbs, NEW a \in Apps,
             Terminate(o, a) \/ \E used \in UsedBands : Adjust(o, a, used)
      PROVE  IInv'
  BY <1>9, VehicleKeeps
<1>10. ASSUME NEW o \in Gnbs, CarrierLoses(o) \/ CarrierFinds(o) PROVE IInv'
  BY <1>10, CarrierKeeps
<1>11. CASE UNCHANGED vars
  <2>1. /\ server' = server /\ hasScheduler' = hasScheduler /\ toMac' = toMac
        /\ carrier' = carrier /\ toServer' = toServer
    BY <1>11 DEF vars
  <2>2. WiresOk' = WiresOk
    BY <2>1 DEF WiresOk, WireOk
  <2> QED BY <2>1, <2>2 DEF IInv
<1> QED BY <1>1, <1>2, <1>3, <1>4, <1>5, <1>6, <1>7, <1>8, <1>9, <1>10, <1>11 DEF Next

(* Every reachable state satisfies the invariant of this module: the        *)
(* handlers of Server, run in any order against any scheduler and the MACs, *)
(* keep their books, whatever the number of gNBs and applications.          *)
THEOREM InductiveInvariant == Spec => []IInv
<1> QED BY InitIInv, NextIInv, PTL DEF Spec

-----------------------------------------------------------------------------
(* The properties.                                                         *)

\* the property's words for the parts of the invariant
LEMMA SameWords ==
  /\ Initializing = InitializingIn(server)
  /\ server.granted \ Initializing = RunningIn(server)
  /\ Waiting = server.appsWaitMacInitFb
BY DEF Initializing, InitializingIn, RunningIn, Waiting

(* The fields of the server keep their types: timeLeft never passes zero,   *)
(* though the completion of a service is a callback of its own.             *)
THEOREM TypeCorrect == Spec => []TypeOK
<1>1. ASSUME IInv PROVE TypeOK
  <2>1. server \in ServerRecord /\ server.out = <<>>
    BY <1>1 DEF IInv, Fine
  <2>2. server \in [gnbId : {Self}, cmpUnitFree : Int, granted : SUBSET Apps,
                    service : [Apps -> Service], appsWaitStop : SUBSET Apps,
                    appsWaitMacInitFb : SUBSET Apps, srvInInitVector : Seq(Apps),
                    timeLeft : [Apps -> Nat], timer : Nat \cup {NoTimer}, out : {<<>>}]
    <3> HIDE DEF Message, Service
    <3> QED BY <2>1 DEF ServerRecord
  <2> QED BY <1>1, <2>2 DEF TypeOK, IInv
<1> QED BY <1>1, InductiveInvariant, PTL

(* srvInInitVector_, srvInitCompleteTime_, the timer and grantedService_    *)
(* agree after every event of the server.                                   *)
THEOREM QueueStaysRight == Spec => []QueueMatchesServices
<1>1. ASSUME IInv PROVE QueueMatchesServices
  <2> DEFINE q == server.srvInInitVector
  <2>1. QueueOk(server) /\ q \in Seq(Apps)
    BY <1>1 DEF IInv, Fine, ServerRecord
  <2>2. ToSet(q) = Initializing
    <3>1. \A a : a \in ToSet(q) <=> \E i \in DOMAIN q : q[i] = a
      BY <2>1 DEF ToSet
    <3>2. /\ \A i \in DOMAIN q : q[i] \in InitializingIn(server)
          /\ \A a \in InitializingIn(server) : \E i \in DOMAIN q : q[i] = a
      BY <2>1 DEF QueueOk
    <3> HIDE DEF q
    <3>3. \A a : a \in ToSet(q) <=> a \in InitializingIn(server)
      BY <3>1, <3>2
    <3> QED BY <3>3, SameWords
  <2>3. IsInjective(q)
    BY <2>1 DEF QueueOk, IsInjective
  <2> QED BY <2>1, <2>2, <2>3 DEF QueueMatchesServices, QueueOk
<1> QED BY <1>1, InductiveInvariant, PTL

(* appsWaitStop_ and appsWaitMacInitFb_ hold services of the right phase.   *)
THEOREM WaitsStayCurrent == Spec => []WaitsAreCurrent
<1>1. ASSUME IInv PROVE WaitsAreCurrent
  BY <1>1, SameWords DEF IInv, Fine, WaitsOk, WaitsAreCurrent
<1> QED BY <1>1, InductiveInvariant, PTL

(* cmpUnitFree_ is what the running services leave of cmpUnitTotal_.        *)
THEOREM UnitsStayAccounted == Spec => []UnitsAccounted
<1>1. ASSUME IInv PROVE UnitsAccounted
  <2>1. [a \in Apps |-> IF a \in Charged THEN server.service[a].cmpUnits ELSE 0] = Cost(server)
    BY SameWords DEF Charged, Cost
  <2> QED BY <1>1, <2>1 DEF UnitsAccounted, UnitsOk, IInv, Fine
<1> QED BY <1>1, InductiveInvariant, PTL

(* What a MAC carries for this server, the server runs, as long as it has a *)
(* scheduler.                                                               *)
THEOREM CarriedStaysServed == Spec => []CarriedIsServed
<1>1. ASSUME IInv PROVE CarriedIsServed
  <2> SUFFICES ASSUME NEW o \in Gnbs, NEW a \in carrier[o].apps, hasScheduler
               PROVE  a \in server.granted \ Initializing /\ server.service[a].offloadGnb = o
    BY DEF CarriedIsServed
  <2>1. a \in Apps
    BY <1>1 DEF IInv
  <2>2. WireOk(server, o, a)
    BY <1>1, <2>1 DEF IInv, WiresOk
  <2>3. Serves(server, o, a)
    BY <2>2 DEF WireOk, Wire
  <2> QED BY <2>3, SameWords DEF Serves
<1> QED BY <1>1, InductiveInvariant, PTL

\* a handler run on v leaves nothing unsaid
TellsAll(v, h) ==
    \A a \in Apps :
        \/ a \in v.granted \ h.granted /\ a \notin v.appsWaitStop
        \/ a \in h.appsWaitStop \ v.appsWaitStop
        => SaysEnd(h, a)

\* what a step sends, a handler has sent that had charged or freed the units by then
LEMMA StepSays ==
  ASSUME IInv, Next
  PROVE  \E h : /\ Honest(h) /\ out' = h.out /\ server'.cmpUnitFree = h.cmpUnitFree
                /\ server'.granted = h.granted /\ server'.appsWaitStop = h.appsWaitStop
                /\ hasScheduler' => TellsAll(server, h)
<1>0. /\ Fine(server) /\ server.out = <<>> /\ server.granted \subseteq Apps
      /\ server.appsWaitStop \subseteq Apps /\ hasScheduler \in BOOLEAN
  BY DEF IInv, Fine, ServerRecord
<1>1. ASSUME NEW h, Fine(h), Perform(h), Honest(h), hasScheduler' => TellsAll(server, h)
      PROVE  /\ Honest(h) /\ out' = h.out /\ server'.cmpUnitFree = h.cmpUnitFree
             /\ server'.granted = h.granted /\ server'.appsWaitStop = h.appsWaitStop
             /\ hasScheduler' => TellsAll(server, h)
  BY <1>1, PerformFine DEF OnlySent
<1>2. Honest(server) /\ TellsAll(server, server)
  BY <1>0 DEF Honest, TellsAll
<1>3. ASSUME NEW grant \in SchedulerCommands, ReceiveSrvGrant(grant)
      PROVE  \E h : Fine(h) /\ Perform(h) /\ Honest(h) /\ TellsAll(server, h)
  <2> DEFINE h == HandleSrvGrant(server, grant, hasScheduler)
  <2>1. Perform(h)
    BY <1>3 DEF ReceiveSrvGrant
  <2>2. \/ h = server
        \/ /\ hasScheduler /\ grant \in SrvGrant /\ grant.start
           /\ grant.app \notin server.granted /\ h = InitializeService(server, grant)
        \/ /\ hasScheduler /\ ~grant.start
           /\ grant.app \in server.granted /\ h = StopService(server, grant.app)
    BY HandlesCommand
  <2> HIDE DEF h
  <2>3. CASE h = server
    BY <1>0, <1>2, <2>1, <2>3
  <2>4. CASE /\ grant \in SrvGrant
             /\ grant.app \notin server.granted /\ h = InitializeService(server, grant)
    <3>1. /\ Fine(h) /\ Honest(h) /\ server.granted \subseteq h.granted
          /\ h.appsWaitStop = server.appsWaitStop
      BY <1>0, <2>4, InitializeServiceFine
    <3>2. TellsAll(server, h)
      BY <3>1 DEF TellsAll
    <3> QED BY <2>1, <3>1, <3>2
  <2>5. CASE grant.app \in server.granted /\ h = StopService(server, grant.app)
    <3>1. /\ Fine(h) /\ Honest(h) /\ h.granted = server.granted
          /\ \/ h.appsWaitStop = server.appsWaitStop
             \/ /\ h.appsWaitStop = server.appsWaitStop \cup {grant.app}
                /\ SaysEnd(h, grant.app)
      BY <1>0, <2>5, StopServiceFine
    <3>2. TellsAll(server, h)
      BY <3>1 DEF TellsAll
    <3> QED BY <2>1, <3>1, <3>2
  <2> QED BY <2>2, <2>3, <2>4, <2>5
<1>4. ASSUME ServiceInitComplete
      PROVE  \E h : Fine(h) /\ Perform(h) /\ Honest(h) /\ TellsAll(server, h)
  <2> DEFINE h == HandleServiceInitComplete(server)
  <2>1. Perform(h) /\ server.srvInInitVector # <<>>
    BY <1>4, <1>0 DEF ServiceInitComplete, Fine, QueueOk, NoTimer
  <2>2. /\ Fine(h) /\ Honest(h) /\ h.appsWaitStop \subseteq server.appsWaitStop
        /\ \/ server.granted \ h.granted \subseteq server.appsWaitStop
           \/ server.granted = h.granted
    BY <1>0, <2>1, InitCompleteFine
  <2> HIDE DEF h
  <2>3. TellsAll(server, h)
    BY <2>2 DEF TellsAll
  <2> QED BY <2>1, <2>2, <2>3
<1>5. ASSUME NEW o \in Gnbs, ReceiveSrvFD(o)
      PROVE  \E h : Fine(h) /\ Perform(h) /\ Honest(h) /\ TellsAll(server, h)
  <2> DEFINE r  == toServer[o]
             fd == Head(r)
  <2>1. /\ r # <<>>
        /\ Perform(IF hasScheduler THEN HandleServiceFeedback(server, fd) ELSE server)
    BY <1>5 DEF ReceiveSrvFD
  <2>2. CASE ~hasScheduler
    <3>1. Perform(server)
      BY <2>1, <2>2
    <3> QED BY <1>0, <1>2, <3>1
  <2>3. CASE hasScheduler
    <3>1. fd \in MacReport /\ fd = r[1] /\ 1 \in DOMAIN r
      <4>1. r \in Seq(MacReport)
        BY DEF IInv
      <4> HIDE DEF r, MacReport
      <4> QED BY <2>1, <4>1, TailOf DEF fd
    <3>2. fd.app \in RunningIn(server)
      <4>1. fd.app \in Apps /\ Tells(r, 1, fd.app)
        BY <3>1 DEF Tells, MacReport
      <4>2. WireOk(server, o, fd.app)
        BY <2>3, <4>1 DEF IInv, WiresOk
      <4>3. Serves(server, o, fd.app)
        <5> DEFINE s == toMac[o]
                   c == carrier[o].apps
        <5>1. Wire(s, c, r, fd.app, Serves(server, o, fd.app))
          BY <4>2 DEF WireOk
        <5> HIDE DEF s, c, r, fd
        <5> QED BY <3>1, <4>1, <5>1 DEF Wire
      <4> QED BY <4>3 DEF Serves
    <3> DEFINE h == HandleServiceFeedback(server, fd)
    <3>3. Perform(h)
      BY <2>1, <2>3
    <3> HIDE DEF fd
    <3>4. /\ Fine(h) /\ Honest(h) /\ h.appsWaitStop = server.appsWaitStop
          /\ \/ h.granted = server.granted
             \/ h.granted = server.granted \ {fd.app} /\ SaysEnd(h, fd.app)
      BY <1>0, <3>1, <3>2, ServiceFeedbackFine
    <3> HIDE DEF h
    <3>5. TellsAll(server, h)
      BY <3>4 DEF TellsAll
    <3> QED BY <3>3, <3>4, <3>5
  <2> QED BY <2>2, <2>3, <1>0
<1>6. ASSUME ReceiveRsuFD
      PROVE  \E h : Fine(h) /\ Perform(h) /\ Honest(h) /\ TellsAll(server, h)
  <2> DEFINE h == HandleRsuFeedback(server, [gnb |-> Self, veh |-> NoUe, bytePerBand |-> 0,
                                             availBand |-> 0])
  <2>1. Perform(h)
    BY <1>6 DEF ReceiveRsuFD
  <2>2. Fine(h) /\ Honest(h) /\ OnlySent(server, h)
    BY <1>0, RsuFeedbackFine
  <2> HIDE DEF h
  <2>3. TellsAll(server, h)
    BY <2>2 DEF TellsAll, OnlySent
  <2> QED BY <2>1, <2>2, <2>3
<1>7. CASE \E h : Fine(h) /\ Perform(h) /\ Honest(h) /\ TellsAll(server, h)
  BY <1>1, <1>7
<1>8. CASE LoseScheduler
  <2>1. ~hasScheduler' /\ out' = <<>>
    BY <1>0, <1>8 DEF LoseScheduler, Perform, ReleaseServerResources, InitialServer
  <2>2. server'.out = <<>>
    BY <1>8, LoseSchedulerKeeps DEF IInv
  <2>3. Honest(server')
    BY <2>2 DEF Honest
  <2> QED BY <2>1, <2>2, <2>3
<1>9. ASSUME out' = <<>>, server'.granted = server.granted,
             server'.appsWaitStop = server.appsWaitStop, server'.out = <<>>
      PROVE  \E h : /\ Honest(h) /\ out' = h.out /\ server'.cmpUnitFree = h.cmpUnitFree
                    /\ server'.granted = h.granted /\ server'.appsWaitStop = h.appsWaitStop
                    /\ hasScheduler' => TellsAll(server, h)
  <2>1. Honest(server') /\ TellsAll(server, server')
    BY <1>9 DEF Honest, TellsAll
  <2> QED BY <1>9, <2>1
<1>10. CASE Tick
  <2>1. /\ server'.granted = server.granted /\ server'.appsWaitStop = server.appsWaitStop
        /\ out' = <<>> /\ server'.out = <<>>
    <3>1. server \in ServerRecord
      BY <1>0 DEF Fine
    <3> QED BY <1>0, <1>10, <3>1 DEF Tick, ServerRecord
  <2> QED BY <1>9, <2>1
<1>11. CASE \/ FindScheduler
            \/ \E o \in Gnbs : \E i \in DOMAIN toMac[o], used \in UsedBands : TakeGrant(o, i, used)
            \/ \E o \in Gnbs, a \in Apps :
                  Terminate(o, a) \/ \E used \in UsedBands : Adjust(o, a, used)
            \/ \E o \in Gnbs : CarrierLoses(o) \/ CarrierFinds(o)
  <2>1. server' = server /\ out' = <<>>
    BY <1>11 DEF FindScheduler, TakeGrant, Terminate, Adjust, CarrierLoses, CarrierFinds
  <2> QED BY <1>0, <1>9, <2>1
<1> QED BY <1>3, <1>4, <1>5, <1>6, <1>7, <1>8, <1>10, <1>11 DEF Next

(* A service that leaves grantedService_, or is marked in appsWaitStop_ to  *)
(* leave it, is reported to the scheduler in the same event; whatever the   *)
(* scheduler and the MACs do.                                               *)
THEOREM EndsStayReported == Spec => EndsAreReported
<1>1. ASSUME IInv, [Next]_vars
      PROVE  [\A a \in Apps :
                 \/ a \in server.granted \ server'.granted /\ a \notin server.appsWaitStop
                 \/ a \in server'.appsWaitStop \ server.appsWaitStop
                 => ReportsEnd(a) \/ ~hasScheduler']_vars
  <2>1. CASE Next
    <3>1. PICK h : /\ Honest(h) /\ out' = h.out /\ server'.cmpUnitFree = h.cmpUnitFree
                   /\ server'.granted = h.granted /\ server'.appsWaitStop = h.appsWaitStop
                   /\ hasScheduler' => TellsAll(server, h)
      BY <1>1, <2>1, StepSays
    <3>2. \A a : SaysEnd(h, a) => ReportsEnd(a)
      BY <3>1 DEF SaysEnd, ReportsEnd
    <3> QED BY <3>1, <3>2 DEF TellsAll
  <2>2. CASE UNCHANGED vars
    BY <2>2
  <2> QED BY <1>1, <2>1, <2>2
<1> QED BY <1>1, InductiveInvariant, PTL DEF Spec, EndsAreReported

(* The availCmpUnit of a dated report is cmpUnitFree_ as the event leaves   *)
(* it: no handler reports before it charges or frees.                       *)
THEOREM ReportsStayHonest == Spec => ReportsFreeUnits
<1>1. ASSUME IInv, [Next]_vars
      PROVE  [\A i \in DOMAIN out' :
                 out'[i].type = "SrvFD" /\ out'[i].dated
                    => out'[i].availCmpUnit = server'.cmpUnitFree]_vars
  <2>1. CASE Next
    <3>1. PICK h : Honest(h) /\ out' = h.out /\ server'.cmpUnitFree = h.cmpUnitFree
      BY <1>1, <2>1, StepSays
    <3> QED BY <3>1 DEF Honest
  <2>2. CASE UNCHANGED vars
    BY <2>2
  <2> QED BY <1>1, <2>1, <2>2
<1> QED BY <1>1, InductiveInvariant, PTL DEF Spec, ReportsFreeUnits

=============================================================================
