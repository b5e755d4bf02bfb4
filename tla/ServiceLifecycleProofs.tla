------------------------- MODULE ServiceLifecycleProofs -------------------------
(***************************************************************************)
(* Theorems about module ServiceLifecycle: every request is in one place,  *)
(* an application has one server and one gNB, scheduler, servers and gNBs  *)
(* agree when every message has arrived, no start finds a rest of the      *)
(* last service, no server gives out more units than it has, and what the  *)
(* scheduler holds back is what its starts ask for.                        *)
(*                                                                         *)
(* The first four rest on the invariant IInv.                              *)
(* A service is a chain: a start on its way to a server, an initializing   *)
(* service there, a NicGrant on its way to a gNB, an application the gNB   *)
(* carries, a failure on its way back.  Single(a) says that a has at most  *)
(* one link of each kind and none beside a start; Wire(o, p, a) that what  *)
(* gNB o and server p say to each other is about a service of p, and that  *)
(* nothing follows a failure; Booked(a), while all nodes know the          *)
(* scheduler, that each link is in its books at the nodes it is at, and    *)
(* that whatever is in its books has a link.  So when nothing is on its    *)
(* way (Prompt) after every service was told to stop (RescheduleAll), the  *)
(* links and the books are both empty: the next schedule starts afresh.    *)
(* Stops and Phase say in which part of the period stops are under way,    *)
(* Counts that the last message of a server tells what it has free.        *)
(*                                                                         *)
(* One lemma per action says that it keeps the invariant.  Most steps are  *)
(* about one application: ServerStep and MacStep leave its life to prove,  *)
(* LifeKept carries that of all others over.  The steps of servers and     *)
(* MACs come first, then those of the scheduler, its loss and its election,*)
(* and then the second invariant, about the units, that the last two need. *)
(***************************************************************************)
EXTENDS ServiceLifecycle, SumTheorems, SequenceTheorems

-----------------------------------------------------------------------------
(* The channels, by the messages they hold (Has, Once and Ending of module  *)
(* SumTheorems).                                                            *)

\* a channel without its i-th message
LEMMA HasRemoved ==
  ASSUME NEW S, NEW s \in Seq(S), NEW i \in DOMAIN s
  PROVE  /\ s[i] \in S /\ RemoveAt(s, i) \in Seq(S)
         /\ \A M : Has(s, M) <=> s[i] \in M \/ Has(RemoveAt(s, i), M)
         /\ \A M : Once(s, M) => Once(RemoveAt(s, i), M) /\ (s[i] \in M => ~Has(RemoveAt(s, i), M))
         /\ \A E, T : Ending(s, E, T) => Ending(RemoveAt(s, i), E, T)
<1> DEFINE l == SubSeq(s, 1, i - 1)
           r == SubSeq(s, i + 1, Len(s))
           t == RemoveAt(s, i)
           n == Len(s)
<1>0. n \in Nat /\ i \in 1 .. n /\ DOMAIN s = 1 .. n /\ s[i] \in S
  OBVIOUS
<1>1. l \in Seq(S) /\ Len(l) = i - 1 /\ \A j \in 1 .. i - 1 : l[j] = s[j]
  BY <1>0
<1>2. /\ r \in Seq(S) /\ Len(r) = Len(s) - i
      /\ \A j \in 1 .. Len(s) - i : r[j] = s[i + j]
  BY <1>0, SMTT(60)
<1>3. t = l \o r
  BY DEF RemoveAt
<1> HIDE DEF l, r, t
<1>4. /\ l \o r \in Seq(S) /\ Len(l \o r) = Len(s) - 1
      /\ \A j \in 1 .. i - 1 : (l \o r)[j] = l[j]
      /\ \A j \in i .. Len(s) - 1 : (l \o r)[j] = r[j - (i - 1)]
  <2>1. /\ l \o r \in Seq(S) /\ Len(l \o r) = Len(l) + Len(r)
        /\ \A j \in 1 .. Len(l) + Len(r) :
              (l \o r)[j] = IF j <= Len(l) THEN l[j] ELSE r[j - Len(l)]
    BY <1>1, <1>2, ConcatProperties
  <2>2. Len(l) = i - 1 /\ Len(l) + Len(r) = n - 1 /\ Len(l) \in Nat
    BY <1>0, <1>1, <1>2
  <2> QED BY <2>1, <2>2, <1>0, SMTT(60)
<1>5. ASSUME NEW j \in i .. Len(s) - 1 PROVE (l \o r)[j] = s[j + 1]
  <2>1. j - (i - 1) \in 1 .. Len(s) - i /\ i + (j - (i - 1)) = j + 1
    BY <1>0
  <2> QED BY <1>2, <1>4, <2>1
<1>6. /\ t \in Seq(S) /\ DOMAIN t = 1 .. n - 1
      /\ \A j \in 1 .. i - 1 : t[j] = s[j]
      /\ \A j \in i .. n - 1 : t[j] = s[j + 1]
  BY <1>1, <1>3, <1>4, <1>5, <1>0
<1> HIDE DEF n
<1>7. /\ \A j \in DOMAIN s : j < i => j \in DOMAIN t /\ t[j] = s[j]
      /\ \A j \in DOMAIN s : j > i => j - 1 \in DOMAIN t /\ t[j - 1] = s[j]
      /\ \A j \in DOMAIN t : j < i => j \in DOMAIN s /\ t[j] = s[j] /\ j # i
      /\ \A j \in DOMAIN t : ~(j < i) => j + 1 \in DOMAIN s /\ t[j] = s[j + 1] /\ j + 1 # i
  BY <1>0, <1>6, SMTT(60)
<1>8. ASSUME NEW M PROVE Has(s, M) <=> s[i] \in M \/ Has(t, M)
  <2>1. ASSUME Has(s, M), s[i] \notin M PROVE Has(t, M)
    <3>1. PICK j \in DOMAIN s : s[j] \in M
      BY <2>1 DEF Has
    <3>2. j < i \/ j > i
      BY <3>1, <2>1, <1>0
    <3> QED BY <3>1, <3>2, <1>7 DEF Has
  <2>2. ASSUME Has(t, M) PROVE Has(s, M)
    BY <2>2, <1>7 DEF Has
  <2> QED BY <2>1, <2>2 DEF Has
<1>9. ASSUME NEW M, Once(s, M) PROVE Once(t, M) /\ (s[i] \in M => ~Has(t, M))
  <2> DEFINE at(j) == IF j < i THEN j ELSE j + 1
  <2>1. ASSUME NEW j \in DOMAIN t
        PROVE  at(j) \in DOMAIN s /\ t[j] = s[at(j)] /\ at(j) # i
    BY <1>7
  <2>2. ASSUME NEW j \in DOMAIN t, NEW k \in DOMAIN t, t[j] \in M, t[k] \in M PROVE j = k
    <3>1. at(j) = at(k)
      <4> HIDE DEF at
      <4> QED BY <2>1, <2>2, <1>9 DEF Once
    <3>2. j \in Nat /\ k \in Nat
      BY <1>6
    <3> QED BY <3>1, <3>2, <1>0
  <2>3. ASSUME s[i] \in M, NEW j \in DOMAIN t, t[j] \in M PROVE FALSE
    <3> HIDE DEF at
    <3> QED BY <2>1, <2>3, <1>9 DEF Once
  <2> QED BY <2>2, <2>3 DEF Once, Has
<1>10. ASSUME NEW E, NEW T, Ending(s, E, T),
              NEW j \in DOMAIN t, NEW k \in DOMAIN t, t[j] \in E, t[k] \in T
       PROVE  k <= j
  <2> DEFINE at(x) == IF x < i THEN x ELSE x + 1
  <2>1. \A x \in DOMAIN t : at(x) \in DOMAIN s /\ t[x] = s[at(x)]
    BY <1>7
  <2>2. at(k) <= at(j)
    <3> HIDE DEF at
    <3> QED BY <2>1, <1>10 DEF Ending
  <2>3. j \in Nat /\ k \in Nat /\ i \in Nat
    BY <1>0, <1>6
  <2> QED BY <2>2, <2>3
<1>11. \A E, T : Ending(s, E, T) => Ending(t, E, T)
  BY <1>10 DEF Ending
<1> QED BY <1>0, <1>6, <1>8, <1>9, <1>11 DEF t

\* a channel with a batch of messages behind it
LEMMA HasConcat ==
  ASSUME NEW S, NEW s \in Seq(S), NEW r \in Seq(S)
  PROVE  /\ s \o r \in Seq(S)
         /\ \A M : Has(s \o r, M) <=> Has(s, M) \/ Has(r, M)
         /\ \A M : Once(r, M) /\ ~Has(s, M) => Once(s \o r, M)
         /\ \A M : Once(s, M) /\ ~Has(r, M) => Once(s \o r, M)
         /\ \A E, T : Ending(s, E, T) /\ ~Has(r, E) /\ ~Has(r, T) => Ending(s \o r, E, T)
<1> DEFINE t == s \o r
<1>1. /\ t \in Seq(S) /\ DOMAIN s = 1 .. Len(s) /\ DOMAIN r = 1 .. Len(r)
      /\ Len(s) \in Nat /\ Len(r) \in Nat /\ DOMAIN t = 1 .. Len(s) + Len(r)
      /\ \A i \in 1 .. Len(s) + Len(r) : t[i] = IF i <= Len(s) THEN s[i] ELSE r[i - Len(s)]
  BY ConcatProperties
<1> HIDE DEF t
<1>2. /\ \A i \in DOMAIN s : i \in DOMAIN t /\ t[i] = s[i]
      /\ \A i \in DOMAIN r : Len(s) + i \in DOMAIN t /\ t[Len(s) + i] = r[i]
  BY <1>1
<1>3. \A i \in DOMAIN t : \/ i \in DOMAIN s /\ t[i] = s[i]
                          \/ i - Len(s) \in DOMAIN r /\ t[i] = r[i - Len(s)] /\ i \in Nat
  BY <1>1
<1>4. ASSUME NEW M PROVE Has(t, M) <=> Has(s, M) \/ Has(r, M)
  BY <1>2, <1>3 DEF Has
<1>5. ASSUME NEW M, Once(r, M), ~Has(s, M),
             NEW i \in DOMAIN t, NEW j \in DOMAIN t, t[i] \in M, t[j] \in M
      PROVE  i = j
  <2>1. /\ i - Len(s) \in DOMAIN r /\ t[i] = r[i - Len(s)] /\ i \in Nat
        /\ j - Len(s) \in DOMAIN r /\ t[j] = r[j - Len(s)] /\ j \in Nat
    BY <1>3, <1>5 DEF Has
  <2>2. i - Len(s) = j - Len(s)
    BY <2>1, <1>5 DEF Once
  <2> QED BY <2>1, <2>2, <1>1
<1>6. \A M : Once(r, M) /\ ~Has(s, M) => Once(t, M)
  BY <1>5 DEF Once
<1>7. ASSUME NEW M, ~Has(r, M), NEW i \in DOMAIN t, t[i] \in M
      PROVE  i \in DOMAIN s /\ s[i] \in M
  BY <1>3, <1>7 DEF Has
<1>8. \A M : Once(s, M) /\ ~Has(r, M) => Once(t, M)
  BY <1>7 DEF Once
<1>9. \A E, T : Ending(s, E, T) /\ ~Has(r, E) /\ ~Has(r, T) => Ending(t, E, T)
  BY <1>7 DEF Ending
<1> QED BY <1>1, <1>4, <1>6, <1>8, <1>9 DEF t

-----------------------------------------------------------------------------
(* The messages.                                                           *)

NicGrant ==
    [type : {"NicGrant"}, app : Apps, stop : BOOLEAN, bands : Nat, load : Nat,
     processGnb : Gnbs, offloadGnb : Gnbs]
MacReport ==
    [app : Apps, success : BOOLEAN, processGnb : Gnbs, offloadGnb : Gnbs, usedBand : Nat]
\* the answers of a server; one to a command it cannot follow names no bands
Refusal ==
    [type : {"SrvFD"}, app : Apps, success : {FALSE}, processGnb : Gnbs, offloadGnb : Gnbs,
     dated : {TRUE}, availCmpUnit : Int]
Answer ==
    [type : {"SrvFD"}, app : Apps, success : BOOLEAN, processGnb : Gnbs, offloadGnb : Gnbs,
     dated : {TRUE}, availCmpUnit : Int, grantedBand : {0}]
SrvFD == Refusal \cup Answer
RsuFD ==
    [type : {"RsuFD"}, gnb : Gnbs, veh : Ues \cup {NoUe}, bytePerBand : Nat, availBand : Nat,
     freeCmpUnits : Int]

\* what a channel may hold
CommandTo(n) == {m \in SrvGrant : m.processGnb = n}
GrantTo(o) == {m \in NicGrant : m.offloadGnb = o}
ReportTo(o, p) == {m \in MacReport : m.offloadGnb = o /\ m.processGnb = p}
StatusOf(n) == {m \in SrvFD : m.processGnb = n} \cup {m \in RsuFD : m.gnb = n}

\* the messages about an application
Start(a) == {m \in SrvGrant : m.app = a /\ m.start}
Stop(a) == {m \in SrvGrant : m.app = a /\ ~m.start}
Begin(a) == {m \in NicGrant : m.app = a /\ ~m.stop}
BeginFor(a, p) == {m \in Begin(a) : m.processGnb = p}
End(a) == {m \in NicGrant : m.app = a /\ m.stop}
Tell(a) == {m \in MacReport : m.app = a}
Fail(a) == {m \in Tell(a) : ~m.success}
Say(a) == {m \in SrvFD : m.app = a}
Refuse(a) == {m \in Say(a) : ~m.success}

-----------------------------------------------------------------------------
(* A server between two assignments of its handlers.                        *)

ServerRecord(n) ==
    [gnbId : {n}, cmpUnitFree : Int, granted : SUBSET Apps, service : [Apps -> Service],
     appsWaitStop : SUBSET Apps, appsWaitMacInitFb : SUBSET Apps,
     srvInInitVector : Seq(Apps), timeLeft : [Apps -> Nat], timer : Nat \cup {NoTimer},
     out : Seq(NicGrant \cup StatusOf(n))]

InitializingIn(v) == {a \in v.granted : ~v.service[a].initComplete}
RunningIn(v) == {a \in v.granted : v.service[a].initComplete}

QueueOk(v) ==
    /\ \A a \in Apps : a \in InitializingIn(v) <=> Has(v.srvInInitVector, {a})
    /\ \A a \in Apps : Once(v.srvInInitVector, {a})
    /\ v.srvInInitVector = <<>> => v.timer = NoTimer

Fine(v, n) ==
    /\ v \in ServerRecord(n)
    /\ QueueOk(v)
    /\ v.appsWaitStop = {}
    /\ v.appsWaitMacInitFb \subseteq RunningIn(v)
    /\ \A a \in v.granted : v.service[a].processGnb = n /\ v.service[a].offloadGnb \in Gnbs

\* h is v but for application a
SameBut(v, h, a) ==
    \A b \in Apps : b # a =>
        /\ b \in h.granted <=> b \in v.granted
        /\ h.service[b] = v.service[b]
        /\ b \in h.appsWaitMacInitFb <=> b \in v.appsWaitMacInitFb

-----------------------------------------------------------------------------
(* What the assignments of the handlers do to a server.                     *)

\* an element is put somewhere into a queue
LEMMA HasInserted ==
  ASSUME NEW S, NEW q \in Seq(S), NEW a \in S, NEW k \in 0 .. Len(q)
  PROVE  LET n == InsertAt(q, k + 1, a)
         IN  /\ n \in Seq(S) /\ n # <<>>
             /\ \A M : Has(n, M) <=> Has(q, M) \/ a \in M
             /\ \A M : Once(q, M) /\ (a \in M => ~Has(q, M)) => Once(n, M)
<1> DEFINE l == SubSeq(q, 1, k)
           r == SubSeq(q, k + 1, Len(q))
           m == l \o <<a>>
           n == m \o r
<1>1. l \in Seq(S) /\ Len(l) = k /\ \A i \in 1 .. k : l[i] = q[i]
  OBVIOUS
<1>2. /\ r \in Seq(S) /\ Len(r) = Len(q) - k
      /\ \A i \in 1 .. Len(q) - k : r[i] = q[k + i]
  OBVIOUS
<1>3. InsertAt(q, k + 1, a) = n
  <2>1. (k + 1) - 1 = k
    OBVIOUS
  <2> QED BY <2>1 DEF InsertAt
<1> HIDE DEF l, r, InsertAt
<1>4. /\ m \in Seq(S) /\ Len(m) = k + 1 /\ m[k + 1] = a
      /\ \A i \in 1 .. k : m[i] = l[i]
  BY <1>1
<1> HIDE DEF m
<1>5. /\ n \in Seq(S) /\ DOMAIN n = 1 .. Len(q) + 1
      /\ \A i \in 1 .. k + 1 : n[i] = m[i]
      /\ \A i \in k + 2 .. Len(q) + 1 : n[i] = r[i - (k + 1)]
  <2>1. Len(m) + Len(r) = Len(q) + 1
    BY <1>2, <1>4
  <2>2. /\ m \o r \in Seq(S) /\ Len(m \o r) = Len(m) + Len(r)
        /\ \A i \in 1 .. Len(m) + Len(r) :
              (m \o r)[i] = IF i <= Len(m) THEN m[i] ELSE r[i - Len(m)]
    BY <1>2, <1>4, ConcatProperties
  <2> QED BY <2>1, <2>2, <1>4
<1> HIDE DEF n
<1> DEFINE from(i) == IF i < k + 1 THEN i ELSE i - 1
<1>6. /\ k + 1 \in DOMAIN n /\ n[k + 1] = a
      /\ \A i \in DOMAIN n : i # k + 1 => i \in Nat /\ from(i) \in DOMAIN q /\ n[i] = q[from(i)]
      /\ \A i \in DOMAIN n, j \in DOMAIN n : i # k + 1 /\ j # k + 1 /\ from(i) = from(j) => i = j
  <2>1. DOMAIN q = 1 .. Len(q) /\ Len(q) \in Nat
    OBVIOUS
  <2>2. k + 1 \in DOMAIN n /\ n[k + 1] = a
    BY <1>4, <1>5
  <2>3. ASSUME NEW i \in DOMAIN n, i # k + 1
        PROVE  i \in Nat /\ from(i) \in DOMAIN q /\ n[i] = q[from(i)]
    <3>1. CASE i < k + 1
      BY <3>1, <1>1, <1>4, <1>5, <2>1
    <3>2. CASE i > k + 1
      <4>0. i \in Nat /\ i <= Len(q) + 1
        BY <1>5, <2>1
      <4>1. i - (k + 1) \in 1 .. Len(q) - k /\ k + (i - (k + 1)) = i - 1
        <5> HIDE DEF from
        <5> QED BY <3>2, <4>0, <2>1
      <4>2. n[i] = r[i - (k + 1)]
        BY <3>2, <1>5, <2>1
      <4> QED BY <3>2, <4>1, <4>2, <1>2, <1>5, <2>1, SMTT(60)
    <3> QED BY <3>1, <3>2, <2>3, <1>5, <2>1
  <2>4. ASSUME NEW i \in DOMAIN n, NEW j \in DOMAIN n, i # k + 1, j # k + 1, from(i) = from(j)
        PROVE  i = j
    BY <2>4, <1>5, <2>1
  <2> HIDE DEF from
  <2> QED BY <2>2, <2>3, <2>4
<1>7. ASSUME NEW i \in DOMAIN q PROVE \E j \in DOMAIN n : j # k + 1 /\ n[j] = q[i]
  <2>1. DOMAIN q = 1 .. Len(q) /\ Len(q) \in Nat
    OBVIOUS
  <2>2. CASE i < k + 1
    BY <2>1, <2>2, <1>5, <1>6
  <2>3. CASE ~(i < k + 1)
    <3>1. i + 1 \in DOMAIN n /\ i + 1 # k + 1 /\ ~(i + 1 < k + 1) /\ (i + 1) - 1 = i
      BY <2>1, <2>3, <1>5
    <3> QED BY <3>1, <1>6
  <2> QED BY <2>2, <2>3
<1> HIDE DEF from
<1>8. ASSUME NEW M PROVE Has(n, M) <=> Has(q, M) \/ a \in M
  BY <1>6, <1>7 DEF Has
<1>9. ASSUME NEW M, Once(q, M), a \in M => ~Has(q, M),
             NEW i \in DOMAIN n, NEW j \in DOMAIN n, n[i] \in M, n[j] \in M
      PROVE  i = j
  <2>1. CASE i = k + 1 \/ j = k + 1
    BY <2>1, <1>6, <1>9 DEF Has
  <2>2. CASE i # k + 1 /\ j # k + 1
    BY <2>2, <1>6, <1>9 DEF Once
  <2> QED BY <2>1, <2>2
<1>10. \A M : Once(q, M) /\ (a \in M => ~Has(q, M)) => Once(n, M)
  BY <1>9 DEF Once
<1>11. n # <<>>
  BY <1>6
<1> QED BY <1>3, <1>5, <1>8, <1>10, <1>11

\* h is v but for what it has sent
ButOut(v, h) ==
    /\ h.cmpUnitFree = v.cmpUnitFree /\ h.granted = v.granted /\ h.service = v.service
    /\ h.appsWaitMacInitFb = v.appsWaitMacInitFb /\ h.srvInInitVector = v.srvInInitVector
    /\ h.timeLeft = v.timeLeft /\ h.timer = v.timer /\ h.appsWaitStop = v.appsWaitStop
    /\ h.gnbId = v.gnbId

\* h is v but for its services
ButServices(v, h) ==
    /\ h.cmpUnitFree = v.cmpUnitFree /\ h.appsWaitMacInitFb = v.appsWaitMacInitFb
    /\ h.srvInInitVector = v.srvInInitVector /\ h.timeLeft = v.timeLeft
    /\ h.timer = v.timer /\ h.appsWaitStop = v.appsWaitStop /\ h.gnbId = v.gnbId
    /\ h.out = v.out

\* a message is sent
LEMMA SendOutFields ==
  ASSUME NEW n \in Gnbs, NEW v \in ServerRecord(n), NEW msg \in NicGrant \cup StatusOf(n)
  PROVE  LET h == SendOut(v, msg)
         IN  h \in ServerRecord(n) /\ h.out = Append(v.out, msg) /\ ButOut(v, h)
<1> DEFINE sent == Append(v.out, msg)
           S    == NicGrant \cup StatusOf(n)
<1>1. sent \in Seq(S)
  <2>1. v.out \in Seq(S) /\ msg \in S
    BY DEF ServerRecord
  <2> HIDE DEF S
  <2> QED BY <2>1
<1> HIDE DEF sent, S
<1>2. SendOut(v, msg) = [v EXCEPT !.out = sent]
  BY DEF SendOut, sent
<1>3. /\ [v EXCEPT !.out = sent] \in ServerRecord(n) /\ [v EXCEPT !.out = sent].out = sent
  BY <1>1 DEF ServerRecord, S
<1> QED BY <1>2, <1>3 DEF ServerRecord, sent, ButOut

\* a service is put down
LEMMA StoreFields ==
  ASSUME NEW n \in Gnbs, NEW v \in ServerRecord(n), NEW a \in Apps, NEW srv \in Service
  PROVE  LET h == Store(v, a, srv)
         IN  /\ h \in ServerRecord(n) /\ h.granted = v.granted \cup {a}
             /\ h.service = [v.service EXCEPT ![a] = srv] /\ ButServices(v, h)
<1> DEFINE stored == [v.service EXCEPT ![a] = srv]
           apps   == v.granted \cup {a}
           S      == Seq(NicGrant \cup StatusOf(n))
<1>1. stored \in [Apps -> Service] /\ apps \in SUBSET Apps
  <2>1. v.service \in [Apps -> Service] /\ v.granted \in SUBSET Apps
    BY DEF ServerRecord
  <2> HIDE DEF Service
  <2> QED BY <2>1
<1>2. Store(v, a, srv) = [v EXCEPT !.granted = apps, !.service = stored]
  BY DEF Store, ServerRecord
<1> HIDE DEF stored, apps, S
<1>3. [v EXCEPT !.granted = apps, !.service = stored] \in ServerRecord(n)
  BY <1>1 DEF ServerRecord
<1> QED BY <1>1, <1>2, <1>3 DEF ServerRecord, stored, apps, ButServices

\* a service is erased
LEMMA EraseFields ==
  ASSUME NEW n \in Gnbs, NEW v \in ServerRecord(n), NEW a \in Apps
  PROVE  LET h == Erase(v, a)
         IN  /\ h \in ServerRecord(n) /\ h.granted = v.granted \ {a}
             /\ h.service = [v.service EXCEPT ![a] = DefaultService] /\ ButServices(v, h)
<1> DEFINE stored == [v.service EXCEPT ![a] = DefaultService]
           apps   == v.granted \ {a}
<1>1. stored \in [Apps -> Service] /\ apps \in SUBSET Apps
  <2>1. v.service \in [Apps -> Service] /\ v.granted \in SUBSET Apps
    BY DEF ServerRecord
  <2>2. DefaultService \in Service
    BY DEF DefaultService, Service
  <2> HIDE DEF Service, DefaultService
  <2> QED BY <2>1, <2>2
<1>2. Erase(v, a) = [v EXCEPT !.granted = apps, !.service = stored]
  BY DEF Erase, ServerRecord
<1> HIDE DEF stored, apps
<1>3. [v EXCEPT !.granted = apps, !.service = stored] \in ServerRecord(n)
  BY <1>1 DEF ServerRecord
<1> QED BY <1>1, <1>2, <1>3 DEF ServerRecord, stored, apps, ButServices

\* a server whose services and queue stay what they are is still fine
LEMMA FineKept ==
  ASSUME NEW n \in Gnbs, NEW v, Fine(v, n), NEW h \in ServerRecord(n),
         h.granted = v.granted, \A a \in v.granted : h.service[a] = v.service[a],
         h.appsWaitMacInitFb = v.appsWaitMacInitFb, h.srvInInitVector = v.srvInInitVector,
         h.timer = v.timer, h.appsWaitStop = v.appsWaitStop
  PROVE  Fine(h, n)
<1>1. InitializingIn(h) = InitializingIn(v) /\ RunningIn(h) = RunningIn(v)
  BY DEF InitializingIn, RunningIn
<1>2. QueueOk(h)
  BY <1>1 DEF QueueOk, Fine
<1> QED BY <1>1, <1>2 DEF Fine

\* what the handler sent: an answer about a service, from server n; the units
\* in it are those the server has afterwards
Answers(h, n, a, o, success) ==
    \E m \in Say(a) \cap StatusOf(n) :
       /\ h.out = <<m>> /\ m.offloadGnb = o /\ m.success = success
       /\ m.availCmpUnit = h.cmpUnitFree

\* or a grant to a MAC, to begin a service or to end one
Asks(h, n, a, o, stop) ==
    \E m \in GrantTo(o) : h.out = <<m>> /\ m.app = a /\ m.stop = stop /\ m.processGnb = n

\* or the status of its gNB
Tells(h, n) ==
    \E m \in RsuFD : h.out = <<m>> /\ m.gnb = n /\ m.freeCmpUnits = h.cmpUnitFree

\* the answer of a server that does not start a service
LEMMA SendFailureFields ==
  ASSUME NEW n \in Gnbs, NEW v \in ServerRecord(n), v.out = <<>>,
         NEW a \in Apps, NEW o \in Gnbs
  PROVE  LET h == SendFailure(v, a, n, o, TRUE)
         IN  h \in ServerRecord(n) /\ ButOut(v, h) /\ Answers(h, n, a, o, FALSE)
<1> DEFINE m == [type |-> "SrvFD", app |-> a, success |-> FALSE, processGnb |-> n,
                 offloadGnb |-> o, dated |-> TRUE, availCmpUnit |-> v.cmpUnitFree]
           h == SendFailure(v, a, n, o, TRUE)
<1>1. v.cmpUnitFree \in Int
  BY DEF ServerRecord
<1>2. m \in Refusal
  BY <1>1 DEF Refusal
<1>3. m \in Say(a) /\ m \in StatusOf(n)
  BY <1>2 DEF Say, SrvFD, StatusOf
<1>4. h = SendOut(v, m)
  BY DEF SendFailure
<1>5. m.offloadGnb = o /\ m.success = FALSE
  OBVIOUS
<1> HIDE DEF m, h
<1>6. h \in ServerRecord(n) /\ h.out = Append(v.out, m) /\ ButOut(v, h)
  BY <1>3, <1>4, SendOutFields
<1>7. h.out = <<m>>
  BY <1>6
<1>8. m.availCmpUnit = h.cmpUnitFree
  BY <1>6 DEF m, ButOut
<1> QED BY <1>3, <1>5, <1>6, <1>7, <1>8 DEF h, Answers

\* a start, accepted or refused
LEMMA InitializeServiceFine ==
  ASSUME NEW n \in Gnbs, NEW v, Fine(v, n), v.out = <<>>,
         NEW grant \in CommandTo(n), grant.app \notin v.granted
  PROVE  LET h == InitializeService(v, grant)
             a == grant.app
         IN  /\ Fine(h, n) /\ SameBut(v, h, a) /\ h.cmpUnitFree = v.cmpUnitFree
             /\ a \notin h.appsWaitMacInitFb
             /\ \/ /\ h.out = <<>> /\ a \in InitializingIn(h)
                   /\ h.service[a].offloadGnb = grant.offloadGnb
                   /\ h.service[a].cmpUnits = grant.cmpUnits
                \/ /\ a \notin h.granted /\ h.srvInInitVector = v.srvInInitVector
                   /\ Answers(h, n, a, grant.offloadGnb, FALSE)
<1> DEFINE a   == grant.app
           srv == [processGnb |-> grant.processGnb, offloadGnb |-> grant.offloadGnb,
                   cmpUnits |-> grant.cmpUnits, bands |-> grant.bands, load |-> grant.load,
                   initComplete |-> FALSE]
           h == InitializeService(v, grant)
<1>1. /\ a \in Apps /\ grant.processGnb = n /\ grant.offloadGnb \in Gnbs /\ grant.initTime \in Nat
      /\ grant.cmpUnits \in Nat /\ srv \in Service /\ ~srv.initComplete
      /\ srv.processGnb = n /\ srv.offloadGnb = grant.offloadGnb /\ srv.cmpUnits = grant.cmpUnits
  BY DEF CommandTo, SrvGrant, Service
<1>2. /\ v \in ServerRecord(n) /\ v.gnbId = n /\ v.granted \subseteq Apps
      /\ v.service \in [Apps -> Service] /\ a \notin v.granted
      /\ v.appsWaitMacInitFb \subseteq v.granted /\ v.cmpUnitFree \in Int
  BY DEF Fine, ServerRecord, RunningIn
<1>3. CASE v.cmpUnitFree < grant.cmpUnits
  <2> DEFINE o == grant.offloadGnb
             w == SendFailure(v, a, n, o, TRUE)
  <2>1. h = Erase(w, a)
    BY <1>1, <1>2, <1>3 DEF InitializeService
  <2> HIDE DEF w, h, srv, a, o
  <2>2. /\ w \in ServerRecord(n) /\ ButOut(v, w) /\ Answers(w, n, a, o, FALSE)
    BY <1>1, <1>2, SendFailureFields DEF w, o
  <2>3. /\ h \in ServerRecord(n) /\ h.granted = w.granted \ {a}
        /\ h.service = [w.service EXCEPT ![a] = DefaultService] /\ ButServices(w, h)
    BY <1>1, <2>1, <2>2, EraseFields
  <2>4. /\ h.granted = v.granted /\ h.appsWaitMacInitFb = v.appsWaitMacInitFb
        /\ h.srvInInitVector = v.srvInInitVector /\ h.timer = v.timer
        /\ h.appsWaitStop = v.appsWaitStop /\ h.cmpUnitFree = v.cmpUnitFree /\ h.out = w.out
    BY <1>2, <2>2, <2>3 DEF ButOut, ButServices
  <2>5. \A b \in Apps : b # a => h.service[b] = v.service[b]
    BY <1>2, <2>2, <2>3 DEF ButOut
  <2>6. Fine(h, n)
    <3>1. \A b \in v.granted : h.service[b] = v.service[b]
      BY <1>2, <2>5
    <3> QED BY <2>3, <2>4, <3>1, FineKept
  <2>7. SameBut(v, h, a)
    BY <2>4, <2>5 DEF SameBut
  <2>8. Answers(h, n, a, o, FALSE)
    BY <2>2, <2>4 DEF Answers, ButOut
  <2> QED BY <1>2, <2>4, <2>6, <2>7, <2>8 DEF h, a, o
<1>4. CASE ~(v.cmpUnitFree < grant.cmpUnits)
  <2> DEFINE w     == Store(v, a, srv)
             q     == v.srvInInitVector
             ahead == Cardinality({i \in DOMAIN q : w.timeLeft[q[i]] <= grant.initTime})
             queue == InsertAt(q, ahead + 1, a)
             left  == [v.timeLeft EXCEPT ![a] = grant.initTime]
             next  == left[queue[1]]
  <2>1. h = Enqueue(w, a, grant.initTime)
    BY <1>1, <1>2, <1>4 DEF InitializeService
  <2>2. /\ w \in ServerRecord(n) /\ w.granted = v.granted \cup {a}
        /\ w.service = [v.service EXCEPT ![a] = srv] /\ ButServices(v, w)
    <3> HIDE DEF srv, a
    <3> QED BY <1>1, <1>2, StoreFields
  <2>3. q \in Seq(Apps) /\ w.srvInInitVector = q /\ w.timeLeft = v.timeLeft
        /\ v.timeLeft \in [Apps -> Nat]
    BY <1>2, <2>2 DEF ButServices, ServerRecord
  <2>4. ahead \in 0 .. Len(q)
    <3> DEFINE D == DOMAIN q
               P == {i \in D : w.timeLeft[q[i]] <= grant.initTime}
    <3>1. D = 1 .. Len(q) /\ Len(q) \in Nat
      BY <2>3
    <3> HIDE DEF D
    <3>2. IsFiniteSet(D) /\ Cardinality(D) = Len(q)
      <4>1. 1 \in Int /\ Len(q) \in Int
        BY <3>1
      <4>2. IsFiniteSet(1 .. Len(q)) /\ Cardinality(1 .. Len(q)) = IF 1 > Len(q) THEN 0 ELSE Len(q) - 1 + 1
        BY <4>1, FS_Interval
      <4> QED BY <4>2, <3>1
    <3>3. P \subseteq D
      OBVIOUS
    <3> HIDE DEF P
    <3>4. IsFiniteSet(P) /\ Cardinality(P) <= Cardinality(D)
      BY <3>2, <3>3, FS_Subset
    <3>5. Cardinality(P) \in Nat
      BY <3>4, FS_CardinalityType
    <3>6. Cardinality(P) \in 0 .. Len(q)
      BY <3>1, <3>2, <3>4, <3>5
    <3> QED BY <3>6 DEF P, D
  <2> HIDE DEF ahead
  <2>5. /\ queue \in Seq(Apps) /\ queue # <<>>
        /\ \A M : Has(queue, M) <=> Has(q, M) \/ a \in M
        /\ \A M : Once(q, M) /\ (a \in M => ~Has(q, M)) => Once(queue, M)
    <3> HIDE DEF a, q
    <3> QED BY <1>1, <2>3, <2>4, HasInserted, SMTT(60)
  <2>6. h = [w EXCEPT !.timeLeft = left, !.srvInInitVector = queue, !.timer = next]
    BY <2>1, <2>3, Zenon DEF Enqueue, ahead
  <2>7. left \in [Apps -> Nat] /\ queue[1] \in Apps /\ next \in Nat
    <3> HIDE DEF queue
    <3>1. queue[1] \in Apps
      BY <2>5
    <3> QED BY <1>1, <2>3, <3>1
  <2> HIDE DEF w, q, queue, left, next, h, srv, a
  <2>8. /\ h \in ServerRecord(n) /\ h.granted = w.granted /\ h.service = w.service
        /\ h.appsWaitStop = w.appsWaitStop /\ h.appsWaitMacInitFb = w.appsWaitMacInitFb
        /\ h.srvInInitVector = queue /\ h.out = w.out /\ h.cmpUnitFree = w.cmpUnitFree
    BY <2>2, <2>5, <2>6, <2>7 DEF ServerRecord
  <2>9. /\ h.granted = v.granted \cup {a} /\ h.service[a] = srv
        /\ \A b \in Apps : b # a => h.service[b] = v.service[b]
    BY <1>1, <1>2, <2>2, <2>8
  <2>10. InitializingIn(h) = InitializingIn(v) \cup {a} /\ RunningIn(h) = RunningIn(v)
    BY <1>1, <1>2, <2>9 DEF InitializingIn, RunningIn
  <2>11. h.appsWaitStop = v.appsWaitStop /\ h.appsWaitMacInitFb = v.appsWaitMacInitFb
         /\ h.cmpUnitFree = v.cmpUnitFree /\ h.out = v.out
    BY <2>2, <2>8 DEF ButServices
  <2>12. QueueOk(h)
    <3>1. a \notin InitializingIn(v)
      BY <1>2 DEF InitializingIn
    <3>2. \A b \in Apps : b \in InitializingIn(h) <=> Has(queue, {b})
      BY <2>5, <2>10 DEF Fine, QueueOk, q
    <3>3. \A b \in Apps : Once(queue, {b})
      BY <1>1, <3>1, <2>5 DEF Fine, QueueOk, q
    <3> QED BY <3>2, <3>3, <2>5, <2>8 DEF QueueOk
  <2>13. \A b \in h.granted : h.service[b].processGnb = n /\ h.service[b].offloadGnb \in Gnbs
    BY <1>1, <1>2, <2>9 DEF Fine
  <2>14. Fine(h, n)
    BY <2>8, <2>10, <2>11, <2>12, <2>13 DEF Fine
  <2>15. SameBut(v, h, a)
    BY <2>9, <2>11 DEF SameBut
  <2>16. a \in InitializingIn(h) /\ a \notin h.appsWaitMacInitFb /\ h.out = <<>>
         /\ h.service[a].offloadGnb = grant.offloadGnb /\ h.service[a].cmpUnits = grant.cmpUnits
    BY <1>1, <1>2, <2>9, <2>10, <2>11
  <2> QED BY <2>11, <2>14, <2>15, <2>16 DEF h, a
<1> QED BY <1>3, <1>4

\* a NicGrant leaves the rest as it was
LEMMA SendGrantFields ==
  ASSUME NEW n \in Gnbs, NEW v \in ServerRecord(n), v.out = <<>>, NEW a \in v.granted,
         v.service[a].processGnb = n, NEW o \in Gnbs, v.service[a].offloadGnb = o,
         NEW stop \in BOOLEAN
  PROVE  LET h == SendGrant2OffloadingNic(v, a, stop)
         IN  h \in ServerRecord(n) /\ ButOut(v, h) /\ Asks(h, n, a, o, stop)
<1> DEFINE srv == v.service[a]
           w   == Store(v, a, srv)
           m   == [type |-> "NicGrant", app |-> a, stop |-> stop, bands |-> srv.bands,
                   load |-> srv.load, processGnb |-> srv.processGnb,
                   offloadGnb |-> srv.offloadGnb]
           h   == SendGrant2OffloadingNic(v, a, stop)
<1>1. a \in Apps /\ srv \in Service /\ v.service \in [Apps -> Service] /\ v.granted \subseteq Apps
  BY DEF ServerRecord
<1>2. m \in GrantTo(o)
  BY <1>1 DEF GrantTo, NicGrant, Service
<1>3. m.app = a /\ m.stop = stop /\ m.processGnb = n /\ m \in NicGrant \cup StatusOf(n)
  BY <1>2 DEF GrantTo
<1>4. h = SendOut(w, m)
  BY DEF SendGrant2OffloadingNic
<1>5. /\ w \in ServerRecord(n) /\ w.granted = v.granted \cup {a}
      /\ w.service = [v.service EXCEPT ![a] = srv] /\ ButServices(v, w)
  <2> HIDE DEF srv
  <2> QED BY <1>1, StoreFields
<1>6. w.granted = v.granted /\ w.service = v.service
  <2>1. [v.service EXCEPT ![a] = srv] = v.service
    BY <1>1
  <2> QED BY <1>1, <1>5, <2>1
<1> HIDE DEF m, h, w, srv
<1>7. h \in ServerRecord(n) /\ h.out = Append(w.out, m) /\ ButOut(w, h)
  BY <1>3, <1>4, <1>5, SendOutFields
<1>8. ButOut(v, h) /\ h.out = <<m>>
  BY <1>5, <1>6, <1>7 DEF ButOut, ButServices
<1>9. Asks(h, n, a, o, stop)
  BY <1>2, <1>3, <1>8 DEF Asks
<1> QED BY <1>7, <1>8, <1>9 DEF h

\* the timer takes the first service of the queue
LEMMA DequeueFields ==
  ASSUME NEW n \in Gnbs, NEW v, Fine(v, n), v.srvInInitVector # <<>>
  PROVE  LET h == Dequeue(v)
             a == Head(v.srvInInitVector)
         IN  /\ a \in InitializingIn(v) /\ h \in ServerRecord(n)
             /\ h.srvInInitVector = Tail(v.srvInInitVector)
             /\ Tail(v.srvInInitVector) = <<>> => h.timer = NoTimer
             /\ \A b \in Apps : /\ Once(h.srvInInitVector, {b})
                                /\ Has(h.srvInInitVector, {b}) <=> b \in InitializingIn(v) /\ b # a
             /\ h.out = v.out /\ h.granted = v.granted /\ h.service = v.service
             /\ h.cmpUnitFree = v.cmpUnitFree /\ h.appsWaitMacInitFb = v.appsWaitMacInitFb
             /\ h.appsWaitStop = v.appsWaitStop
<1> DEFINE q    == v.srvInInitVector
           a    == Head(q)
           rest == Tail(q)
           left == [v.timeLeft EXCEPT ![a] = 0]
           next == IF rest = <<>> THEN NoTimer ELSE v.timeLeft[rest[1]]
           h    == Dequeue(v)
<1>1. v \in ServerRecord(n) /\ q \in Seq(Apps) /\ v.timeLeft \in [Apps -> Nat] /\ q # <<>>
  BY DEF Fine, ServerRecord
<1>2. /\ \A b \in Apps : b \in InitializingIn(v) <=> Has(q, {b})
      /\ \A b \in Apps : Once(q, {b})
  BY DEF Fine, QueueOk
<1>3. rest = <<>> => next = NoTimer
  OBVIOUS
<1>4. h = [v EXCEPT !.srvInInitVector = rest, !.timeLeft = left, !.timer = next]
  BY <1>1 DEF Dequeue, ServerRecord
<1>5. rest # <<>> => rest[1] \in Apps
  <2>1. rest \in Seq(Apps)
    <3> HIDE DEF q
    <3> QED BY <1>1
  <2> HIDE DEF rest
  <2> QED BY <2>1
<1>6. next \in Nat \cup {NoTimer} /\ left \in [Apps -> Nat]
  <2> HIDE DEF rest, a
  <2> QED BY <1>1, <1>5
<1> HIDE DEF q, left, next, h
<1>7. /\ a \in Apps /\ rest \in Seq(Apps)
      /\ \A M : Has(q, M) <=> a \in M \/ Has(rest, M)
      /\ \A M : Once(q, M) => Once(rest, M) /\ (a \in M => ~Has(rest, M))
  BY <1>1, HasTail
<1> HIDE DEF rest, a
<1>8. /\ h \in ServerRecord(n) /\ h.srvInInitVector = rest
      /\ h.timer = next /\ h.out = v.out /\ h.granted = v.granted /\ h.service = v.service
      /\ h.cmpUnitFree = v.cmpUnitFree /\ h.appsWaitMacInitFb = v.appsWaitMacInitFb
      /\ h.appsWaitStop = v.appsWaitStop
  BY <1>1, <1>4, <1>6, <1>7 DEF ServerRecord
<1>9. a \in InitializingIn(v)
  BY <1>2, <1>7
<1>10. \A b \in Apps : Once(rest, {b}) /\ (Has(rest, {b}) <=> b \in InitializingIn(v) /\ b # a)
  BY <1>2, <1>7
<1> QED BY <1>3, <1>8, <1>9, <1>10 DEF h, q, rest, a

\* the initialization of a service ends: its gNB is asked to begin
LEMMA InitCompleteFine ==
  ASSUME NEW n \in Gnbs, NEW v, Fine(v, n), v.out = <<>>, v.srvInInitVector # <<>>
  PROVE  LET h == HandleServiceInitComplete(v)
             a == Head(v.srvInInitVector)
             o == v.service[a].offloadGnb
         IN  /\ a \in InitializingIn(v) /\ o \in Gnbs
             /\ Fine(h, n) /\ SameBut(v, h, a) /\ h.cmpUnitFree = v.cmpUnitFree
             /\ a \in RunningIn(h) /\ a \in h.appsWaitMacInitFb
             /\ h.service[a].offloadGnb = o /\ h.service[a].cmpUnits = v.service[a].cmpUnits
             /\ Asks(h, n, a, o, FALSE)
<1> DEFINE q == v.srvInInitVector
           a == Head(q)
           o == v.service[a].offloadGnb
           r == Dequeue(v)
           h == HandleServiceInitComplete(v)
           srv   == [r.service[a] EXCEPT !.initComplete = TRUE]
           ready == Store(r, a, srv)
           g     == SendGrant2OffloadingNic(ready, a, FALSE)
           wait  == r.appsWaitMacInitFb \cup {a}
<1>1. /\ a \in InitializingIn(v) /\ r \in ServerRecord(n)
      /\ r.srvInInitVector = Tail(q)
      /\ Tail(q) = <<>> => r.timer = NoTimer
      /\ \A b \in Apps : /\ Once(r.srvInInitVector, {b})
                         /\ Has(r.srvInInitVector, {b}) <=> b \in InitializingIn(v) /\ b # a
      /\ r.out = v.out /\ r.granted = v.granted /\ r.service = v.service
      /\ r.cmpUnitFree = v.cmpUnitFree /\ r.appsWaitMacInitFb = v.appsWaitMacInitFb
      /\ r.appsWaitStop = v.appsWaitStop
  BY DequeueFields
<1>2. /\ v \in ServerRecord(n) /\ v.granted \subseteq Apps
      /\ v.service \in [Apps -> Service] /\ v.appsWaitStop = {}
      /\ v.appsWaitMacInitFb \subseteq RunningIn(v)
      /\ \A b \in v.granted : v.service[b].processGnb = n /\ v.service[b].offloadGnb \in Gnbs
  BY DEF Fine, ServerRecord
<1>3. a \in Apps /\ a \in v.granted /\ a \notin RunningIn(v) /\ o \in Gnbs
      /\ v.service[a].processGnb = n /\ v.service[a] \in Service
  BY <1>1, <1>2 DEF InitializingIn, RunningIn
<1>4. /\ srv \in Service /\ srv.initComplete /\ srv.processGnb = n
      /\ srv.offloadGnb = o /\ srv.cmpUnits = v.service[a].cmpUnits
  <2>1. r.service[a] = v.service[a]
    BY <1>1
  <2> HIDE DEF a, r
  <2> QED BY <2>1, <1>3 DEF Service
<1>5. h = [g EXCEPT !.appsWaitMacInitFb = @ \cup {a}]
  <2>1. a \notin r.appsWaitStop
    BY <1>1, <1>2
  <2> QED BY <2>1 DEF HandleServiceInitComplete
<1> HIDE DEF r, a, q, srv, h, o
<1>6. /\ ready \in ServerRecord(n) /\ ready.granted = r.granted \cup {a}
      /\ ready.service = [r.service EXCEPT ![a] = srv] /\ ButServices(r, ready)
  BY <1>1, <1>3, <1>4, StoreFields
<1>7. a \in ready.granted /\ ready.out = <<>> /\ ready.service[a] = srv
  BY <1>1, <1>2, <1>3, <1>6 DEF ButServices
<1> HIDE DEF ready
<1>8. g \in ServerRecord(n) /\ ButOut(ready, g) /\ Asks(g, n, a, o, FALSE)
  BY <1>3, <1>4, <1>6, <1>7, SendGrantFields
<1> HIDE DEF g
<1>9. g.appsWaitMacInitFb = r.appsWaitMacInitFb
  BY <1>6, <1>8 DEF ButOut, ButServices
<1>10. wait \in SUBSET Apps
  BY <1>1, <1>2, <1>3 DEF RunningIn
<1>11. h = [g EXCEPT !.appsWaitMacInitFb = wait]
  BY <1>5, <1>9
<1> HIDE DEF wait
<1>12. /\ h \in ServerRecord(n) /\ h.appsWaitMacInitFb = wait /\ h.granted = g.granted
       /\ h.service = g.service /\ h.out = g.out /\ h.cmpUnitFree = g.cmpUnitFree
       /\ h.appsWaitStop = g.appsWaitStop /\ h.srvInInitVector = g.srvInInitVector
       /\ h.timer = g.timer
  BY <1>8, <1>10, <1>11 DEF ServerRecord
<1>13. /\ h.granted = v.granted /\ h.service[a] = srv
       /\ \A b \in Apps : b # a => h.service[b] = v.service[b]
  BY <1>1, <1>2, <1>3, <1>6, <1>7, <1>8, <1>12 DEF ButOut
<1>14. /\ h.appsWaitStop = {} /\ h.cmpUnitFree = v.cmpUnitFree
       /\ h.srvInInitVector = r.srvInInitVector /\ h.timer = r.timer
  BY <1>1, <1>2, <1>6, <1>8, <1>12 DEF ButOut, ButServices
<1>15. InitializingIn(h) = InitializingIn(v) \ {a} /\ RunningIn(h) = RunningIn(v) \cup {a}
  BY <1>2, <1>3, <1>4, <1>13 DEF InitializingIn, RunningIn
<1>16. QueueOk(h)
  <2>1. \A b \in Apps : /\ Once(h.srvInInitVector, {b})
                        /\ Has(h.srvInInitVector, {b}) <=> b \in InitializingIn(h)
    BY <1>1, <1>14, <1>15
  <2>2. h.srvInInitVector = <<>> => h.timer = NoTimer
    BY <1>1, <1>14
  <2> QED BY <2>1, <2>2 DEF QueueOk
<1>17. h.appsWaitMacInitFb \subseteq RunningIn(h) /\ a \in h.appsWaitMacInitFb
  BY <1>1, <1>2, <1>12, <1>15 DEF wait
<1>18. \A b \in h.granted : h.service[b].processGnb = n /\ h.service[b].offloadGnb \in Gnbs
  BY <1>2, <1>3, <1>4, <1>13
<1>19. Fine(h, n)
  BY <1>12, <1>14, <1>16, <1>17, <1>18 DEF Fine
<1>20. SameBut(v, h, a)
  BY <1>1, <1>12, <1>13 DEF SameBut, wait
<1>21. Asks(h, n, a, o, FALSE)
  BY <1>8, <1>12 DEF Asks
<1>22. a \in RunningIn(h) /\ h.service[a].offloadGnb = o
       /\ h.service[a].cmpUnits = v.service[a].cmpUnits
  BY <1>4, <1>13, <1>15
<1> QED BY <1>1, <1>3, <1>14, <1>17, <1>19, <1>20, <1>21, <1>22 DEF h, a, o, q

\* a stop of a service that runs is sent on
LEMMA StopServiceFine ==
  ASSUME NEW n \in Gnbs, NEW v, Fine(v, n), v.out = <<>>, NEW a \in RunningIn(v)
  PROVE  LET h == StopService(v, a)
             o == v.service[a].offloadGnb
         IN  /\ o \in Gnbs /\ Fine(h, n) /\ ButOut(v, h) /\ Asks(h, n, a, o, TRUE)
<1> DEFINE h == StopService(v, a)
           o == v.service[a].offloadGnb
<1>1. v \in ServerRecord(n) /\ a \in v.granted /\ v.service[a].initComplete
      /\ v.service[a].processGnb = n /\ o \in Gnbs
  BY DEF Fine, RunningIn
<1>2. h = SendGrant2OffloadingNic(v, a, TRUE)
  BY <1>1 DEF StopService
<1> HIDE DEF h, o
<1>3. h \in ServerRecord(n) /\ ButOut(v, h) /\ Asks(h, n, a, o, TRUE)
  BY <1>1, <1>2, SendGrantFields DEF o
<1>4. Fine(h, n)
  BY <1>3, FineKept DEF ButOut
<1> QED BY <1>1, <1>3, <1>4 DEF h, o

\* a report of a MAC on a service that runs
LEMMA ServiceFeedbackFine ==
  ASSUME NEW n \in Gnbs, NEW v, Fine(v, n), v.out = <<>>, NEW o \in Gnbs,
         NEW fd \in ReportTo(o, n), fd.app \in RunningIn(v)
  PROVE  LET h == HandleServiceFeedback(v, fd)
             a == fd.app
             waits == a \in v.appsWaitMacInitFb
             units == v.service[a].cmpUnits
         IN  /\ a \in Apps /\ Fine(h, n) /\ SameBut(v, h, a)
             /\ h.srvInInitVector = v.srvInInitVector
             /\ a \notin h.appsWaitMacInitFb /\ Answers(h, n, a, o, fd.success)
             /\ fd.success => /\ a \in RunningIn(h) /\ h.service[a].cmpUnits = units
                              /\ h.service[a].offloadGnb = v.service[a].offloadGnb
                              /\ h.cmpUnitFree = v.cmpUnitFree - (IF waits THEN units ELSE 0)
             /\ ~fd.success => /\ a \notin h.granted
                               /\ h.cmpUnitFree = v.cmpUnitFree + (IF waits THEN 0 ELSE units)
<1> DEFINE a       == fd.app
           waits   == a \in v.appsWaitMacInitFb
           wait    == v.appsWaitMacInitFb \ {a}
           units   == v.service[a].cmpUnits
           settled == [v EXCEPT !.appsWaitMacInitFb = wait]
           srv     == [v.service[a] EXCEPT !.bands = fd.usedBand]
           running == Store(settled, a, srv)
           less    == v.cmpUnitFree - units
           more    == v.cmpUnitFree + units
           charged == [running EXCEPT !.cmpUnitFree = less]
           freed   == [settled EXCEPT !.cmpUnitFree = more]
           d       == IF fd.success THEN (IF waits THEN charged ELSE running)
                      ELSE Erase(IF waits THEN settled ELSE freed, a)
           m       == [type |-> "SrvFD", app |-> a, success |-> fd.success,
                       processGnb |-> fd.processGnb, offloadGnb |-> fd.offloadGnb,
                       dated |-> TRUE, availCmpUnit |-> d.cmpUnitFree, grantedBand |-> 0]
           h       == HandleServiceFeedback(v, fd)
<1>1. /\ v \in ServerRecord(n) /\ a \in Apps /\ a \in v.granted
      /\ v.service[a] \in Service /\ v.service \in [Apps -> Service] /\ v.granted \subseteq Apps
      /\ v.appsWaitMacInitFb \in SUBSET Apps
      /\ v.cmpUnitFree \in Int /\ units \in Nat /\ v.service[a].initComplete
  BY DEF Fine, ServerRecord, RunningIn, Service
<1>2. /\ v.appsWaitStop = {} /\ QueueOk(v) /\ v.appsWaitMacInitFb \subseteq RunningIn(v)
      /\ \A b \in v.granted : v.service[b].processGnb = n /\ v.service[b].offloadGnb \in Gnbs
  BY DEF Fine
<1>3. fd.success \in BOOLEAN /\ fd.processGnb = n /\ fd.offloadGnb = o /\ fd.usedBand \in Nat
  BY DEF ReportTo, MacReport
<1>4. /\ srv \in Service /\ srv.initComplete /\ srv.processGnb = v.service[a].processGnb
      /\ srv.offloadGnb = v.service[a].offloadGnb /\ srv.cmpUnits = units
  BY <1>1, <1>3 DEF Service
<1>5. h = SendOut(d, m)
  <2>1. /\ running.cmpUnitFree = v.cmpUnitFree /\ settled.cmpUnitFree = v.cmpUnitFree
    BY <1>1 DEF Store, ServerRecord
  <2>2. h = Forward(d, fd)
    <3> HIDE DEF running, settled
    <3>1. charged = [running EXCEPT !.cmpUnitFree = @ - v.service[a].cmpUnits]
      BY <2>1
    <3>2. freed = [settled EXCEPT !.cmpUnitFree = @ + v.service[a].cmpUnits]
      BY <2>1
    <3> HIDE DEF charged, freed
    <3>3. CASE fd.success
      BY <3>1, <3>3 DEF HandleServiceFeedback, settled, running
    <3>4. CASE ~fd.success
      BY <3>2, <3>4 DEF HandleServiceFeedback, settled
    <3> QED BY <3>3, <3>4
  <2> HIDE DEF d
  <2> QED BY <2>2 DEF Forward
<1>6. wait \in SUBSET Apps /\ less \in Int /\ more \in Int
  BY <1>1
<1> HIDE DEF a, units, srv, less, more, wait, h
<1>7. /\ settled \in ServerRecord(n) /\ settled.appsWaitMacInitFb = wait
      /\ settled.granted = v.granted /\ settled.service = v.service /\ settled.out = v.out
      /\ settled.cmpUnitFree = v.cmpUnitFree /\ settled.appsWaitStop = v.appsWaitStop
      /\ settled.srvInInitVector = v.srvInInitVector /\ settled.timer = v.timer
  BY <1>1, <1>6 DEF ServerRecord
<1> HIDE DEF settled
<1>8. /\ freed \in ServerRecord(n) /\ freed.appsWaitMacInitFb = wait
      /\ freed.granted = v.granted /\ freed.service = v.service /\ freed.out = v.out
      /\ freed.cmpUnitFree = more /\ freed.appsWaitStop = v.appsWaitStop
      /\ freed.srvInInitVector = v.srvInInitVector /\ freed.timer = v.timer
  BY <1>6, <1>7 DEF ServerRecord
<1>9. /\ running \in ServerRecord(n) /\ running.granted = settled.granted \cup {a}
      /\ running.service = [settled.service EXCEPT ![a] = srv] /\ ButServices(settled, running)
  BY <1>1, <1>4, <1>7, StoreFields
<1> HIDE DEF freed, running
<1>10. /\ charged \in ServerRecord(n) /\ charged.granted = running.granted
       /\ charged.service = running.service /\ charged.out = v.out
       /\ charged.cmpUnitFree = less /\ charged.appsWaitMacInitFb = wait
       /\ charged.appsWaitStop = v.appsWaitStop
       /\ charged.srvInInitVector = v.srvInInitVector /\ charged.timer = v.timer
  BY <1>6, <1>7, <1>9 DEF ServerRecord, ButServices
<1>11. /\ running.out = v.out /\ running.appsWaitStop = v.appsWaitStop
       /\ running.appsWaitMacInitFb = wait /\ running.cmpUnitFree = v.cmpUnitFree
       /\ running.srvInInitVector = v.srvInInitVector /\ running.timer = v.timer
  BY <1>7, <1>9 DEF ButServices
<1> HIDE DEF charged
<1>12. /\ d \in ServerRecord(n) /\ d.out = v.out /\ d.appsWaitMacInitFb = wait
       /\ d.srvInInitVector = v.srvInInitVector
       /\ d.timer = v.timer /\ d.appsWaitStop = v.appsWaitStop
       /\ \A b \in Apps : b # a => d.service[b] = v.service[b]
       /\ d.granted = (IF fd.success THEN v.granted ELSE v.granted \ {a})
       /\ fd.success => d.service[a] = srv
       /\ d.cmpUnitFree = (IF fd.success THEN (IF waits THEN less ELSE v.cmpUnitFree)
                           ELSE (IF waits THEN v.cmpUnitFree ELSE more))
  <2>1. CASE fd.success
    <3> DEFINE w == IF waits THEN charged ELSE running
    <3>1. d = w
      BY <2>1
    <3>2. /\ w \in ServerRecord(n) /\ w.appsWaitMacInitFb = wait
          /\ w.granted = running.granted /\ w.service = running.service
          /\ w.out = v.out /\ w.cmpUnitFree = (IF waits THEN less ELSE v.cmpUnitFree)
          /\ w.appsWaitStop = v.appsWaitStop /\ w.srvInInitVector = v.srvInInitVector
          /\ w.timer = v.timer
      BY <1>9, <1>10, <1>11
    <3> HIDE DEF w, d, waits
    <3> QED BY <1>1, <1>7, <1>9, <2>1, <3>1, <3>2
  <2>2. CASE ~fd.success
    <3> DEFINE w == IF waits THEN settled ELSE freed
    <3>1. /\ w \in ServerRecord(n) /\ w.appsWaitMacInitFb = wait
          /\ w.granted = v.granted /\ w.service = v.service /\ w.out = v.out
          /\ w.cmpUnitFree = (IF waits THEN v.cmpUnitFree ELSE more)
          /\ w.appsWaitStop = v.appsWaitStop /\ w.srvInInitVector = v.srvInInitVector
          /\ w.timer = v.timer
      BY <1>7, <1>8
    <3>2. d = Erase(w, a)
      BY <2>2
    <3> HIDE DEF w, d
    <3>3. /\ d \in ServerRecord(n) /\ d.granted = w.granted \ {a}
          /\ d.service = [w.service EXCEPT ![a] = DefaultService] /\ ButServices(w, d)
      BY <1>1, <3>1, <3>2, EraseFields
    <3> QED BY <1>1, <2>2, <3>1, <3>3 DEF ButServices
  <2> QED BY <2>1, <2>2, <1>3
<1> HIDE DEF d
<1>13. m \in Say(a) \cap StatusOf(n) /\ m.offloadGnb = o /\ m.success = fd.success
       /\ m.availCmpUnit = d.cmpUnitFree
  <2>1. d.cmpUnitFree \in Int
    BY <1>12 DEF ServerRecord
  <2>2. m \in Answer
    BY <2>1, <1>1, <1>3 DEF Answer
  <2> QED BY <2>2, <1>3 DEF Say, SrvFD, StatusOf
<1> HIDE DEF m
<1>14. h \in ServerRecord(n) /\ h.out = Append(d.out, m) /\ ButOut(d, h)
  BY <1>5, <1>12, <1>13, SendOutFields
<1>15. /\ InitializingIn(h) = InitializingIn(v)
       /\ RunningIn(h) = (IF fd.success THEN RunningIn(v) ELSE RunningIn(v) \ {a})
  BY <1>1, <1>4, <1>12, <1>14 DEF InitializingIn, RunningIn, ButOut
<1>16. QueueOk(h)
  BY <1>2, <1>12, <1>14, <1>15 DEF QueueOk, ButOut
<1>17. h.appsWaitMacInitFb = wait /\ h.appsWaitStop = {} /\ h.cmpUnitFree = d.cmpUnitFree
       /\ h.srvInInitVector = v.srvInInitVector /\ h.granted = d.granted /\ h.service = d.service
  BY <1>2, <1>12, <1>14 DEF ButOut
<1>18. \A b \in h.granted : h.service[b].processGnb = n /\ h.service[b].offloadGnb \in Gnbs
  BY <1>1, <1>2, <1>4, <1>12, <1>17
<1>19. h.appsWaitMacInitFb \subseteq RunningIn(h) /\ a \notin h.appsWaitMacInitFb
  BY <1>2, <1>15, <1>17 DEF wait
<1>20. Fine(h, n)
  BY <1>14, <1>16, <1>17, <1>18, <1>19 DEF Fine
<1>21. SameBut(v, h, a)
  BY <1>12, <1>17 DEF SameBut, wait
<1>22. Answers(h, n, a, o, fd.success)
  <2>1. h.out = <<m>>
    BY <1>12, <1>14
  <2> QED BY <2>1, <1>13, <1>17 DEF Answers
<1>23. fd.success => /\ a \in RunningIn(h) /\ h.service[a].cmpUnits = units
                     /\ h.service[a].offloadGnb = v.service[a].offloadGnb
                     /\ h.cmpUnitFree = v.cmpUnitFree - (IF waits THEN units ELSE 0)
  <2>1. fd.success => h.cmpUnitFree = v.cmpUnitFree - (IF waits THEN units ELSE 0)
    BY <1>1, <1>12, <1>17 DEF less
  <2>2. fd.success => a \in RunningIn(h)
    BY <1>1, <1>15 DEF RunningIn
  <2> QED BY <2>1, <2>2, <1>4, <1>12, <1>17
<1>24. ~fd.success => /\ a \notin h.granted
                      /\ h.cmpUnitFree = v.cmpUnitFree + (IF waits THEN 0 ELSE units)
  BY <1>1, <1>12, <1>17 DEF more
<1> QED BY <1>1, <1>17, <1>19, <1>20, <1>21, <1>22, <1>23, <1>24 DEF h, a, units

\* the status of a gNB is passed on
LEMMA RsuFeedbackFine ==
  ASSUME NEW n \in Gnbs, NEW v, Fine(v, n), v.out = <<>>, NEW u \in Ues \cup {NoUe}
  PROVE  LET h == HandleRsuFeedback(v, [gnb |-> n, veh |-> u, bytePerBand |-> 1, availBand |-> 1])
         IN  Fine(h, n) /\ ButOut(v, h) /\ Tells(h, n)
<1> DEFINE fd == [gnb |-> n, veh |-> u, bytePerBand |-> 1, availBand |-> 1]
           m  == [type |-> "RsuFD", gnb |-> fd.gnb, veh |-> fd.veh,
                  bytePerBand |-> fd.bytePerBand, availBand |-> fd.availBand,
                  freeCmpUnits |-> v.cmpUnitFree]
           h  == HandleRsuFeedback(v, fd)
<1>1. v \in ServerRecord(n)
  BY DEF Fine
<1>2. m \in RsuFD /\ m.gnb = n /\ m.freeCmpUnits = v.cmpUnitFree
  BY <1>1 DEF RsuFD, ServerRecord
<1>3. h = SendOut(v, m)
  BY DEF HandleRsuFeedback
<1>4. m \in StatusOf(n)
  BY <1>2 DEF StatusOf
<1> HIDE DEF m, h
<1>5. h \in ServerRecord(n) /\ h.out = Append(v.out, m) /\ ButOut(v, h)
  BY <1>1, <1>3, <1>4, SendOutFields
<1>6. Fine(h, n)
  BY <1>5, FineKept DEF ButOut
<1>7. h.out = <<m>>
  BY <1>5
<1>8. Tells(h, n)
  BY <1>2, <1>5, <1>7 DEF Tells, ButOut
<1> QED BY <1>5, <1>6, <1>8 DEF h

\* the server of a node without scheduler
LEMMA InitialServerFine ==
  ASSUME NEW n \in Gnbs
  PROVE  LET v == InitialServer(n)
         IN  /\ Fine(v, n) /\ v.out = <<>> /\ v.granted = {} /\ v.srvInInitVector = <<>>
             /\ v.cmpUnitFree = CmpUnitTotal /\ v.timer = NoTimer /\ v.appsWaitMacInitFb = {}
<1> DEFINE v == InitialServer(n)
<1>1. DefaultService \in Service
  BY DEF DefaultService, Service
<1>2. v \in ServerRecord(n)
  <2>1. [a \in Apps |-> DefaultService] \in [Apps -> Service]
    BY <1>1
  <2> DEFINE S == NicGrant \cup StatusOf(n)
  <2>2. CmpUnitTotal \in Int /\ <<>> \in Seq(Apps) /\ <<>> \in Seq(S)
    <3> HIDE DEF S
    <3> QED BY ServerHandlersAssumption
  <2> HIDE DEF Service, DefaultService, S
  <2> QED BY <2>1, <2>2 DEF InitialServer, ServerRecord, S
<1>3. /\ v.out = <<>> /\ v.granted = {} /\ v.appsWaitStop = {} /\ v.appsWaitMacInitFb = {}
      /\ v.srvInInitVector = <<>> /\ v.timer = NoTimer /\ v.cmpUnitFree = CmpUnitTotal
  BY DEF InitialServer
<1> HIDE DEF v
<1>4. RunningIn(v) = {} /\ InitializingIn(v) = {}
  BY <1>3 DEF RunningIn, InitializingIn
<1>5. QueueOk(v)
  BY <1>3, <1>4, HasEmpty DEF QueueOk
<1>6. Fine(v, n)
  BY <1>2, <1>3, <1>4, <1>5 DEF Fine
<1> QED BY <1>3, <1>6 DEF v

-----------------------------------------------------------------------------
(* The scheduler between two assignments of its handlers.                   *)

SchedRecord ==
    [appInfo : SUBSET Apps, blank : SUBSET Apps, vehApps : SUBSET Apps,
     unscheduledApps : SUBSET Apps, appsWaitInitFb : SUBSET Apps,
     appsWaitStopFb : SUBSET Apps, allocatedApps : SUBSET Apps,
     srvInInitiating : [Apps -> ServiceInstance \cup {NoInstance}],
     runningService : [Apps -> ServiceInstance \cup {NoInstance}],
     rsuStatus : SUBSET Gnbs, cmpUnits : [Gnbs -> Int],
     rsuOnholdRbs : [Gnbs -> Nat], rsuOnholdCus : [Gnbs -> Nat],
     vehAccessRsu : [Ues -> SUBSET Gnbs], vecSchedule : Seq(ServiceInstance),
     schedStarter : BOOLEAN, preSchedCheck : BOOLEAN, schedComplete : BOOLEAN,
     out : [Gnbs -> Seq(SrvGrant)]]

\* RequestHasOnePlace, of a scheduler s
OnePlace(s) ==
    /\ s.unscheduledApps \cap s.appsWaitInitFb = {}
    /\ s.unscheduledApps \cap s.allocatedApps = {}
    /\ s.appsWaitInitFb \cap s.allocatedApps = {}
    /\ s.unscheduledApps \cup s.appsWaitInitFb \cup s.allocatedApps = s.appInfo
    /\ s.vehApps = s.appInfo /\ s.blank = {}

\* the service it has started, or runs, for a
Instance(s, a) == IF a \in s.appsWaitInitFb THEN s.srvInInitiating[a] ELSE s.runningService[a]
Served(s) == s.appsWaitInitFb \cup s.allocatedApps

\* and what it has planned
Planned(s) ==
    s.schedComplete =>
        /\ s.preSchedCheck
        /\ \A i \in DOMAIN s.vecSchedule : s.vecSchedule[i].app \in s.appInfo
        /\ \A i, j \in DOMAIN s.vecSchedule :
              s.vecSchedule[i].app = s.vecSchedule[j].app => i = j

SchedOk(s) ==
    /\ s \in SchedRecord
    /\ OnePlace(s)
    /\ \A a \in Served(s) : Instance(s, a) \in ServiceInstance /\ Instance(s, a).app = a
    /\ Planned(s)

-----------------------------------------------------------------------------
(* The inductive invariant.                                                *)

StartBut(a, o) == {m \in Start(a) : m.offloadGnb # o}
SayBut(a, o) == {m \in Say(a) : m.offloadGnb # o}
AllStarts == {m \in SrvGrant : m.start}
AllStops == {m \in SrvGrant : ~m.start}
AllEnds == {m \in NicGrant : m.stop}

\* every message is in the channel that leads where it is addressed to, and
\* every node is a state its handlers leave behind
Sound ==
    /\ SchedOk(sched) /\ sched.out = NothingSent
    /\ hasScheduler \in [Gnbs -> BOOLEAN]
    /\ carried \in [Gnbs -> [Apps -> Gnbs \cup {NoGnb}]]
    /\ DOMAIN server = Gnbs /\ DOMAIN commands = Gnbs /\ DOMAIN toMac = Gnbs
    /\ DOMAIN fromMac = Gnbs /\ DOMAIN reports = Gnbs
    /\ \A n \in Gnbs :
          /\ Fine(server[n], n) /\ server[n].out = <<>>
          /\ commands[n] \in Seq(CommandTo(n)) /\ toMac[n] \in Seq(GrantTo(n))
          /\ reports[n] \in Seq(StatusOf(n)) /\ DOMAIN fromMac[n] = Gnbs
          /\ \A p \in Gnbs : fromMac[n][p] \in Seq(ReportTo(n, p))
          /\ ~hasScheduler[n] => /\ server[n] = InitialServer(n)
                                 /\ \A a \in Apps : carried[n][a] = NoGnb

\* a service has one start, one server and one gNB, in this order
Single(a) ==
    /\ \A n \in Gnbs : Has(commands[n], Start(a)) =>
          \A m \in Gnbs : /\ Has(commands[m], Start(a)) => m = n
                          /\ a \notin server[m].granted /\ carried[m][a] = NoGnb
                          /\ ~Has(toMac[m], Begin(a))
    /\ \A n \in Gnbs : a \in server[n].granted =>
          \A m \in Gnbs : /\ a \in server[m].granted => m = n
                          /\ a \in InitializingIn(server[n]) =>
                                carried[m][a] = NoGnb /\ ~Has(toMac[m], Begin(a))
    /\ \A n \in Gnbs : Has(toMac[n], Begin(a)) =>
          \A m \in Gnbs : /\ Has(toMac[m], Begin(a)) => m = n
                          /\ carried[m][a] = NoGnb
    /\ \A n, m \in Gnbs : carried[n][a] # NoGnb /\ carried[m][a] # NoGnb => n = m
    /\ \A n \in Gnbs : Once(commands[n], Start(a)) /\ Once(toMac[n], Begin(a))

\* what gNB o and server p, which has a scheduler, tell each other about a is
\* about a service that runs there; the failure is the last thing gNB o says
Wire(o, p, a) ==
    /\ hasScheduler[p] /\ Has(toMac[o], BeginFor(a, p)) => a \in server[p].appsWaitMacInitFb
    /\ Has(toMac[o], BeginFor(a, p)) => ~Has(fromMac[o][p], Tell(a))
    /\ carried[o][a] = p => ~Has(fromMac[o][p], Fail(a))
    /\ hasScheduler[p] /\ (\/ Has(toMac[o], BeginFor(a, p)) \/ carried[o][a] = p
                           \/ Has(fromMac[o][p], Tell(a)))
          => a \in RunningIn(server[p]) /\ server[p].service[a].offloadGnb = o
    /\ Ending(fromMac[o][p], Fail(a), Tell(a))

\* nothing is left of a at any node
Vacant(a) ==
    \A n \in Gnbs : /\ ~Has(commands[n], Start(a)) /\ a \notin server[n].granted
                    /\ ~Has(toMac[n], Begin(a)) /\ carried[n][a] = NoGnb

\* a start is in the books of the scheduler
StartBooked(n, a) ==
    Has(commands[n], Start(a)) =>
        /\ a \in sched.appsWaitInitFb
        /\ Instance(sched, a).processGnb = n
        /\ ~Has(commands[n], StartBut(a, Instance(sched, a).offloadGnb))
        /\ \A m \in Gnbs : ~Has(reports[m], Say(a))

\* so is a service of a server, and its gNB begins it, carries it or has ended it
ServiceBooked(n, a) ==
    a \in server[n].granted =>
        LET o == server[n].service[a].offloadGnb
            waits == a \in server[n].appsWaitMacInitFb
        IN  /\ a \in Served(sched)
            /\ Instance(sched, a).processGnb = n /\ Instance(sched, a).offloadGnb = o
            /\ ~Has(reports[n], Refuse(a))
            /\ a \in InitializingIn(server[n]) \/ waits =>
                  a \in sched.appsWaitInitFb /\ ~Has(reports[n], Say(a))
            /\ a \in RunningIn(server[n]) =>
                  /\ \/ Has(toMac[o], BeginFor(a, n)) \/ carried[o][a] = n
                     \/ Has(fromMac[o][n], Fail(a))
                  /\ waits => Has(toMac[o], BeginFor(a, n)) \/ Has(fromMac[o][n], Tell(a))
                  /\ ~waits => a \in sched.allocatedApps \/ Has(reports[n], Say(a))

\* so is what a server says of a service, and a failure is the last of it
AnswerBooked(n, a) ==
    Has(reports[n], Say(a)) =>
        /\ a \in Served(sched) /\ Instance(sched, a).processGnb = n
        /\ ~Has(reports[n], SayBut(a, Instance(sched, a).offloadGnb))
        /\ Ending(reports[n], Refuse(a), Say(a))

\* and nothing else is in the books; while services are being stopped, each has
\* a stop or a failure under way
Accounted(a) ==
    a \in Served(sched) =>
        LET p == Instance(sched, a).processGnb
            o == Instance(sched, a).offloadGnb
        IN  /\ Has(commands[p], Start(a)) \/ a \in server[p].granted \/ Has(reports[p], Refuse(a))
            /\ ~sched.preSchedCheck =>
                  \/ Has(commands[p], Stop(a)) \/ Has(toMac[o], End(a))
                  \/ Has(fromMac[o][p], Fail(a)) \/ Has(reports[p], Refuse(a))

Booked(a) ==
    /\ \A n \in Gnbs : StartBooked(n, a) /\ ServiceBooked(n, a) /\ AnswerBooked(n, a)
    /\ Accounted(a)

Life(a) ==
    /\ Single(a)
    /\ \A o, p \in Gnbs : Wire(o, p, a)
    /\ sched.schedComplete => a \notin Served(sched) /\ Vacant(a)
    /\ AllFound => Booked(a)

\* stops are sent when no start is under way and no schedule is being computed
Stops ==
    (\E n \in Gnbs : Has(commands[n], AllStops)) =>
        /\ ~sched.schedComplete
        /\ \A n \in Gnbs : server[n].srvInInitVector = <<>> /\ ~Has(commands[n], AllStarts)

\* services are stopped from the check to the next schedule
Phase ==
    AllFound =>
        /\ sched.preSchedCheck =>
              /\ sched.appsWaitStopFb = {}
              /\ \A n \in Gnbs : ~Has(commands[n], AllStops) /\ ~Has(toMac[n], AllEnds)
        /\ ~sched.preSchedCheck => sched.appsWaitInitFb = {}

\* the last answer of a server, and every status behind it, counts its free units
Units(m) == IF m.type = "RsuFD" THEN m.freeCmpUnits ELSE m.availCmpUnit
NoAnswerBehind(s, i) == \A j \in DOMAIN s : j > i => s[j].type = "RsuFD"
Counted(s, free) == \A i \in DOMAIN s : NoAnswerBehind(s, i) => Units(s[i]) = free
Counts(n) ==
    AllFound =>
        /\ Counted(reports[n], server[n].cmpUnitFree)
        /\ NoAnswerBehind(reports[n], 0) => sched.cmpUnits[n] \in {0, server[n].cmpUnitFree}

IInv ==
    /\ Sound
    /\ \A a \in Apps : Life(a)
    /\ Stops /\ Phase
    /\ \A n \in Gnbs : Counts(n)

-----------------------------------------------------------------------------
(* An application no message, node or book changes for.                     *)

\* channel t has what channel s has of the messages R
Kept(s, t, R) ==
    \A M \in SUBSET R : /\ Has(t, M) <=> Has(s, M)
                        /\ Once(s, M) => Once(t, M)
                        /\ \A T \in SUBSET R : Ending(s, M, T) => Ending(t, M, T)

\* a channel nothing happens to
LEMMA KeptSame ==
  ASSUME NEW s, NEW R
  PROVE  Kept(s, s, R)
  BY DEF Kept

\* the channel gets a message that is none of R
LEMMA KeptAppend ==
  ASSUME NEW S, NEW s \in Seq(S), NEW e \in S, NEW R, e \notin R
  PROVE  Kept(s, Append(s, e), R)
<1>1. \A M : Has(Append(s, e), M) <=> Has(s, M) \/ e \in M
  BY HasAppend
<1>2. /\ \A M : Once(s, M) /\ (e \in M => ~Has(s, M)) => Once(Append(s, e), M)
      /\ \A E, T : Ending(s, E, T) /\ (e \in T => ~Has(s, E)) => Ending(Append(s, e), E, T)
  BY OnceAppend
<1>3. \A M \in SUBSET R : e \notin M
  OBVIOUS
<1> QED BY <1>1, <1>2, <1>3 DEF Kept

\* the channel loses its first message, which is none of R
LEMMA KeptTail ==
  ASSUME NEW S, NEW s \in Seq(S), s # <<>>, NEW R, Head(s) \notin R
  PROVE  Kept(s, Tail(s), R)
<1>1. /\ \A M : Has(s, M) <=> Head(s) \in M \/ Has(Tail(s), M)
      /\ \A M : Once(s, M) => Once(Tail(s), M)
      /\ \A E, T : Ending(s, E, T) => Ending(Tail(s), E, T)
  BY HasTail
<1>2. \A M \in SUBSET R : Head(s) \notin M
  OBVIOUS
<1> QED BY <1>1, <1>2 DEF Kept

\* it loses any message that is none of R
LEMMA KeptRemoved ==
  ASSUME NEW S, NEW s \in Seq(S), NEW i \in DOMAIN s, NEW R, s[i] \notin R
  PROVE  Kept(s, RemoveAt(s, i), R)
<1>1. /\ \A M : Has(s, M) <=> s[i] \in M \/ Has(RemoveAt(s, i), M)
      /\ \A M : Once(s, M) => Once(RemoveAt(s, i), M)
      /\ \A E, T : Ending(s, E, T) => Ending(RemoveAt(s, i), E, T)
  BY HasRemoved
<1>2. \A M \in SUBSET R : s[i] \notin M
  OBVIOUS
<1> QED BY <1>1, <1>2 DEF Kept

\* the messages about a
About(a) == Start(a) \cup Stop(a) \cup Begin(a) \cup End(a) \cup Tell(a) \cup Say(a)

\* the sets of messages the invariant names are about one application
LEMMA AboutOne ==
  ASSUME NEW a
  PROVE  /\ Start(a) \in SUBSET About(a) /\ Stop(a) \in SUBSET About(a)
         /\ Begin(a) \in SUBSET About(a) /\ End(a) \in SUBSET About(a)
         /\ Tell(a) \in SUBSET About(a) /\ Fail(a) \in SUBSET About(a)
         /\ Say(a) \in SUBSET About(a) /\ Refuse(a) \in SUBSET About(a)
         /\ \A o : StartBut(a, o) \in SUBSET About(a) /\ SayBut(a, o) \in SUBSET About(a)
         /\ \A p : BeginFor(a, p) \in SUBSET About(a)
  BY DEF About, Fail, Refuse, StartBut, SayBut, BeginFor

\* a message is about the application it names
LEMMA AboutItsApp ==
  ASSUME NEW a
  PROVE  /\ \A m \in SrvGrant : m.app # a => m \notin About(a)
         /\ \A m \in NicGrant : m.app # a => m \notin About(a)
         /\ \A m \in MacReport : m.app # a => m \notin About(a)
         /\ \A m \in SrvFD : m.app # a => m \notin About(a)
         /\ \A m \in RsuFD : m \notin About(a)
<1>1. \A m \in About(a) : m.app = a
  BY DEF About, Start, Stop, Begin, End, Tell, Say
<1>2. \A m \in RsuFD : m \notin About(a)
  <2> SUFFICES ASSUME NEW m \in RsuFD, m \in About(a) PROVE FALSE
    OBVIOUS
  <2>1. DOMAIN m = {"type", "gnb", "veh", "bytePerBand", "availBand", "freeCmpUnits"}
    BY DEF RsuFD
  <2>2. "app" \in DOMAIN m
    BY DEF About, Start, Stop, Begin, End, Tell, Say, SrvGrant, NicGrant, MacReport, SrvFD,
           Refusal, Answer
  <2> QED BY <2>1, <2>2
<1> QED BY <1>1, <1>2

\* nothing that names a has changed
SameApp(a) ==
    /\ \A n \in Gnbs :
          /\ Kept(commands[n], commands'[n], About(a)) /\ Kept(toMac[n], toMac'[n], About(a))
          /\ Kept(reports[n], reports'[n], About(a))
          /\ \A p \in Gnbs : Kept(fromMac[n][p], fromMac'[n][p], About(a))
          /\ a \in server'[n].granted <=> a \in server[n].granted
          /\ server'[n].service[a] = server[n].service[a]
          /\ a \in server'[n].appsWaitMacInitFb <=> a \in server[n].appsWaitMacInitFb
          /\ carried'[n][a] = carried[n][a]
    /\ a \in sched'.appsWaitInitFb <=> a \in sched.appsWaitInitFb
    /\ a \in sched'.allocatedApps <=> a \in sched.allocatedApps
    /\ a \in Served(sched) =>
          /\ Instance(sched', a).processGnb = Instance(sched, a).processGnb
          /\ Instance(sched', a).offloadGnb = Instance(sched, a).offloadGnb
    /\ sched'.preSchedCheck = sched.preSchedCheck
    /\ sched'.schedComplete => sched.schedComplete
    /\ hasScheduler' = hasScheduler

\* then its life goes on as it was
LEMMA LifeKept ==
  ASSUME NEW a \in Apps, Sound, Life(a), SameApp(a)
  PROVE  Life(a)'
<1>1. ASSUME NEW n \in Gnbs
      PROVE  /\ Has(commands'[n], Start(a)) <=> Has(commands[n], Start(a))
             /\ Has(commands'[n], Stop(a)) <=> Has(commands[n], Stop(a))
             /\ \A o : Has(commands'[n], StartBut(a, o)) <=> Has(commands[n], StartBut(a, o))
             /\ Once(commands[n], Start(a)) => Once(commands'[n], Start(a))
             /\ Has(toMac'[n], Begin(a)) <=> Has(toMac[n], Begin(a))
             /\ Has(toMac'[n], End(a)) <=> Has(toMac[n], End(a))
             /\ \A p : Has(toMac'[n], BeginFor(a, p)) <=> Has(toMac[n], BeginFor(a, p))
             /\ Once(toMac[n], Begin(a)) => Once(toMac'[n], Begin(a))
             /\ Has(reports'[n], Say(a)) <=> Has(reports[n], Say(a))
             /\ Has(reports'[n], Refuse(a)) <=> Has(reports[n], Refuse(a))
             /\ \A o : Has(reports'[n], SayBut(a, o)) <=> Has(reports[n], SayBut(a, o))
             /\ Ending(reports[n], Refuse(a), Say(a)) => Ending(reports'[n], Refuse(a), Say(a))
  <2>1. /\ Kept(commands[n], commands'[n], About(a)) /\ Kept(toMac[n], toMac'[n], About(a))
        /\ Kept(reports[n], reports'[n], About(a))
    BY DEF SameApp
  <2> QED BY <2>1, AboutOne DEF Kept
<1>2. ASSUME NEW o \in Gnbs, NEW p \in Gnbs
      PROVE  /\ Has(fromMac'[o][p], Tell(a)) <=> Has(fromMac[o][p], Tell(a))
             /\ Has(fromMac'[o][p], Fail(a)) <=> Has(fromMac[o][p], Fail(a))
             /\ Ending(fromMac[o][p], Fail(a), Tell(a)) => Ending(fromMac'[o][p], Fail(a), Tell(a))
  <2>1. Kept(fromMac[o][p], fromMac'[o][p], About(a))
    BY DEF SameApp
  <2> QED BY <2>1, AboutOne DEF Kept
<1>3. ASSUME NEW n \in Gnbs
      PROVE  /\ a \in server'[n].granted <=> a \in server[n].granted
             /\ server'[n].service[a] = server[n].service[a]
             /\ a \in server'[n].appsWaitMacInitFb <=> a \in server[n].appsWaitMacInitFb
             /\ carried'[n][a] = carried[n][a]
             /\ a \in InitializingIn(server'[n]) <=> a \in InitializingIn(server[n])
             /\ a \in RunningIn(server'[n]) <=> a \in RunningIn(server[n])
  BY DEF SameApp, InitializingIn, RunningIn
<1>4. /\ a \in sched'.appsWaitInitFb <=> a \in sched.appsWaitInitFb
      /\ a \in sched'.allocatedApps <=> a \in sched.allocatedApps
      /\ a \in Served(sched') <=> a \in Served(sched)
      /\ a \in Served(sched) =>
            /\ Instance(sched', a).processGnb = Instance(sched, a).processGnb
            /\ Instance(sched', a).offloadGnb = Instance(sched, a).offloadGnb
      /\ sched'.preSchedCheck = sched.preSchedCheck
      /\ sched'.schedComplete => sched.schedComplete
      /\ hasScheduler' = hasScheduler
  BY DEF SameApp, Served
<1>5. Single(a)'
  <2>1. Single(a)
    BY DEF Life
  <2> QED BY <2>1, <1>1, <1>3 DEF Single
<1>6. ASSUME NEW o \in Gnbs, NEW p \in Gnbs PROVE Wire(o, p, a)'
  <2>1. Wire(o, p, a)
    BY DEF Life
  <2> QED BY <2>1, <1>1, <1>2, <1>3, <1>4 DEF Wire
<1>7. sched'.schedComplete => a \notin Served(sched') /\ Vacant(a)'
  BY <1>1, <1>3, <1>4 DEF Life, Vacant
<1>8. ASSUME AllFound' PROVE Booked(a)'
  <2>1. Booked(a)
    BY <1>4, <1>8 DEF Life, AllFound
  <2>2. /\ a \in Served(sched) => /\ Instance(sched, a).processGnb \in Gnbs
                                  /\ Instance(sched, a).offloadGnb \in Gnbs
        /\ \A n \in Gnbs : a \in server[n].granted => server[n].service[a].offloadGnb \in Gnbs
    BY SMTT(60) DEF Sound, SchedOk, ServiceInstance, Fine
  <2>3. ASSUME NEW n \in Gnbs PROVE StartBooked(n, a)'
    BY <2>1, <1>1, <1>4 DEF Booked, StartBooked, Served
  <2>4. ASSUME NEW n \in Gnbs PROVE ServiceBooked(n, a)'
    BY <2>1, <2>2, <1>1, <1>2, <1>3, <1>4, SMTT(60) DEF Booked, ServiceBooked
  <2>5. ASSUME NEW n \in Gnbs PROVE AnswerBooked(n, a)'
    BY <2>1, <1>1, <1>4 DEF Booked, AnswerBooked
  <2>6. Accounted(a)'
    BY <2>1, <2>2, <1>1, <1>2, <1>3, <1>4 DEF Booked, Accounted
  <2> QED BY <2>3, <2>4, <2>5, <2>6 DEF Booked
<1> QED BY <1>5, <1>6, <1>7, <1>8 DEF Life

-----------------------------------------------------------------------------
(* What the invariant says of one message.                                  *)

\* a command starts a service or stops it
LEMMA CommandKinds ==
  ASSUME NEW n \in Gnbs, NEW m \in CommandTo(n)
  PROVE  /\ m \in SrvGrant /\ m.app \in Apps /\ m.processGnb = n /\ m.offloadGnb \in Gnbs
         /\ m.start \in BOOLEAN
         /\ m.start => /\ m \in Start(m.app) /\ m \notin Stop(m.app)
                       /\ m \in AllStarts /\ m \notin AllStops
                       /\ \A o : m \in StartBut(m.app, o) <=> m.offloadGnb # o
         /\ ~m.start => /\ m \in Stop(m.app) /\ m \notin Start(m.app)
                        /\ m \in AllStops /\ m \notin AllStarts
                        /\ \A o : m \notin StartBut(m.app, o)
         /\ \A b : b # m.app => m \notin About(b)
<1>1. m \in SrvGrant /\ m.app \in Apps /\ m.processGnb = n /\ m.offloadGnb \in Gnbs
      /\ m.start \in BOOLEAN
  BY DEF CommandTo, SrvGrant
<1> QED BY <1>1, AboutItsApp DEF Start, Stop, AllStarts, AllStops, StartBut

\* a NicGrant begins a service or ends it
LEMMA GrantKinds ==
  ASSUME NEW o \in Gnbs, NEW m \in GrantTo(o)
  PROVE  /\ m \in NicGrant /\ m.app \in Apps /\ m.processGnb \in Gnbs /\ m.offloadGnb = o
         /\ m.stop \in BOOLEAN /\ m.type = "NicGrant"
         /\ ~m.stop => /\ m \in Begin(m.app) /\ m \notin End(m.app) /\ m \notin AllEnds
                       /\ \A p : m \in BeginFor(m.app, p) <=> m.processGnb = p
         /\ m.stop => /\ m \in End(m.app) /\ m \notin Begin(m.app) /\ m \in AllEnds
                      /\ \A p : m \notin BeginFor(m.app, p)
         /\ \A b : b # m.app => m \notin About(b)
<1>1. m \in NicGrant /\ m.app \in Apps /\ m.processGnb \in Gnbs /\ m.offloadGnb = o
      /\ m.stop \in BOOLEAN /\ m.type = "NicGrant"
  BY DEF GrantTo, NicGrant
<1> QED BY <1>1, AboutItsApp DEF Begin, End, AllEnds, BeginFor

\* a report of a MAC tells that it carries a service, or that it ended it
LEMMA ReportKinds ==
  ASSUME NEW o \in Gnbs, NEW p \in Gnbs, NEW m \in ReportTo(o, p)
  PROVE  /\ m \in MacReport /\ m.app \in Apps /\ m.processGnb = p /\ m.offloadGnb = o
         /\ m.success \in BOOLEAN
         /\ m \in Tell(m.app)
         /\ m \in Fail(m.app) <=> ~m.success
         /\ \A b : b # m.app => m \notin About(b)
<1>1. m \in MacReport /\ m.app \in Apps /\ m.processGnb = p /\ m.offloadGnb = o
      /\ m.success \in BOOLEAN
  BY DEF ReportTo, MacReport
<1> QED BY <1>1, AboutItsApp DEF Tell, Fail

\* a server answers, or passes on the status of its gNB
LEMMA AnswerKinds ==
  ASSUME NEW n \in Gnbs, NEW m \in StatusOf(n)
  PROVE  /\ m.type \in {"SrvFD", "RsuFD"} /\ m.type # "NicGrant"
         /\ m.type = "SrvFD" => /\ m \in SrvFD /\ m.app \in Apps /\ m.success \in BOOLEAN
                                /\ m.processGnb = n /\ m.offloadGnb \in Gnbs
                                /\ m.dated /\ m.availCmpUnit \in Int
                                /\ m \in Say(m.app)
                                /\ m \in Refuse(m.app) <=> ~m.success
                                /\ \A o : m \in SayBut(m.app, o) <=> m.offloadGnb # o
                                /\ m.success => m.grantedBand = 0
                                /\ \A b : b # m.app => m \notin About(b)
         /\ m.type = "RsuFD" => /\ m \in RsuFD /\ m.gnb = n /\ m.freeCmpUnits \in Int
                                /\ m.veh \in Ues \cup {NoUe}
                                /\ \A b : m \notin About(b)
<1>1. CASE m \in SrvFD /\ m.processGnb = n
  <2>1. /\ m.type = "SrvFD" /\ m.app \in Apps /\ m.success \in BOOLEAN
        /\ m.offloadGnb \in Gnbs /\ m.dated /\ m.availCmpUnit \in Int
        /\ m.success => m.grantedBand = 0
    BY <1>1 DEF SrvFD, Refusal, Answer
  <2> QED BY <1>1, <2>1, AboutItsApp DEF Say, Refuse, SayBut
<1>2. CASE m \in RsuFD /\ m.gnb = n
  <2>1. m.type = "RsuFD" /\ m.freeCmpUnits \in Int /\ m.veh \in Ues \cup {NoUe}
    BY <1>2 DEF RsuFD
  <2> QED BY <1>2, <2>1, AboutItsApp
<1> QED BY <1>1, <1>2 DEF StatusOf

\* what a channel has of a part it has of the whole
LEMMA HasPart ==
  ASSUME NEW s, NEW a
  PROVE  /\ \A o : Has(s, StartBut(a, o)) => Has(s, Start(a))
         /\ \A o : Has(s, SayBut(a, o)) => Has(s, Say(a))
         /\ \A p : Has(s, BeginFor(a, p)) => Has(s, Begin(a))
         /\ Has(s, Fail(a)) => Has(s, Tell(a))
         /\ Has(s, Refuse(a)) => Has(s, Say(a))
         /\ Has(s, Start(a)) => Has(s, AllStarts)
         /\ Has(s, Stop(a)) => Has(s, AllStops)
         /\ Has(s, End(a)) => Has(s, AllEnds)
  BY DEF Has, StartBut, SayBut, BeginFor, Fail, Refuse, Start, Stop, End, AllStarts, AllStops,
         AllEnds

-----------------------------------------------------------------------------
(* The counts of the units.                                                 *)

\* a status counts what the last one did, an answer may count anew
LEMMA CountedAppend ==
  ASSUME NEW S, NEW s \in Seq(S), NEW m \in S, NEW f, NEW g, Counted(s, f), Units(m) = g,
         m.type = "RsuFD" => g = f
  PROVE  /\ Counted(Append(s, m), g)
         /\ NoAnswerBehind(Append(s, m), 0) <=> NoAnswerBehind(s, 0) /\ m.type = "RsuFD"
<1> DEFINE t == Append(s, m)
<1>1. /\ DOMAIN t = DOMAIN s \cup {Len(s) + 1} /\ DOMAIN s = 1 .. Len(s) /\ Len(s) \in Nat
      /\ \A i \in DOMAIN s : t[i] = s[i]
      /\ t[Len(s) + 1] = m
  OBVIOUS
<1> HIDE DEF t
<1>2. ASSUME NEW i \in DOMAIN t, NoAnswerBehind(t, i) PROVE Units(t[i]) = g
  <2>1. CASE i = Len(s) + 1
    BY <1>1, <2>1
  <2>2. CASE i \in DOMAIN s
    <3>1. Len(s) + 1 > i /\ Len(s) + 1 \in DOMAIN t
      BY <1>1, <2>2
    <3>2. m.type = "RsuFD"
      BY <1>1, <1>2, <3>1 DEF NoAnswerBehind
    <3>3. NoAnswerBehind(s, i)
      BY <1>1, <1>2 DEF NoAnswerBehind
    <3> QED BY <1>1, <2>2, <3>2, <3>3 DEF Counted
  <2> QED BY <1>1, <2>1, <2>2
<1>3. NoAnswerBehind(t, 0) <=> NoAnswerBehind(s, 0) /\ m.type = "RsuFD"
  BY <1>1 DEF NoAnswerBehind
<1>4. Counted(t, g)
  BY <1>2 DEF Counted
<1> QED BY <1>3, <1>4 DEF t

\* without its first message the channel counts what it counted
LEMMA CountedTail ==
  ASSUME NEW S, NEW s \in Seq(S), s # <<>>, NEW f, Counted(s, f)
  PROVE  /\ Counted(Tail(s), f)
         /\ NoAnswerBehind(Tail(s), 0) => Units(Head(s)) = f
<1> DEFINE t == Tail(s)
<1>1. /\ Head(s) = s[1] /\ 1 \in DOMAIN s
      /\ Len(s) \in Nat \ {0} /\ DOMAIN s = 1 .. Len(s) /\ DOMAIN t = 1 .. Len(s) - 1
      /\ \A i \in DOMAIN t : t[i] = s[i + 1]
  OBVIOUS
<1> HIDE DEF t
<1>2. ASSUME NEW k \in Nat, NoAnswerBehind(t, k) PROVE NoAnswerBehind(s, k + 1)
  <2> SUFFICES ASSUME NEW j \in DOMAIN s, j > k + 1 PROVE s[j].type = "RsuFD"
    BY DEF NoAnswerBehind
  <2>1. j - 1 \in DOMAIN t /\ j - 1 > k /\ (j - 1) + 1 = j
    BY <1>1
  <2> QED BY <2>1, <1>1, <1>2 DEF NoAnswerBehind
<1>3. ASSUME NEW i \in DOMAIN t, NoAnswerBehind(t, i) PROVE Units(t[i]) = f
  <2>1. i \in Nat /\ i + 1 \in DOMAIN s /\ t[i] = s[i + 1]
    BY <1>1
  <2> QED BY <2>1, <1>2, <1>3 DEF Counted
<1>4. NoAnswerBehind(t, 0) => Units(s[1]) = f
  <2>1. NoAnswerBehind(t, 0) => NoAnswerBehind(s, 0 + 1)
    BY <1>2
  <2> QED BY <2>1, <1>1 DEF Counted
<1> QED BY <1>1, <1>3, <1>4 DEF Counted, t

-----------------------------------------------------------------------------
(* The steps of the servers.                                                *)

\* server n has become what handler h made of it
Turned(n, h) ==
    /\ DOMAIN server' = Gnbs /\ DOMAIN toMac' = Gnbs /\ DOMAIN reports' = Gnbs
    /\ \A m \in Gnbs : m # n => server'[m] = server[m]
    /\ Fine(server'[n], n) /\ ButOut(h, server'[n]) /\ server'[n].out = <<>>

\* message m has been sent to gNB o, or to the scheduler, and nothing else has
SentToMac(o, m) ==
    /\ toMac'[o] = Append(toMac[o], m)
    /\ \A x \in Gnbs : x # o => toMac'[x] = toMac[x]
    /\ \A x \in Gnbs : reports'[x] = reports[x]
SentReport(n, m) ==
    /\ reports'[n] = IF hasScheduler[n] THEN Append(reports[n], m) ELSE reports[n]
    /\ \A x \in Gnbs : x # n => reports'[x] = reports[x]
    /\ \A x \in Gnbs : toMac'[x] = toMac[x]
SentNothing ==
    \A x \in Gnbs : toMac'[x] = toMac[x] /\ reports'[x] = reports[x]

\* the server and the channels after a handler that leaves it fine
LEMMA PerformTurns ==
  ASSUME NEW n \in Gnbs, Sound, NEW h, Fine(h, n), PerformServer(n, h)
  PROVE  Turned(n, h)
<1> DEFINE w == [h EXCEPT !.out = <<>>]
           S == NicGrant \cup StatusOf(n)
<1>1. DOMAIN server = Gnbs /\ DOMAIN toMac = Gnbs /\ DOMAIN reports = Gnbs
  BY DEF Sound
<1>2. h \in ServerRecord(n)
  BY DEF Fine
<1>3. <<>> \in Seq(S)
  <2> HIDE DEF S
  <2> QED OBVIOUS
<1>4. w \in ServerRecord(n) /\ ButOut(h, w) /\ w.out = <<>>
  <2> HIDE DEF S
  <2> QED BY <1>2, <1>3 DEF ServerRecord, ButOut, S
<1> HIDE DEF w, S
<1>5. Fine(w, n)
  BY <1>4, FineKept DEF ButOut
<1>6. server' = [server EXCEPT ![n] = w]
  BY DEF PerformServer, w
<1>7. server'[n] = w /\ DOMAIN server' = Gnbs /\ \A m \in Gnbs : m # n => server'[m] = server[m]
  BY <1>1, <1>6
<1>8. DOMAIN toMac' = Gnbs /\ DOMAIN reports' = Gnbs
  BY <1>1 DEF PerformServer
<1> QED BY <1>4, <1>5, <1>7, <1>8 DEF Turned

\* what PerformServer sends is what the handler put into out
LEMMA PerformSends ==
  ASSUME NEW n \in Gnbs, Sound, NEW h, PerformServer(n, h)
  PROVE  /\ h.out = <<>> => SentNothing
         /\ \A o \in Gnbs : \A m \in GrantTo(o) : h.out = <<m>> => SentToMac(o, m)
         /\ \A m \in StatusOf(n) : h.out = <<m>> => SentReport(n, m)
<1>1. DOMAIN toMac = Gnbs /\ DOMAIN reports = Gnbs
  BY DEF Sound
<1>2. /\ toMac' = [o \in Gnbs |->
                     IF \E i \in DOMAIN h.out : h.out[i].type = "NicGrant" /\ h.out[i].offloadGnb = o
                     THEN Append(toMac[o], Head(h.out)) ELSE toMac[o]]
      /\ reports' = [reports EXCEPT ![n] =
                      IF hasScheduler[n] /\ \E i \in DOMAIN h.out : h.out[i].type # "NicGrant"
                      THEN Append(@, Head(h.out)) ELSE @]
  BY DEF PerformServer
<1>3. ASSUME h.out = <<>> PROVE SentNothing
  BY <1>1, <1>2, <1>3 DEF SentNothing
<1>4. ASSUME NEW o \in Gnbs, NEW m \in GrantTo(o), h.out = <<m>> PROVE SentToMac(o, m)
  <2>1. m.type = "NicGrant" /\ m.offloadGnb = o
    BY GrantKinds
  <2>2. DOMAIN h.out = {1} /\ h.out[1] = m /\ Head(h.out) = m
    BY <1>4
  <2> QED BY <1>1, <1>2, <2>1, <2>2 DEF SentToMac
<1>5. ASSUME NEW m \in StatusOf(n), h.out = <<m>> PROVE SentReport(n, m)
  <2>1. m.type # "NicGrant"
    BY AnswerKinds
  <2>2. DOMAIN h.out = {1} /\ h.out[1] = m /\ Head(h.out) = m
    BY <1>5
  <2> QED BY <1>1, <1>2, <2>1, <2>2 DEF SentReport
<1> QED BY <1>3, <1>4, <1>5

\* the channels stay sound, whatever is sent
LEMMA SentSound ==
  ASSUME NEW n \in Gnbs, Sound,
         \/ SentNothing
         \/ \E o \in Gnbs : \E m \in GrantTo(o) : SentToMac(o, m)
         \/ \E m \in StatusOf(n) : SentReport(n, m)
  PROVE  \A x \in Gnbs : toMac'[x] \in Seq(GrantTo(x)) /\ reports'[x] \in Seq(StatusOf(x))
<1>1. \A x \in Gnbs : toMac[x] \in Seq(GrantTo(x)) /\ reports[x] \in Seq(StatusOf(x))
  BY DEF Sound
<1>2. CASE SentNothing
  BY <1>1, <1>2 DEF SentNothing
<1>3. ASSUME NEW o \in Gnbs, NEW m \in GrantTo(o), SentToMac(o, m)
      PROVE  \A x \in Gnbs : toMac'[x] \in Seq(GrantTo(x)) /\ reports'[x] \in Seq(StatusOf(x))
  <2>1. Append(toMac[o], m) \in Seq(GrantTo(o))
    BY <1>1, HasAppend
  <2> QED BY <1>1, <1>3, <2>1 DEF SentToMac
<1>4. ASSUME NEW m \in StatusOf(n), SentReport(n, m)
      PROVE  \A x \in Gnbs : toMac'[x] \in Seq(GrantTo(x)) /\ reports'[x] \in Seq(StatusOf(x))
  <2>1. Append(reports[n], m) \in Seq(StatusOf(n))
    BY <1>1, HasAppend
  <2> QED BY <1>1, <1>4, <2>1 DEF SentReport
<1> QED BY <1>2, <1>3, <1>4

\* a server that has a scheduler may be what its handlers make of it
LEMMA SoundServer ==
  ASSUME NEW n \in Gnbs, Sound, NEW h, Turned(n, h),
         hasScheduler[n] \/ server'[n] = server[n],
         \/ SentNothing
         \/ \E o \in Gnbs : \E m \in GrantTo(o) : SentToMac(o, m)
         \/ \E m \in StatusOf(n) : SentReport(n, m),
         UNCHANGED <<sched, hasScheduler, carried>>,
         DOMAIN commands' = Gnbs, DOMAIN fromMac' = Gnbs,
         \A m \in Gnbs : /\ commands'[m] \in Seq(CommandTo(m)) /\ DOMAIN fromMac'[m] = Gnbs
                         /\ \A p \in Gnbs : fromMac'[m][p] \in Seq(ReportTo(m, p))
  PROVE  Sound'
<1>1. \A x \in Gnbs : toMac'[x] \in Seq(GrantTo(x)) /\ reports'[x] \in Seq(StatusOf(x))
  BY SentSound
<1>2. \A m \in Gnbs : Fine(server'[m], m) /\ server'[m].out = <<>>
  BY DEF Sound, Turned
<1>3. \A m \in Gnbs : ~hasScheduler[m] =>
         server'[m] = InitialServer(m) /\ \A a \in Apps : carried[m][a] = NoGnb
  BY DEF Sound, Turned
<1>4. DOMAIN server' = Gnbs /\ DOMAIN toMac' = Gnbs /\ DOMAIN reports' = Gnbs
  BY DEF Turned
<1> QED BY <1>1, <1>2, <1>3, <1>4 DEF Sound

\* a server tells its free units as they are
LEMMA CountsServer ==
  ASSUME NEW n \in Gnbs, Sound, \A m \in Gnbs : Counts(m), NEW h, Turned(n, h),
         UNCHANGED <<sched, hasScheduler>>,
         \/ /\ \A x \in Gnbs : reports'[x] = reports[x]
            /\ h.cmpUnitFree = server[n].cmpUnitFree
         \/ \E m \in StatusOf(n) : /\ SentReport(n, m) /\ Units(m) = h.cmpUnitFree
                                   /\ m.type = "RsuFD" => h.cmpUnitFree = server[n].cmpUnitFree
  PROVE  \A m \in Gnbs : Counts(m)'
<1> SUFFICES ASSUME NEW m \in Gnbs, AllFound' PROVE Counts(m)'
  BY DEF Counts
<1>1. AllFound /\ hasScheduler[n]
  BY DEF AllFound
<1>2. Counted(reports[m], server[m].cmpUnitFree)
      /\ (NoAnswerBehind(reports[m], 0) => sched.cmpUnits[m] \in {0, server[m].cmpUnitFree})
  BY <1>1 DEF Counts
<1>3. server'[n].cmpUnitFree = h.cmpUnitFree /\ \A x \in Gnbs : x # n => server'[x] = server[x]
  BY DEF Turned, ButOut
<1>4. CASE m # n
  <2>1. reports'[m] = reports[m]
    BY <1>4 DEF SentReport
  <2> QED BY <1>2, <1>3, <1>4, <2>1 DEF Counts
<1>5. CASE m = n /\ reports'[n] = reports[n] /\ h.cmpUnitFree = server[n].cmpUnitFree
  BY <1>2, <1>3, <1>5 DEF Counts
<1>6. CASE m = n /\ \E msg \in StatusOf(n) :
                       /\ SentReport(n, msg) /\ Units(msg) = h.cmpUnitFree
                       /\ msg.type = "RsuFD" => h.cmpUnitFree = server[n].cmpUnitFree
  <2>1. PICK msg \in StatusOf(n) :
           /\ SentReport(n, msg) /\ Units(msg) = h.cmpUnitFree
           /\ msg.type = "RsuFD" => h.cmpUnitFree = server[n].cmpUnitFree
    BY <1>6
  <2>2. reports'[n] = Append(reports[n], msg)
    BY <1>1, <2>1 DEF SentReport
  <2>3. reports[n] \in Seq(StatusOf(n))
    BY DEF Sound
  <2>4. /\ Counted(Append(reports[n], msg), h.cmpUnitFree)
        /\ NoAnswerBehind(Append(reports[n], msg), 0) <=>
              NoAnswerBehind(reports[n], 0) /\ msg.type = "RsuFD"
    BY <1>2, <1>6, <2>1, <2>3, CountedAppend
  <2> QED BY <1>2, <1>3, <1>6, <2>1, <2>2, <2>4 DEF Counts
<1> QED BY <1>4, <1>5, <1>6

\* what the channels have then
LEMMA SentToMacHas ==
  ASSUME Sound, NEW o \in Gnbs, NEW m \in GrantTo(o), SentToMac(o, m)
  PROVE  /\ \A x \in Gnbs : \A M : Has(toMac'[x], M) <=> Has(toMac[x], M) \/ (x = o /\ m \in M)
         /\ \A x \in Gnbs : \A M : Once(toMac[x], M) /\ (x = o /\ m \in M => ~Has(toMac[x], M))
                                      => Once(toMac'[x], M)
         /\ \A x \in Gnbs : reports'[x] = reports[x]
         /\ \A b : b # m.app => \A x \in Gnbs : Kept(toMac[x], toMac'[x], About(b))
<1>1. toMac[o] \in Seq(GrantTo(o)) /\ m.app \in Apps /\ \A b : b # m.app => m \notin About(b)
  BY GrantKinds DEF Sound
<1>2. /\ toMac'[o] = Append(toMac[o], m)
      /\ \A x \in Gnbs : x # o => toMac'[x] = toMac[x]
      /\ \A x \in Gnbs : reports'[x] = reports[x]
  BY DEF SentToMac
<1>3. \A M : Has(toMac'[o], M) <=> Has(toMac[o], M) \/ m \in M
  BY <1>1, <1>2, HasAppend
<1>4. \A M : Once(toMac[o], M) /\ (m \in M => ~Has(toMac[o], M)) => Once(toMac'[o], M)
  BY <1>1, <1>2, OnceAppend
<1>5. ASSUME NEW b, b # m.app, NEW x \in Gnbs PROVE Kept(toMac[x], toMac'[x], About(b))
  <2>1. CASE x = o
    BY <1>1, <1>2, <1>5, <2>1, KeptAppend
  <2>2. CASE x # o
    BY <1>2, <2>2, KeptSame
  <2> QED BY <2>1, <2>2
<1> QED BY <1>2, <1>3, <1>4, <1>5

\* the same of the channel to the scheduler
LEMMA SentReportHas ==
  ASSUME Sound, NEW n \in Gnbs, NEW m \in StatusOf(n), SentReport(n, m)
  PROVE  /\ \A x \in Gnbs : \A M : Has(reports'[x], M) <=>
               Has(reports[x], M) \/ (x = n /\ hasScheduler[n] /\ m \in M)
         /\ \A x \in Gnbs : \A E, T :
               Ending(reports[x], E, T) /\ (x = n /\ hasScheduler[n] /\ m \in T => ~Has(reports[x], E))
                  => Ending(reports'[x], E, T)
         /\ \A x \in Gnbs : toMac'[x] = toMac[x]
         /\ \A b : (m.type = "SrvFD" => b # m.app) =>
               \A x \in Gnbs : Kept(reports[x], reports'[x], About(b))
<1>1. /\ reports[n] \in Seq(StatusOf(n))
      /\ \A b : (m.type = "SrvFD" => b # m.app) => m \notin About(b)
  BY AnswerKinds DEF Sound
<1>2. /\ reports'[n] = IF hasScheduler[n] THEN Append(reports[n], m) ELSE reports[n]
      /\ \A x \in Gnbs : x # n => reports'[x] = reports[x]
      /\ \A x \in Gnbs : toMac'[x] = toMac[x]
  BY DEF SentReport
<1>3. \A M : Has(reports'[n], M) <=> Has(reports[n], M) \/ (hasScheduler[n] /\ m \in M)
  <2>1. \A M : Has(Append(reports[n], m), M) <=> Has(reports[n], M) \/ m \in M
    BY <1>1, HasAppend
  <2> QED BY <2>1, <1>2
<1>4. \A E, T : Ending(reports[n], E, T) /\ (hasScheduler[n] /\ m \in T => ~Has(reports[n], E))
                   => Ending(reports'[n], E, T)
  <2>1. \A E, T : Ending(reports[n], E, T) /\ (m \in T => ~Has(reports[n], E))
                     => Ending(Append(reports[n], m), E, T)
    BY <1>1, OnceAppend
  <2> QED BY <2>1, <1>2
<1>5. ASSUME NEW b, m.type = "SrvFD" => b # m.app, NEW x \in Gnbs
      PROVE  Kept(reports[x], reports'[x], About(b))
  <2>1. CASE x = n /\ hasScheduler[n]
    BY <1>1, <1>2, <1>5, <2>1, KeptAppend
  <2>2. CASE ~(x = n /\ hasScheduler[n])
    BY <1>2, <2>2, KeptSame
  <2> QED BY <2>1, <2>2
<1> QED BY <1>2, <1>3, <1>4, <1>5

\* a server has done something for a, which is nothing to b
LEMMA OthersSame ==
  ASSUME Sound, NEW n \in Gnbs, NEW h, Turned(n, h), NEW a, SameBut(server[n], h, a),
         NEW b \in Apps, b # a, UNCHANGED <<sched, hasScheduler, carried>>,
         \A x \in Gnbs : /\ Kept(commands[x], commands'[x], About(b))
                         /\ \A p \in Gnbs : Kept(fromMac[x][p], fromMac'[x][p], About(b)),
         \/ SentNothing
         \/ \E o \in Gnbs : \E m \in GrantTo(o) : m.app = a /\ SentToMac(o, m)
         \/ \E m \in StatusOf(n) : (m.type = "SrvFD" => m.app = a) /\ SentReport(n, m)
  PROVE  SameApp(b)
<1>1. \A x \in Gnbs : /\ Kept(toMac[x], toMac'[x], About(b))
                      /\ Kept(reports[x], reports'[x], About(b))
  <2>1. CASE SentNothing
    BY <2>1, KeptSame DEF SentNothing
  <2>2. ASSUME NEW o \in Gnbs, NEW m \in GrantTo(o), m.app = a, SentToMac(o, m)
        PROVE  \A x \in Gnbs : /\ Kept(toMac[x], toMac'[x], About(b))
                               /\ Kept(reports[x], reports'[x], About(b))
    BY <2>2, SentToMacHas, KeptSame
  <2>3. ASSUME NEW m \in StatusOf(n), m.type = "SrvFD" => m.app = a, SentReport(n, m)
        PROVE  \A x \in Gnbs : /\ Kept(toMac[x], toMac'[x], About(b))
                               /\ Kept(reports[x], reports'[x], About(b))
    BY <2>3, SentReportHas, KeptSame
  <2> QED BY <2>1, <2>2, <2>3
<1>2. \A x \in Gnbs : /\ b \in server'[x].granted <=> b \in server[x].granted
                      /\ server'[x].service[b] = server[x].service[b]
                      /\ b \in server'[x].appsWaitMacInitFb <=> b \in server[x].appsWaitMacInitFb
  BY DEF Turned, SameBut, ButOut
<1> QED BY <1>1, <1>2 DEF SameApp

\* fewer stops, fewer starts, and no service begins to initialize
LEMMA StopsKept ==
  ASSUME Stops, sched'.schedComplete => sched.schedComplete,
         \A n \in Gnbs : /\ Has(commands'[n], AllStops) => Has(commands[n], AllStops)
                         /\ Has(commands'[n], AllStarts) => Has(commands[n], AllStarts)
                         /\ server[n].srvInInitVector = <<>> => server'[n].srvInInitVector = <<>>
  PROVE  Stops'
  BY DEF Stops

\* the phase depends on the scheduler and on the stops that are under way
LEMMA PhaseKept ==
  ASSUME Phase, hasScheduler' = hasScheduler, sched'.preSchedCheck = sched.preSchedCheck,
         sched'.appsWaitStopFb \subseteq sched.appsWaitStopFb,
         sched'.appsWaitInitFb \subseteq sched.appsWaitInitFb,
         \A n \in Gnbs : /\ Has(commands'[n], AllStops) => Has(commands[n], AllStops)
                         /\ Has(toMac'[n], AllEnds) =>
                               Has(toMac[n], AllEnds) \/ (AllFound => ~sched.preSchedCheck)
  PROVE  Phase'
  BY DEF Phase, AllFound

\* a server gets a command
LEMMA CommandTaken ==
  ASSUME Sound, NEW n \in Gnbs, commands[n] # <<>>,
         commands' = [commands EXCEPT ![n] = Tail(@)]
  PROVE  LET grant == Head(commands[n])
         IN  /\ grant \in CommandTo(n) /\ DOMAIN commands' = Gnbs
             /\ \A x \in Gnbs : commands'[x] \in Seq(CommandTo(x))
             /\ \A x \in Gnbs : \A M : Has(commands[x], M) <=>
                   Has(commands'[x], M) \/ (x = n /\ grant \in M)
             /\ \A x \in Gnbs : \A M : Once(commands[x], M) =>
                   Once(commands'[x], M) /\ (x = n /\ grant \in M => ~Has(commands'[x], M))
             /\ \A b : b # grant.app => \A x \in Gnbs : Kept(commands[x], commands'[x], About(b))
<1> DEFINE grant == Head(commands[n])
<1>1. /\ DOMAIN commands = Gnbs /\ \A x \in Gnbs : commands[x] \in Seq(CommandTo(x))
  BY DEF Sound
<1>2. /\ commands'[n] = Tail(commands[n]) /\ \A x \in Gnbs : x # n => commands'[x] = commands[x]
      /\ DOMAIN commands' = Gnbs
  BY <1>1
<1>3. /\ grant \in CommandTo(n) /\ Tail(commands[n]) \in Seq(CommandTo(n))
      /\ \A M : Has(commands[n], M) <=> grant \in M \/ Has(Tail(commands[n]), M)
      /\ \A M : Once(commands[n], M) =>
            Once(Tail(commands[n]), M) /\ (grant \in M => ~Has(Tail(commands[n]), M))
  BY <1>1, HasTail
<1>4. ASSUME NEW b, b # grant.app, NEW x \in Gnbs
      PROVE  Kept(commands[x], commands'[x], About(b))
  <2>1. CASE x = n
    <3>1. grant \notin About(b)
      BY <1>3, <1>4, CommandKinds
    <3> QED BY <1>1, <1>2, <2>1, <3>1, KeptTail
  <2>2. CASE x # n
    BY <1>2, <2>2, KeptSame
  <2> QED BY <2>1, <2>2
<1> HIDE DEF grant
<1> QED BY <1>1, <1>2, <1>3, <1>4 DEF grant

\* a step of a server keeps the invariant, if it does for the application it is about
LEMMA ServerStep ==
  ASSUME IInv, NEW n \in Gnbs, NEW h, Turned(n, h), NEW a, SameBut(server[n], h, a),
         UNCHANGED <<sched, hasScheduler, carried>>,
         hasScheduler[n] \/ server'[n] = server[n],
         DOMAIN commands' = Gnbs, DOMAIN fromMac' = Gnbs,
         \A m \in Gnbs : /\ commands'[m] \in Seq(CommandTo(m)) /\ DOMAIN fromMac'[m] = Gnbs
                         /\ \A p \in Gnbs : fromMac'[m][p] \in Seq(ReportTo(m, p)),
         \A b : b # a =>
            \A x \in Gnbs : /\ Kept(commands[x], commands'[x], About(b))
                            /\ \A p \in Gnbs : Kept(fromMac[x][p], fromMac'[x][p], About(b)),
         \/ SentNothing /\ h.cmpUnitFree = server[n].cmpUnitFree
         \/ /\ \E o \in Gnbs : \E m \in GrantTo(o) : m.app = a /\ SentToMac(o, m)
            /\ h.cmpUnitFree = server[n].cmpUnitFree
         \/ \E m \in StatusOf(n) : /\ SentReport(n, m) /\ Units(m) = h.cmpUnitFree
                                   /\ m.type = "SrvFD" => m.app = a
                                   /\ m.type = "RsuFD" => h.cmpUnitFree = server[n].cmpUnitFree,
         a \in Apps => Life(a)', Stops', Phase'
  PROVE  IInv'
<1>1. Sound /\ \A m \in Gnbs : Counts(m)
  BY DEF IInv
<1>2. \/ SentNothing
      \/ \E o \in Gnbs : \E m \in GrantTo(o) : m.app = a /\ SentToMac(o, m)
      \/ \E m \in StatusOf(n) : (m.type = "SrvFD" => m.app = a) /\ SentReport(n, m)
  OBVIOUS
<1>3. Sound'
  <2>1. \/ SentNothing
        \/ \E o \in Gnbs : \E m \in GrantTo(o) : SentToMac(o, m)
        \/ \E m \in StatusOf(n) : SentReport(n, m)
    BY <1>2
  <2> QED BY <1>1, <2>1, SoundServer
<1>4. ASSUME NEW b \in Apps, b # a PROVE Life(b)'
  <2>1. SameApp(b)
    BY <1>1, <1>2, <1>4, OthersSame
  <2>2. Life(b)
    BY DEF IInv
  <2> QED BY <1>1, <2>1, <2>2, LifeKept
<1>5. \A m \in Gnbs : Counts(m)'
  <2>1. \/ /\ \A x \in Gnbs : reports'[x] = reports[x]
           /\ h.cmpUnitFree = server[n].cmpUnitFree
        \/ \E m \in StatusOf(n) : /\ SentReport(n, m) /\ Units(m) = h.cmpUnitFree
                                  /\ m.type = "RsuFD" => h.cmpUnitFree = server[n].cmpUnitFree
    BY DEF SentNothing, SentToMac
  <2> QED BY <1>1, <2>1, CountsServer
<1> QED BY <1>3, <1>4, <1>5 DEF IInv

\* what a server knows of the application a start is about: nothing
LEMMA StartIsNews ==
  ASSUME IInv, NEW n \in Gnbs, NEW a \in Apps, Has(commands[n], Start(a))
  PROVE  /\ \A m \in Gnbs : /\ a \notin server[m].granted /\ carried[m][a] = NoGnb
                            /\ ~Has(toMac[m], Begin(a)) /\ (\A p : ~Has(toMac[m], BeginFor(a, p)))
                            /\ Has(commands[m], Start(a)) => m = n
                            /\ \A p \in Gnbs : hasScheduler[p] => ~Has(fromMac[m][p], Tell(a))
         /\ ~sched.schedComplete
<1>1. Single(a) /\ (\A o, p \in Gnbs : Wire(o, p, a)) /\ (sched.schedComplete => Vacant(a))
  BY DEF IInv, Life
<1>2. \A m \in Gnbs : /\ a \notin server[m].granted /\ carried[m][a] = NoGnb
                      /\ ~Has(toMac[m], Begin(a)) /\ (Has(commands[m], Start(a)) => m = n)
  BY <1>1 DEF Single
<1>3. \A m, p \in Gnbs : hasScheduler[p] => ~Has(fromMac[m][p], Tell(a))
  BY <1>1, <1>2 DEF Wire, RunningIn
<1>4. \A m \in Gnbs : \A p : ~Has(toMac[m], BeginFor(a, p))
  BY <1>2, HasPart
<1> QED BY <1>1, <1>2, <1>3, <1>4 DEF Vacant

\* the server accepts a start
LEMMA StartAccepted ==
  ASSUME IInv, NEW n \in Gnbs, commands[n] # <<>>, hasScheduler[n],
         commands' = [commands EXCEPT ![n] = Tail(@)],
         NEW grant, grant = Head(commands[n]), grant.start,
         NEW h, Turned(n, h), SameBut(server[n], h, grant.app),
         SentNothing, h.cmpUnitFree = server[n].cmpUnitFree,
         grant.app \in InitializingIn(h), grant.app \notin h.appsWaitMacInitFb,
         h.service[grant.app].offloadGnb = grant.offloadGnb,
         UNCHANGED <<sched, hasScheduler, carried, fromMac>>
  PROVE  IInv'
<1> DEFINE a == grant.app
<1>1. /\ Sound /\ Life(a) /\ Stops /\ Phase /\ grant \in CommandTo(n) /\ a \in Apps
      /\ grant.offloadGnb \in Gnbs
  <2>1. Sound /\ Stops /\ Phase
    BY DEF IInv
  <2>2. grant \in CommandTo(n)
    BY <2>1, CommandTaken
  <2>3. a \in Apps /\ grant.offloadGnb \in Gnbs
    BY <2>2, CommandKinds
  <2> QED BY <2>1, <2>2, <2>3 DEF IInv
<1>2. /\ DOMAIN commands' = Gnbs
      /\ \A x \in Gnbs : commands'[x] \in Seq(CommandTo(x))
      /\ \A x \in Gnbs : \A M : Has(commands[x], M) <=>
            Has(commands'[x], M) \/ (x = n /\ grant \in M)
      /\ \A x \in Gnbs : \A M : Once(commands[x], M) =>
            Once(commands'[x], M) /\ (x = n /\ grant \in M => ~Has(commands'[x], M))
      /\ \A b : b # a => \A x \in Gnbs : Kept(commands[x], commands'[x], About(b))
  BY <1>1, CommandTaken
<1>3. /\ grant \in Start(a) /\ grant \in AllStarts /\ grant \notin AllStops
      /\ \A o : grant \in StartBut(a, o) <=> grant.offloadGnb # o
  BY <1>1, CommandKinds
<1>4. Has(commands[n], Start(a)) /\ Has(commands[n], AllStarts)
  BY <1>2, <1>3
<1>5. /\ \A m \in Gnbs : /\ a \notin server[m].granted /\ carried[m][a] = NoGnb
                         /\ ~Has(toMac[m], Begin(a)) /\ (\A p : ~Has(toMac[m], BeginFor(a, p)))
                         /\ Has(commands[m], Start(a)) => m = n
                         /\ \A p \in Gnbs : hasScheduler[p] => ~Has(fromMac[m][p], Tell(a))
      /\ ~sched.schedComplete
  BY <1>1, <1>4, StartIsNews
<1>6. /\ \A m \in Gnbs : ~Has(commands'[m], Start(a)) /\ Once(commands'[m], Start(a))
      /\ \A m \in Gnbs : \A o : ~Has(commands'[m], StartBut(a, o))
  <2>1. \A m \in Gnbs : Once(commands[m], Start(a))
    BY <1>1 DEF Life, Single
  <2>2. \A m \in Gnbs : ~Has(commands'[m], Start(a)) /\ Once(commands'[m], Start(a))
    BY <1>2, <1>3, <1>5, <2>1
  <2> QED BY <2>2, HasPart, SMTT(60)
<1>7. /\ \A x \in Gnbs : toMac'[x] = toMac[x] /\ reports'[x] = reports[x]
      /\ \A m \in Gnbs : m # n => server'[m] = server[m]
      /\ a \in server'[n].granted /\ a \in InitializingIn(server'[n])
      /\ a \notin RunningIn(server'[n]) /\ a \notin server'[n].appsWaitMacInitFb
      /\ server'[n].service[a].offloadGnb = grant.offloadGnb
  BY SMTT(60) DEF SentNothing, Turned, ButOut, InitializingIn, RunningIn
<1>8. Single(a)'
  <2>1. \A m \in Gnbs : Once(toMac[m], Begin(a))
    BY <1>1 DEF Life, Single
  <2>2. \A m \in Gnbs : a \in server'[m].granted => m = n
    BY <1>5, <1>7, SMTT(60)
  <2> QED BY <2>1, <2>2, <1>5, <1>6, <1>7, ZenonT(60) DEF Single
<1>9. ASSUME NEW o \in Gnbs, NEW p \in Gnbs PROVE Wire(o, p, a)'
  <2>1. p # NoGnb
    BY MecTypesAssumption, SMTT(60)
  <2>2. Ending(fromMac[o][p], Fail(a), Tell(a))
    BY <1>1 DEF Life, Wire
  <2> QED BY <2>1, <2>2, <1>5, <1>7 DEF Wire
<1>10. ASSUME AllFound' PROVE Booked(a)'
  <2>1. AllFound
    BY <1>10 DEF AllFound
  <2>2. /\ a \in sched.appsWaitInitFb /\ Instance(sched, a).processGnb = n
        /\ Instance(sched, a).offloadGnb = grant.offloadGnb
        /\ \A m \in Gnbs : ~Has(reports[m], Say(a)) /\ ~Has(reports[m], Refuse(a))
    <3>1. StartBooked(n, a)
      BY <1>1, <2>1 DEF Life, Booked
    <3>2. ~Has(commands[n], StartBut(a, Instance(sched, a).offloadGnb))
      BY <3>1, <1>4 DEF StartBooked
    <3>3. Instance(sched, a).offloadGnb = grant.offloadGnb
      BY <3>2, <1>2, <1>3
    <3> QED BY <3>1, <3>3, <1>4, HasPart DEF StartBooked
  <2>3. ASSUME NEW m \in Gnbs PROVE StartBooked(m, a)'
    BY <1>6, SMTT(60) DEF StartBooked
  <2>4. ASSUME NEW m \in Gnbs PROVE ServiceBooked(m, a)'
    BY <2>2, <1>5, <1>7, Zenon DEF ServiceBooked, Served
  <2>5. ASSUME NEW m \in Gnbs PROVE AnswerBooked(m, a)'
    BY <2>2, <1>7 DEF AnswerBooked
  <2>6. sched.preSchedCheck
    BY <1>1, <2>1, <2>2, SMTT(60) DEF Phase
  <2>7. Accounted(a)'
    BY <2>2, <2>6, <1>7 DEF Accounted
  <2> QED BY <2>3, <2>4, <2>5, <2>7 DEF Booked
<1>11. Life(a)'
  BY <1>5, <1>8, <1>9, <1>10 DEF Life
<1>12. Stops'
  <2>1. \A m \in Gnbs : ~Has(commands[m], AllStops)
    BY <1>1, <1>4 DEF Stops
  <2>2. \A m \in Gnbs : ~Has(commands'[m], AllStops)
    BY <2>1, <1>2
  <2> QED BY <2>2 DEF Stops
<1>13. Phase'
  BY <1>1, <1>2, <1>7, PhaseKept
<1>14. /\ DOMAIN fromMac' = Gnbs
       /\ \A m \in Gnbs : /\ DOMAIN fromMac'[m] = Gnbs
                          /\ \A p \in Gnbs : fromMac'[m][p] \in Seq(ReportTo(m, p))
  BY <1>1 DEF Sound
<1>15. \A b : \A x \in Gnbs : \A p \in Gnbs : Kept(fromMac[x][p], fromMac'[x][p], About(b))
  BY KeptSame
<1> QED BY <1>1, <1>2, <1>11, <1>12, <1>13, <1>14, <1>15, ServerStep

\* the server refuses a start
LEMMA StartRefused ==
  ASSUME IInv, NEW n \in Gnbs, commands[n] # <<>>, hasScheduler[n],
         commands' = [commands EXCEPT ![n] = Tail(@)],
         NEW grant, grant = Head(commands[n]), grant.start,
         NEW h, Turned(n, h), SameBut(server[n], h, grant.app),
         h.cmpUnitFree = server[n].cmpUnitFree,
         h.srvInInitVector = server[n].srvInInitVector,
         grant.app \notin h.granted, grant.app \notin h.appsWaitMacInitFb,
         NEW msg \in Say(grant.app) \cap StatusOf(n), SentReport(n, msg),
         msg.offloadGnb = grant.offloadGnb, ~msg.success, msg.availCmpUnit = h.cmpUnitFree,
         UNCHANGED <<sched, hasScheduler, carried, fromMac>>
  PROVE  IInv'
<1> DEFINE a == grant.app
<1>1. /\ Sound /\ Life(a) /\ Stops /\ Phase /\ grant \in CommandTo(n) /\ a \in Apps
      /\ grant.offloadGnb \in Gnbs
  <2>1. Sound /\ Stops /\ Phase
    BY DEF IInv
  <2>2. grant \in CommandTo(n)
    BY <2>1, CommandTaken
  <2>3. a \in Apps /\ grant.offloadGnb \in Gnbs
    BY <2>2, CommandKinds
  <2> QED BY <2>1, <2>2, <2>3 DEF IInv
<1>2. /\ DOMAIN commands' = Gnbs
      /\ \A x \in Gnbs : commands'[x] \in Seq(CommandTo(x))
      /\ \A x \in Gnbs : \A M : Has(commands[x], M) <=>
            Has(commands'[x], M) \/ (x = n /\ grant \in M)
      /\ \A x \in Gnbs : \A M : Once(commands[x], M) =>
            Once(commands'[x], M) /\ (x = n /\ grant \in M => ~Has(commands'[x], M))
      /\ \A b : b # a => \A x \in Gnbs : Kept(commands[x], commands'[x], About(b))
  BY <1>1, CommandTaken, ZenonT(60)
<1>3. /\ grant \in Start(a) /\ grant \in AllStarts /\ grant \notin AllStops
      /\ \A o : grant \in StartBut(a, o) <=> grant.offloadGnb # o
  BY <1>1, CommandKinds
<1>4. Has(commands[n], Start(a)) /\ Has(commands[n], AllStarts)
  BY <1>2, <1>3
<1>5. /\ \A m \in Gnbs : /\ a \notin server[m].granted /\ carried[m][a] = NoGnb
                         /\ ~Has(toMac[m], Begin(a)) /\ (\A p : ~Has(toMac[m], BeginFor(a, p)))
                         /\ Has(commands[m], Start(a)) => m = n
                         /\ \A p \in Gnbs : hasScheduler[p] => ~Has(fromMac[m][p], Tell(a))
      /\ ~sched.schedComplete
  BY <1>1, <1>4, StartIsNews
<1>6. /\ \A m \in Gnbs : ~Has(commands'[m], Start(a)) /\ Once(commands'[m], Start(a))
      /\ \A m \in Gnbs : \A o : ~Has(commands'[m], StartBut(a, o))
  <2>1. \A m \in Gnbs : Once(commands[m], Start(a))
    BY <1>1 DEF Life, Single
  <2>2. \A m \in Gnbs : ~Has(commands'[m], Start(a)) /\ Once(commands'[m], Start(a))
    BY <1>2, <1>3, <1>5, <2>1
  <2> QED BY <2>2, HasPart
<1>7. /\ \A x \in Gnbs : toMac'[x] = toMac[x]
      /\ \A x \in Gnbs : \A M : Has(reports'[x], M) <=>
            Has(reports[x], M) \/ (x = n /\ msg \in M)
      /\ \A x \in Gnbs : \A E, T :
            Ending(reports[x], E, T) /\ (x = n /\ msg \in T => ~Has(reports[x], E))
               => Ending(reports'[x], E, T)
      /\ \A m \in Gnbs : a \notin server'[m].granted
      /\ \A m \in Gnbs : m # n => server'[m] = server[m]
      /\ server'[n].srvInInitVector = server[n].srvInInitVector
  <2>1. \A m \in Gnbs : a \notin server'[m].granted
    BY <1>5 DEF Turned, ButOut
  <2>2. /\ \A m \in Gnbs : m # n => server'[m] = server[m]
        /\ server'[n].srvInInitVector = server[n].srvInInitVector
    BY DEF Turned, ButOut
  <2> QED BY <2>1, <2>2, <1>1, SentReportHas, ZenonT(120)
<1>8. /\ msg.type = "SrvFD" /\ msg.app = a /\ msg \in Refuse(a) /\ msg \in Say(a)
      /\ \A o : msg \in SayBut(a, o) <=> msg.offloadGnb # o
  <2>1. msg.app = a /\ msg.type = "SrvFD"
    BY DEF Say, SrvFD, Refusal, Answer
  <2> QED BY <2>1, AnswerKinds
<1>9. Single(a)'
  <2>1. \A m \in Gnbs : Once(toMac[m], Begin(a))
    BY <1>1 DEF Life, Single
  <2> QED BY <2>1, <1>5, <1>6, <1>7 DEF Single
<1>10. ASSUME NEW o \in Gnbs, NEW p \in Gnbs PROVE Wire(o, p, a)'
  <2>1. p # NoGnb
    BY MecTypesAssumption, SMTT(60)
  <2>2. Ending(fromMac[o][p], Fail(a), Tell(a))
    BY <1>1 DEF Life, Wire
  <2> QED BY <2>1, <2>2, <1>5, <1>7 DEF Wire
<1>11. ASSUME AllFound' PROVE Booked(a)'
  <2>1. AllFound
    BY <1>11 DEF AllFound
  <2>2. /\ a \in sched.appsWaitInitFb /\ Instance(sched, a).processGnb = n
        /\ Instance(sched, a).offloadGnb = grant.offloadGnb
        /\ \A m \in Gnbs : /\ ~Has(reports[m], Say(a)) /\ ~Has(reports[m], Refuse(a))
                           /\ \A o : ~Has(reports[m], SayBut(a, o))
    <3>1. StartBooked(n, a)
      BY <1>1, <2>1 DEF Life, Booked
    <3>2. ~Has(commands[n], StartBut(a, Instance(sched, a).offloadGnb))
      BY <3>1, <1>4 DEF StartBooked
    <3>3. Instance(sched, a).offloadGnb = grant.offloadGnb
      BY <3>2, <1>2, <1>3
    <3> QED BY <3>1, <3>3, <1>4, HasPart DEF StartBooked
  <2>3. ASSUME NEW m \in Gnbs PROVE StartBooked(m, a)'
    BY <1>6, SMTT(60) DEF StartBooked
  <2>4. ASSUME NEW m \in Gnbs PROVE ServiceBooked(m, a)'
    BY <1>7, Zenon DEF ServiceBooked
  <2>5. ASSUME NEW m \in Gnbs PROVE AnswerBooked(m, a)'
    <3>1. Has(reports'[m], Say(a)) => m = n
      BY <1>7, <2>2
    <3>2. ~Has(reports'[n], SayBut(a, Instance(sched, a).offloadGnb))
      BY <1>7, <1>8, <2>2
    <3>3. Ending(reports[n], Refuse(a), Say(a))
      BY <2>2 DEF Ending, Has
    <3>4. Ending(reports'[n], Refuse(a), Say(a))
      BY <3>3, <1>7, <2>2
    <3> QED BY <3>1, <3>2, <3>4, <2>2 DEF AnswerBooked, Served
  <2>6. Accounted(a)'
    <3>1. Has(reports'[n], Refuse(a))
      BY <1>7, <1>8
    <3> QED BY <3>1, <2>2 DEF Accounted
  <2> QED BY <2>3, <2>4, <2>5, <2>6 DEF Booked
<1>12. Life(a)'
  BY <1>5, <1>9, <1>10, <1>11 DEF Life
<1>13. Stops'
  BY <1>1, <1>2, <1>7, StopsKept
<1>14. Phase'
  BY <1>1, <1>2, <1>7, PhaseKept
<1>15. /\ DOMAIN fromMac' = Gnbs
       /\ \A m \in Gnbs : /\ DOMAIN fromMac'[m] = Gnbs
                          /\ \A p \in Gnbs : fromMac'[m][p] \in Seq(ReportTo(m, p))
  BY <1>1 DEF Sound
<1>16. \A b : \A x \in Gnbs : \A p \in Gnbs : Kept(fromMac[x][p], fromMac'[x][p], About(b))
  BY KeptSame
<1>17. Units(msg) = h.cmpUnitFree
  BY <1>8 DEF Units
<1>18. \E m \in StatusOf(n) : /\ SentReport(n, m) /\ Units(m) = h.cmpUnitFree
                              /\ m.type = "SrvFD" => m.app = a
                              /\ m.type = "RsuFD" => h.cmpUnitFree = server[n].cmpUnitFree
  BY <1>8, <1>17
<1> QED BY <1>1, <1>2, <1>12, <1>13, <1>14, <1>15, <1>16, <1>18, ServerStep, ZenonT(60)

\* less of an application is still a single one
LEMMA SingleKept ==
  ASSUME NEW a, Single(a),
         \A n \in Gnbs :
            /\ Has(commands'[n], Start(a)) => Has(commands[n], Start(a))
            /\ Has(toMac'[n], Begin(a)) => Has(toMac[n], Begin(a))
            /\ Once(commands'[n], Start(a)) /\ Once(toMac'[n], Begin(a))
            /\ a \in server'[n].granted => a \in server[n].granted
            /\ a \in InitializingIn(server'[n]) => a \in InitializingIn(server[n])
            /\ carried'[n][a] # NoGnb => carried[n][a] # NoGnb
  PROVE  Single(a)'
  BY DEF Single

\* a stop of a service that runs here is sent on to its gNB
StopForwarded(n, grant, h, o, msg) ==
    /\ commands[n] # <<>> /\ hasScheduler[n]
    /\ commands' = [commands EXCEPT ![n] = Tail(@)]
    /\ grant = Head(commands[n]) /\ ~grant.start
    /\ grant.app \in server[n].granted
    /\ Turned(n, h) /\ ButOut(server[n], h)
    /\ o = server[n].service[grant.app].offloadGnb
    /\ msg \in GrantTo(o) /\ SentToMac(o, msg) /\ msg.app = grant.app /\ msg.stop
    /\ UNCHANGED <<sched, hasScheduler, carried, fromMac>>

LEMMA StopSentOn ==
  ASSUME IInv, NEW n \in Gnbs, NEW grant, NEW h, NEW o \in Gnbs, NEW msg,
         StopForwarded(n, grant, h, o, msg)
  PROVE  IInv'
<1> DEFINE a == grant.app
<1>c. /\ commands[n] # <<>> /\ grant = Head(commands[n])
      /\ commands' = [commands EXCEPT ![n] = Tail(@)]
  BY Zenon DEF StopForwarded
<1>g. /\ ~grant.start /\ grant.app \in server[n].granted
      /\ o = server[n].service[grant.app].offloadGnb
      /\ msg \in GrantTo(o) /\ msg.app = grant.app /\ msg.stop
  BY ZenonT(60) DEF StopForwarded
<1>s. Turned(n, h) /\ ButOut(server[n], h) /\ SentToMac(o, msg)
  BY SMTT(60) DEF StopForwarded
<1>u. hasScheduler[n] /\ UNCHANGED <<sched, hasScheduler, carried, fromMac>>
  BY DEF StopForwarded
<1>1. /\ Sound /\ Life(a) /\ Stops /\ Phase /\ grant \in CommandTo(n) /\ a \in Apps
  <2>1. Sound /\ Stops /\ Phase
    BY DEF IInv
  <2>2. grant \in CommandTo(n)
    BY <1>c, <2>1, CommandTaken
  <2>3. a \in Apps
    BY <2>2, CommandKinds
  <2> QED BY <2>1, <2>2, <2>3 DEF IInv
<1>2. /\ DOMAIN commands' = Gnbs
      /\ \A x \in Gnbs : commands'[x] \in Seq(CommandTo(x))
      /\ \A x \in Gnbs : \A M : Has(commands[x], M) <=>
            Has(commands'[x], M) \/ (x = n /\ grant \in M)
      /\ \A x \in Gnbs : \A M : Once(commands[x], M) => Once(commands'[x], M)
      /\ \A b : b # a => \A x \in Gnbs : Kept(commands[x], commands'[x], About(b))
  BY <1>c, <1>1, CommandTaken
<1>3. /\ grant \in Stop(a) /\ grant \in AllStops /\ grant \notin AllStarts /\ grant \notin Start(a)
      /\ \A x : grant \notin StartBut(a, x)
  BY <1>g, <1>1, CommandKinds
<1>4. Has(commands[n], Stop(a)) /\ Has(commands[n], AllStops)
  BY <1>2, <1>3, SMTT(60)
<1>5. /\ \A m \in Gnbs : \A M : Has(toMac'[m], M) <=> Has(toMac[m], M) \/ (m = o /\ msg \in M)
      /\ \A x \in Gnbs : \A M : Once(toMac[x], M) /\ (x = o /\ msg \in M => ~Has(toMac[x], M))
                                   => Once(toMac'[x], M)
      /\ \A x \in Gnbs : reports'[x] = reports[x]
  BY <1>c, <1>g, <1>s, <1>1, SentToMacHas, ZenonT(60)
<1>6. /\ msg \in End(a) /\ msg \notin Begin(a) /\ \A p : msg \notin BeginFor(a, p)
  BY <1>g, GrantKinds
<1>7. \A m \in Gnbs : /\ server'[m].granted = server[m].granted
                      /\ server'[m].service = server[m].service
                      /\ server'[m].appsWaitMacInitFb = server[m].appsWaitMacInitFb
                      /\ server'[m].srvInInitVector = server[m].srvInInitVector
                      /\ RunningIn(server'[m]) = RunningIn(server[m])
                      /\ InitializingIn(server'[m]) = InitializingIn(server[m])
  <2> SUFFICES ASSUME NEW m \in Gnbs
               PROVE  /\ server'[m].granted = server[m].granted
                      /\ server'[m].service = server[m].service
                      /\ server'[m].appsWaitMacInitFb = server[m].appsWaitMacInitFb
                      /\ server'[m].srvInInitVector = server[m].srvInInitVector
                      /\ RunningIn(server'[m]) = RunningIn(server[m])
                      /\ InitializingIn(server'[m]) = InitializingIn(server[m])
    OBVIOUS
  <2>1. m # n => server'[m] = server[m]
    BY <1>s DEF Turned
  <2>2. /\ server'[n].granted = server[n].granted /\ server'[n].service = server[n].service
        /\ server'[n].appsWaitMacInitFb = server[n].appsWaitMacInitFb
        /\ server'[n].srvInInitVector = server[n].srvInInitVector
    BY <1>s DEF Turned, ButOut
  <2>3. /\ server'[m].granted = server[m].granted /\ server'[m].service = server[m].service
        /\ server'[m].appsWaitMacInitFb = server[m].appsWaitMacInitFb
        /\ server'[m].srvInInitVector = server[m].srvInInitVector
    <3>1. CASE m = n
      BY <3>1, <2>2
    <3>2. CASE m # n
      BY <3>2, <2>1
    <3> QED BY <3>1, <3>2
  <2> QED BY <2>3 DEF RunningIn, InitializingIn
<1>18. \A m \in Gnbs :
          /\ Has(commands'[m], Start(a)) <=> Has(commands[m], Start(a))
          /\ \A x : Has(commands'[m], StartBut(a, x)) <=> Has(commands[m], StartBut(a, x))
          /\ Has(toMac'[m], Begin(a)) <=> Has(toMac[m], Begin(a))
          /\ \A p : Has(toMac'[m], BeginFor(a, p)) <=> Has(toMac[m], BeginFor(a, p))
          /\ Has(toMac[m], End(a)) => Has(toMac'[m], End(a))
  <2> SUFFICES ASSUME NEW m \in Gnbs
               PROVE  /\ Has(commands'[m], Start(a)) <=> Has(commands[m], Start(a))
                      /\ \A x : Has(commands'[m], StartBut(a, x)) <=> Has(commands[m], StartBut(a, x))
                      /\ Has(toMac'[m], Begin(a)) <=> Has(toMac[m], Begin(a))
                      /\ \A p : Has(toMac'[m], BeginFor(a, p)) <=> Has(toMac[m], BeginFor(a, p))
                      /\ Has(toMac[m], End(a)) => Has(toMac'[m], End(a))
    OBVIOUS
  <2>1. \A M : grant \notin M => (Has(commands'[m], M) <=> Has(commands[m], M))
    BY <1>2
  <2>2. \A M : msg \notin M => (Has(toMac'[m], M) <=> Has(toMac[m], M))
    BY <1>5
  <2>3. Has(toMac[m], End(a)) => Has(toMac'[m], End(a))
    BY <1>5
  <2> HIDE DEF a
  <2> QED BY <2>1, <2>2, <2>3, <1>3, <1>6
<1>19. \A m \in Gnbs : Once(commands'[m], Start(a)) /\ Once(toMac'[m], Begin(a))
  <2>1. \A m \in Gnbs : Once(commands[m], Start(a)) /\ Once(toMac[m], Begin(a))
    BY <1>1 DEF Life, Single
  <2>2. \A m \in Gnbs : Once(commands'[m], Start(a))
    BY <2>1, <1>2
  <2>3. \A m \in Gnbs : Once(toMac'[m], Begin(a))
    BY <2>1, <1>5, <1>6
  <2> QED BY <2>2, <2>3
<1>8. Single(a)'
  <2>1. Single(a)
    BY <1>1 DEF Life
  <2> QED BY <1>u, <2>1, <1>18, <1>19, <1>7, SingleKept
<1>9. ASSUME NEW x \in Gnbs, NEW p \in Gnbs PROVE Wire(x, p, a)'
  <2>1. Wire(x, p, a)
    BY <1>1 DEF Life
  <2> QED BY <1>u, <2>1, <1>18, <1>7 DEF Wire
<1>10. ASSUME AllFound' PROVE Booked(a)'
  <2>1. AllFound
    BY <1>c, <1>u, <1>10 DEF AllFound
  <2>2. Booked(a)
    BY <1>1, <2>1 DEF Life
  <2>3. ASSUME NEW m \in Gnbs PROVE StartBooked(m, a)'
    <3>1. StartBooked(m, a)
      BY <2>2 DEF Booked
    <3>2. /\ Has(commands'[m], Start(a)) <=> Has(commands[m], Start(a))
          /\ \A x : Has(commands'[m], StartBut(a, x)) <=> Has(commands[m], StartBut(a, x))
          /\ sched' = sched /\ \A x \in Gnbs : reports'[x] = reports[x]
      BY <1>c, <1>u, <1>18, <1>5
    <3> QED BY <3>1, <3>2 DEF StartBooked
  <2>4. ASSUME NEW m \in Gnbs PROVE ServiceBooked(m, a)'
    <3>1. ServiceBooked(m, a)
      BY <2>2 DEF Booked
    <3>2. a \in server[m].granted => server[m].service[a].offloadGnb \in Gnbs
      BY <1>1 DEF Sound, Fine
    <3> QED BY <1>u, <3>1, <3>2, <1>18, <1>5, <1>7 DEF ServiceBooked
  <2>5. ASSUME NEW m \in Gnbs PROVE AnswerBooked(m, a)'
    BY <1>u, <2>2, <1>5 DEF Booked, AnswerBooked
  <2>6. Accounted(a)'
    <3>1. a \in Served(sched) /\ Instance(sched, a).processGnb = n /\ Instance(sched, a).offloadGnb = o
      BY <1>g, <2>2 DEF Booked, ServiceBooked
    <3>2. Has(toMac'[o], End(a))
      BY <1>5, <1>6
    <3> QED BY <1>g, <1>u, <3>1, <3>2, <1>7, SMTT(60) DEF Accounted
  <2> QED BY <2>3, <2>4, <2>5, <2>6 DEF Booked
<1>11. ~sched.schedComplete
  BY <1>1, <1>4 DEF Stops
<1>12. Life(a)'
  BY <1>u, <1>8, <1>9, <1>10, <1>11 DEF Life
<1>13. Stops'
  BY <1>u, <1>1, <1>2, <1>7, StopsKept
<1>14. Phase'
  <2>1. AllFound => ~sched.preSchedCheck
    BY <1>1, <1>4 DEF Phase
  <2> QED BY <1>u, <2>1, <1>1, <1>2, PhaseKept
<1>15. /\ DOMAIN fromMac' = Gnbs
       /\ \A m \in Gnbs : /\ DOMAIN fromMac'[m] = Gnbs
                          /\ \A p \in Gnbs : fromMac'[m][p] \in Seq(ReportTo(m, p))
  BY <1>u, <1>1 DEF Sound
<1>16. \A b : \A x \in Gnbs : \A p \in Gnbs : Kept(fromMac[x][p], fromMac'[x][p], About(b))
  BY <1>u, KeptSame
<1>17. SameBut(server[n], h, a) /\ h.cmpUnitFree = server[n].cmpUnitFree
  BY <1>s DEF SameBut, ButOut
<1>20. /\ \E x \in Gnbs : \E m \in GrantTo(x) : m.app = a /\ SentToMac(x, m)
       /\ hasScheduler[n] /\ UNCHANGED <<sched, hasScheduler, carried>>
  BY <1>g, <1>s, <1>u
<1> HIDE DEF a
<1> QED BY <1>s, <1>1, <1>2, <1>12, <1>13, <1>14, <1>15, <1>16, <1>17, <1>20, ServerStep, ZenonT(60)

\* a server that does nothing is what it was
LEMMA PerformSame ==
  ASSUME NEW n \in Gnbs, Sound, PerformServer(n, server[n])
  PROVE  /\ Turned(n, server[n]) /\ SentNothing
         /\ \A m \in Gnbs : server'[m] = server[m]
<1>1. /\ Fine(server[n], n) /\ server[n].out = <<>> /\ server[n] \in ServerRecord(n)
      /\ DOMAIN server = Gnbs
  BY DEF Sound, Fine
<1>2. Turned(n, server[n]) /\ SentNothing
  BY <1>1, PerformTurns, PerformSends
<1>3. server'[n] = server[n]
  <2>1. server'[n] = [server[n] EXCEPT !.out = <<>>]
    BY <1>1 DEF PerformServer
  <2>2. ASSUME NEW v \in ServerRecord(n), v.out = <<>> PROVE [v EXCEPT !.out = <<>>] = v
    BY <2>2 DEF ServerRecord
  <2> QED BY <2>1, <2>2, <1>1
<1>4. \A m \in Gnbs : m # n => server'[m] = server[m]
  BY <1>2 DEF Turned
<1> QED BY <1>2, <1>3, <1>4

\* a command the server does not follow: a start without a scheduler, or a
\* stop of a service it does not have
LEMMA CommandIgnored ==
  ASSUME IInv, NEW n \in Gnbs, commands[n] # <<>>,
         commands' = [commands EXCEPT ![n] = Tail(@)],
         NEW grant, grant = Head(commands[n]),
         IF grant.start THEN ~hasScheduler[n] ELSE grant.app \notin server[n].granted,
         Turned(n, server[n]), SentNothing, \A m \in Gnbs : server'[m] = server[m],
         UNCHANGED <<sched, hasScheduler, carried, fromMac>>
  PROVE  IInv'
<1> DEFINE a == grant.app
<1>1. /\ Sound /\ Life(a) /\ Stops /\ Phase /\ grant \in CommandTo(n) /\ a \in Apps
      /\ grant.start \in BOOLEAN
  <2>1. Sound /\ Stops /\ Phase
    BY DEF IInv
  <2>2. grant \in CommandTo(n)
    BY <2>1, CommandTaken
  <2>3. a \in Apps /\ grant.start \in BOOLEAN
    BY <2>2, CommandKinds
  <2> QED BY <2>1, <2>2, <2>3 DEF IInv
<1>2. /\ DOMAIN commands' = Gnbs
      /\ \A x \in Gnbs : commands'[x] \in Seq(CommandTo(x))
      /\ \A x \in Gnbs : \A M : Has(commands[x], M) <=>
            Has(commands'[x], M) \/ (x = n /\ grant \in M)
      /\ \A x \in Gnbs : \A M : Once(commands[x], M) => Once(commands'[x], M)
      /\ \A b : b # a => \A x \in Gnbs : Kept(commands[x], commands'[x], About(b))
  BY <1>1, CommandTaken
<1>3. \A x \in Gnbs : toMac'[x] = toMac[x] /\ reports'[x] = reports[x]
  BY DEF SentNothing
<1>4. Single(a)'
  <2>1. Single(a)
    BY <1>1 DEF Life
  <2>2. \A m \in Gnbs : Once(commands[m], Start(a)) /\ Once(toMac[m], Begin(a))
    BY <2>1 DEF Single
  <2>3. \A m \in Gnbs : Once(commands'[m], Start(a)) /\ Once(toMac'[m], Begin(a))
    BY <2>2, <1>2, <1>3
  <2> QED BY <2>1, <2>3, <1>2, <1>3, SingleKept
<1>5. ASSUME NEW x \in Gnbs, NEW p \in Gnbs PROVE Wire(x, p, a)'
  <2>1. Wire(x, p, a)
    BY <1>1 DEF Life
  <2> QED BY <2>1, <1>3 DEF Wire
<1>6. sched'.schedComplete => a \notin Served(sched') /\ Vacant(a)'
  <2>1. sched.schedComplete => a \notin Served(sched) /\ Vacant(a)
    BY <1>1 DEF Life
  <2>2. Vacant(a) => Vacant(a)'
    BY <1>2, <1>3 DEF Vacant
  <2> QED BY <2>1, <2>2
<1>7. ASSUME AllFound' PROVE Booked(a)'
  <2>1. AllFound
    BY <1>7 DEF AllFound
  <2>2. Booked(a)
    BY <1>1, <2>1 DEF Life
  <2>3. ~grant.start /\ a \notin server[n].granted
    BY <2>1 DEF AllFound
  <2>4. /\ grant \in Stop(a) /\ grant \in AllStops /\ grant \notin Start(a)
        /\ \A x : grant \notin StartBut(a, x)
    BY <1>1, <2>3, CommandKinds
  <2>5. \A M : grant \notin M => \A x \in Gnbs : Has(commands'[x], M) <=> Has(commands[x], M)
    BY <1>2
  <2>6. \A m \in Gnbs : /\ Has(commands'[m], Start(a)) <=> Has(commands[m], Start(a))
                        /\ \A x : Has(commands'[m], StartBut(a, x)) <=> Has(commands[m], StartBut(a, x))
    <3> HIDE DEF a
    <3> QED BY <2>4, <2>5
  <2>7. ASSUME NEW m \in Gnbs PROVE StartBooked(m, a)'
    <3>1. StartBooked(m, a)
      BY <2>2, SMTT(60) DEF Booked
    <3> QED BY <3>1, <2>6, <1>3 DEF StartBooked
  <2>8. ASSUME NEW m \in Gnbs PROVE ServiceBooked(m, a)'
    <3>1. ServiceBooked(m, a)
      BY <2>2 DEF Booked
    <3>2. a \in server[m].granted => server[m].service[a].offloadGnb \in Gnbs
      BY <1>1 DEF Sound, Fine
    <3> QED BY <3>1, <3>2, <1>3, Zenon DEF ServiceBooked
  <2>9. ASSUME NEW m \in Gnbs PROVE AnswerBooked(m, a)'
    <3>1. AnswerBooked(m, a)
      BY <2>2 DEF Booked
    <3> QED BY <3>1, <1>3 DEF AnswerBooked
  <2>10. Has(commands[n], AllStops)
    BY <1>2, <2>4
  <2>11. \A m \in Gnbs : ~Has(commands[m], Start(a))
    BY <1>1, <2>10, HasPart, SMTT(60) DEF Stops
  <2>12. Accounted(a)'
    <3>1. Accounted(a)
      BY <2>2 DEF Booked
    <3>2. a \in Served(sched) =>
             Instance(sched, a).processGnb \in Gnbs /\ Instance(sched, a).offloadGnb \in Gnbs
      BY <1>1 DEF Sound, SchedOk, ServiceInstance
    <3>3. \A x \in Gnbs : x # n => (Has(commands[x], Stop(a)) => Has(commands'[x], Stop(a)))
      BY <1>2
    <3> QED BY <3>1, <3>2, <3>3, <2>3, <2>11, <1>3 DEF Accounted
  <2> QED BY <2>7, <2>8, <2>9, <2>12 DEF Booked
<1>8. Life(a)'
  BY <1>4, <1>5, <1>6, <1>7 DEF Life
<1>9. Stops'
  BY <1>1, <1>2, StopsKept
<1>10. Phase'
  BY <1>1, <1>2, <1>3, PhaseKept
<1>11. /\ DOMAIN fromMac' = Gnbs
       /\ \A m \in Gnbs : /\ DOMAIN fromMac'[m] = Gnbs
                          /\ \A p \in Gnbs : fromMac'[m][p] \in Seq(ReportTo(m, p))
  BY <1>1 DEF Sound
<1>12. \A b : \A x \in Gnbs : \A p \in Gnbs : Kept(fromMac[x][p], fromMac'[x][p], About(b))
  BY KeptSame
<1>13. SameBut(server[n], server[n], a)
  BY DEF SameBut
<1> QED BY <1>1, <1>2, <1>8, <1>9, <1>10, <1>11, <1>12, <1>13, ServerStep

\* a command of the scheduler at its server
LEMMA ReceiveSrvGrantKeeps ==
  ASSUME IInv, NEW n \in Gnbs, ReceiveSrvGrant(n)
  PROVE  IInv'
<1> DEFINE h == HandleSrvGrant(server[n], Head(commands[n]), hasScheduler[n])
<1>1. /\ commands[n] # <<>> /\ commands' = [commands EXCEPT ![n] = Tail(@)]
      /\ PerformServer(n, h) /\ UNCHANGED <<sched, hasScheduler, carried, fromMac>>
  BY DEF ReceiveSrvGrant
<1>2. PICK grant : grant = Head(commands[n])
  OBVIOUS
<1>3. /\ Sound /\ Stops /\ grant \in CommandTo(n) /\ grant.app \in Apps /\ grant.start \in BOOLEAN
      /\ grant.offloadGnb \in Gnbs
      /\ Fine(server[n], n) /\ server[n].out = <<>>
  <2>1. Sound /\ Stops
    BY DEF IInv
  <2>2. grant \in CommandTo(n)
    BY <2>1, <1>1, <1>2, CommandTaken
  <2> QED BY <2>1, <2>2, CommandKinds DEF Sound
<1>4. \A M : grant \in M => Has(commands[n], M)
  BY <1>1, <1>2, <1>3, CommandTaken
<1>5. CASE grant.start /\ grant.app \notin server[n].granted /\ hasScheduler[n]
  <2>1. h = InitializeService(server[n], grant)
    BY <1>2, <1>5 DEF HandleSrvGrant
  <2>2. /\ Fine(h, n) /\ SameBut(server[n], h, grant.app) /\ h.cmpUnitFree = server[n].cmpUnitFree
        /\ grant.app \notin h.appsWaitMacInitFb
        /\ \/ /\ h.out = <<>> /\ grant.app \in InitializingIn(h)
              /\ h.service[grant.app].offloadGnb = grant.offloadGnb
           \/ /\ grant.app \notin h.granted /\ h.srvInInitVector = server[n].srvInInitVector
              /\ Answers(h, n, grant.app, grant.offloadGnb, FALSE)
    <3> DEFINE k == InitializeService(server[n], grant)
    <3>1. /\ Fine(k, n) /\ SameBut(server[n], k, grant.app) /\ k.cmpUnitFree = server[n].cmpUnitFree
          /\ grant.app \notin k.appsWaitMacInitFb
          /\ \/ /\ k.out = <<>> /\ grant.app \in InitializingIn(k)
                /\ k.service[grant.app].offloadGnb = grant.offloadGnb
                /\ k.service[grant.app].cmpUnits = grant.cmpUnits
             \/ /\ grant.app \notin k.granted /\ k.srvInInitVector = server[n].srvInInitVector
                /\ Answers(k, n, grant.app, grant.offloadGnb, FALSE)
      <4>1. grant.app \notin server[n].granted
        BY <1>5
      <4> QED BY <4>1, <1>3, InitializeServiceFine
    <3> HIDE DEF k, h
    <3>2. h = k
      BY <2>1 DEF k
    <3> QED BY <3>1, <3>2
  <2> HIDE DEF h
  <2>3. Turned(n, h)
    BY <2>2, <1>1, <1>3, PerformTurns
  <2>4. CASE /\ h.out = <<>> /\ grant.app \in InitializingIn(h)
             /\ h.service[grant.app].offloadGnb = grant.offloadGnb
    <3>1. SentNothing
      BY <2>4, <1>1, <1>3, PerformSends
    <3> QED BY <3>1, <2>2, <2>3, <2>4, <1>1, <1>2, <1>5, StartAccepted
  <2>5. CASE /\ grant.app \notin h.granted /\ h.srvInInitVector = server[n].srvInInitVector
             /\ Answers(h, n, grant.app, grant.offloadGnb, FALSE)
    <3>1. PICK m \in Say(grant.app) \cap StatusOf(n) :
             /\ h.out = <<m>> /\ m.offloadGnb = grant.offloadGnb /\ m.success = FALSE
             /\ m.availCmpUnit = h.cmpUnitFree
      BY <2>5 DEF Answers
    <3>2. SentReport(n, m)
      BY <3>1, <1>1, <1>3, PerformSends
    <3> QED BY <3>1, <3>2, <2>2, <2>3, <2>5, <1>1, <1>2, <1>5, StartRefused
  <2> QED BY <2>2, <2>4, <2>5
<1>6. CASE ~grant.start /\ grant.app \in server[n].granted
  <2>1. hasScheduler[n]
    BY <1>3, <1>6, InitialServerFine DEF Sound
  <2>2. grant.app \in RunningIn(server[n])
    <3>1. server[n].srvInInitVector = <<>>
      BY <1>3, <1>4, <1>6, CommandKinds DEF Stops
    <3>2. grant.app \notin InitializingIn(server[n])
      BY <3>1, <1>3, HasEmpty DEF Fine, QueueOk
    <3> QED BY <3>2, <1>6 DEF RunningIn, InitializingIn
  <2> DEFINE o == server[n].service[grant.app].offloadGnb
  <2>3. h = StopService(server[n], grant.app)
    BY <1>2, <1>6 DEF HandleSrvGrant
  <2>4. o \in Gnbs /\ Fine(h, n) /\ ButOut(server[n], h) /\ Asks(h, n, grant.app, o, TRUE)
    BY <2>2, <2>3, <1>3, StopServiceFine
  <2> HIDE DEF h
  <2>5. PICK m \in GrantTo(o) :
           h.out = <<m>> /\ m.app = grant.app /\ m.stop = TRUE /\ m.processGnb = n
    BY <2>4 DEF Asks
  <2>6. Turned(n, h) /\ SentToMac(o, m)
    BY <2>4, <2>5, <1>1, <1>3, PerformTurns, PerformSends
  <2>7. PICK x \in Gnbs : x = o
    BY <2>4
  <2> HIDE DEF o
  <2>8. x = server[n].service[grant.app].offloadGnb
    BY <2>7 DEF o
  <2>9. StopForwarded(n, grant, h, x, m)
    <3>1. /\ m \in GrantTo(x) /\ SentToMac(x, m) /\ m.app = grant.app /\ m.stop
      BY <2>5, <2>6, <2>7
    <3> QED BY <3>1, <2>1, <2>4, <2>6, <2>8, <1>1, <1>2, <1>6 DEF StopForwarded
  <2> QED BY <2>9, StopSentOn
<1>7. CASE IF grant.start THEN ~hasScheduler[n] \/ grant.app \in server[n].granted
           ELSE grant.app \notin server[n].granted
  <2>1. IF grant.start THEN ~hasScheduler[n] ELSE grant.app \notin server[n].granted
    <3>1. grant.start => grant.app \notin server[n].granted
      BY <1>3, <1>4, CommandKinds, StartIsNews
    <3> QED BY <3>1, <1>7
  <2>2. h = server[n]
    BY <1>2, <1>7 DEF HandleSrvGrant
  <2>3. Turned(n, server[n]) /\ SentNothing /\ \A m \in Gnbs : server'[m] = server[m]
    BY <2>2, <1>1, <1>3, PerformSame
  <2> QED BY <2>1, <2>3, <1>1, <1>2, CommandIgnored
<1> QED BY <1>5, <1>6, <1>7

\* a step of a server that leaves the commands and the MACs' reports alone
LEMMA ChannelsStay ==
  ASSUME Sound, UNCHANGED <<commands, fromMac>>
  PROVE  /\ DOMAIN commands' = Gnbs /\ DOMAIN fromMac' = Gnbs
         /\ \A m \in Gnbs : /\ commands'[m] \in Seq(CommandTo(m)) /\ DOMAIN fromMac'[m] = Gnbs
                            /\ \A p \in Gnbs : fromMac'[m][p] \in Seq(ReportTo(m, p))
         /\ \A b : \A x \in Gnbs : /\ Kept(commands[x], commands'[x], About(b))
                                   /\ \A p \in Gnbs : Kept(fromMac[x][p], fromMac'[x][p], About(b))
  BY KeptSame DEF Sound

\* the server asks the offloading gNB to carry what it has initialized
LEMMA BeginSentOn ==
  ASSUME IInv, NEW n \in Gnbs, hasScheduler[n],
         NEW a \in InitializingIn(server[n]), a \in Apps,
         NEW o \in Gnbs, o = server[n].service[a].offloadGnb,
         NEW h, Turned(n, h), SameBut(server[n], h, a), h.cmpUnitFree = server[n].cmpUnitFree,
         server[n].srvInInitVector # <<>>,
         a \in RunningIn(h), a \in h.appsWaitMacInitFb, h.service[a].offloadGnb = o,
         NEW msg \in GrantTo(o), SentToMac(o, msg), msg.app = a, ~msg.stop, msg.processGnb = n,
         UNCHANGED <<sched, hasScheduler, carried, commands, fromMac>>
  PROVE  IInv'
<1>1. Sound /\ Life(a) /\ Stops /\ Phase /\ a \in server[n].granted /\ a \notin RunningIn(server[n])
  BY DEF IInv, InitializingIn, RunningIn
<1>2. /\ \A m \in Gnbs : \A M : Has(toMac'[m], M) <=> Has(toMac[m], M) \/ (m = o /\ msg \in M)
      /\ \A x \in Gnbs : \A M : Once(toMac[x], M) /\ (x = o /\ msg \in M => ~Has(toMac[x], M))
                                   => Once(toMac'[x], M)
      /\ \A x \in Gnbs : reports'[x] = reports[x]
  BY <1>1, SentToMacHas
<1>3. /\ msg \in Begin(a) /\ msg \notin End(a) /\ msg \notin AllEnds
      /\ \A p : msg \in BeginFor(a, p) <=> p = n
  <2>1. ~msg.stop => /\ msg \in Begin(msg.app) /\ msg \notin End(msg.app) /\ msg \notin AllEnds
                     /\ \A p : msg \in BeginFor(msg.app, p) <=> msg.processGnb = p
    BY GrantKinds, ZenonT(60)
  <2> QED BY <2>1
<1>4. /\ \A m \in Gnbs : /\ ~Has(commands[m], Start(a)) /\ carried[m][a] = NoGnb
                         /\ ~Has(toMac[m], Begin(a)) /\ (\A p : ~Has(toMac[m], BeginFor(a, p)))
                         /\ a \in server[m].granted => m = n
                         /\ Once(commands[m], Start(a)) /\ Once(toMac[m], Begin(a))
      /\ ~sched.schedComplete
  <2>1. Single(a) /\ (sched.schedComplete => Vacant(a))
    BY <1>1 DEF Life
  <2>2. \A m \in Gnbs : /\ ~Has(commands[m], Start(a)) /\ carried[m][a] = NoGnb
                        /\ ~Has(toMac[m], Begin(a)) /\ (a \in server[m].granted => m = n)
                        /\ Once(commands[m], Start(a)) /\ Once(toMac[m], Begin(a))
    BY <2>1, <1>1 DEF Single
  <2>3. \A m \in Gnbs : \A p : ~Has(toMac[m], BeginFor(a, p))
    BY <2>2, HasPart
  <2> QED BY <1>1, <2>1, <2>2, <2>3 DEF Vacant
<1>5. \A x \in Gnbs : ~Has(fromMac[x][n], Tell(a)) /\ ~Has(fromMac[x][n], Fail(a))
  <2>1. \A x \in Gnbs : ~Has(fromMac[x][n], Tell(a))
    BY <1>1 DEF Life, Wire
  <2> QED BY <2>1, HasPart
<1>6. /\ \A m \in Gnbs : m # n => server'[m] = server[m]
      /\ a \in server'[n].granted /\ a \in RunningIn(server'[n]) /\ a \notin InitializingIn(server'[n])
      /\ a \in server'[n].appsWaitMacInitFb /\ server'[n].service[a].offloadGnb = o
  BY DEF Turned, ButOut, RunningIn, InitializingIn
<1>7. /\ \A m \in Gnbs : /\ Has(toMac'[m], Begin(a)) <=> m = o
                         /\ \A p : Has(toMac'[m], BeginFor(a, p)) <=> m = o /\ p = n
                         /\ Has(toMac'[m], End(a)) <=> Has(toMac[m], End(a))
                         /\ Has(toMac'[m], AllEnds) <=> Has(toMac[m], AllEnds)
                         /\ Once(toMac'[m], Begin(a))
      /\ \A m \in Gnbs : a \in server'[m].granted => m = n
  <2>1. ASSUME NEW m \in Gnbs
        PROVE  /\ Has(toMac'[m], Begin(a)) <=> m = o
               /\ \A p : Has(toMac'[m], BeginFor(a, p)) <=> m = o /\ p = n
               /\ Has(toMac'[m], End(a)) <=> Has(toMac[m], End(a))
               /\ Has(toMac'[m], AllEnds) <=> Has(toMac[m], AllEnds)
    <3>1. \A M : Has(toMac'[m], M) <=> Has(toMac[m], M) \/ (m = o /\ msg \in M)
      BY <1>2
    <3> QED BY <3>1, <1>3, <1>4
  <2>2. \A m \in Gnbs : Once(toMac'[m], Begin(a))
    BY <1>2, <1>4
  <2>3. \A m \in Gnbs : a \in server'[m].granted => m = n
    BY <1>4, <1>6
  <2> QED BY <2>1, <2>2, <2>3
<1>8. Single(a)'
  BY <1>4, <1>6, <1>7 DEF Single
<1>9. ASSUME NEW x \in Gnbs, NEW p \in Gnbs PROVE Wire(x, p, a)'
  <2>1. p # NoGnb
    BY MecTypesAssumption
  <2>2. Wire(x, p, a)
    BY <1>1 DEF Life
  <2>3. CASE p = n
    BY <2>1, <2>2, <2>3, <1>4, <1>5, <1>6, <1>7 DEF Wire
  <2>4. CASE p # n
    BY <2>1, <2>2, <2>4, <1>4, <1>6, <1>7 DEF Wire
  <2> QED BY <2>3, <2>4
<1>10. ASSUME AllFound' PROVE Booked(a)'
  <2>1. AllFound
    BY <1>10 DEF AllFound
  <2>2. Booked(a)
    BY <1>1, <2>1, SMTT(60) DEF Life
  <2>3. /\ a \in Served(sched) /\ a \in sched.appsWaitInitFb
        /\ Instance(sched, a).processGnb = n /\ Instance(sched, a).offloadGnb = o
        /\ ~Has(reports[n], Refuse(a)) /\ ~Has(reports[n], Say(a))
    BY <2>2, <1>1 DEF Booked, ServiceBooked
  <2>4. ASSUME NEW m \in Gnbs PROVE StartBooked(m, a)'
    BY <1>4 DEF StartBooked
  <2>5. ASSUME NEW m \in Gnbs PROVE ServiceBooked(m, a)'
    BY <2>3, <1>2, <1>6, <1>7 DEF ServiceBooked
  <2>6. ASSUME NEW m \in Gnbs PROVE AnswerBooked(m, a)'
    <3>1. AnswerBooked(m, a)
      BY <2>2 DEF Booked
    <3> QED BY <3>1, <1>2 DEF AnswerBooked
  <2>7. sched.preSchedCheck
    BY <2>1, <2>3, <1>1 DEF Phase
  <2>8. Accounted(a)'
    BY <2>3, <2>7, <1>6 DEF Accounted
  <2> QED BY <2>4, <2>5, <2>6, <2>8 DEF Booked
<1>11. Life(a)'
  BY <1>4, <1>8, <1>9, <1>10 DEF Life
<1>12. Stops'
  BY <1>1 DEF Stops
<1>13. Phase'
  BY <1>1, <1>7, PhaseKept
<1>14. \E x \in Gnbs : \E m \in GrantTo(x) : m.app = a /\ SentToMac(x, m)
  OBVIOUS
<1> QED BY <1>1, <1>11, <1>12, <1>13, <1>14, ChannelsStay, ServerStep

\* the timer srvInitComplete_ of a server
LEMMA ServiceInitCompleteKeeps ==
  ASSUME IInv, NEW n \in Gnbs, ServiceInitComplete(n)
  PROVE  IInv'
<1> DEFINE v == server[n]
           h == HandleServiceInitComplete(v)
<1>1. /\ v.timer = 0 /\ PerformServer(n, h)
      /\ UNCHANGED <<sched, hasScheduler, carried, commands, fromMac>>
  BY DEF ServiceInitComplete
<1>2. Sound /\ Fine(v, n) /\ v.out = <<>>
  BY DEF IInv, Sound
<1>3. v.srvInInitVector # <<>> /\ hasScheduler[n]
  <2>1. v.srvInInitVector # <<>>
    BY <1>1, <1>2 DEF Fine, QueueOk, NoTimer
  <2>2. ~hasScheduler[n] => v = InitialServer(n)
    BY <1>2 DEF Sound
  <2> QED BY <2>1, <2>2, InitialServerFine
<1>4. PICK a : a = Head(v.srvInInitVector)
  OBVIOUS
<1>5. PICK o : o = v.service[a].offloadGnb
  OBVIOUS
<1>6. /\ a \in InitializingIn(v) /\ o \in Gnbs
      /\ Fine(h, n) /\ SameBut(v, h, a) /\ h.cmpUnitFree = v.cmpUnitFree
      /\ a \in RunningIn(h) /\ a \in h.appsWaitMacInitFb /\ h.service[a].offloadGnb = o
      /\ Asks(h, n, a, o, FALSE)
  BY <1>2, <1>3, <1>4, <1>5, InitCompleteFine
<1> HIDE DEF h
<1>7. PICK m \in GrantTo(o) : h.out = <<m>> /\ m.app = a /\ m.stop = FALSE /\ m.processGnb = n
  BY <1>6 DEF Asks
<1>8. Turned(n, h) /\ SentToMac(o, m)
  BY <1>1, <1>2, <1>6, <1>7, PerformTurns, PerformSends
<1>9. a \in Apps
  BY <1>2, <1>6 DEF Fine, ServerRecord, InitializingIn
<1> QED BY <1>1, <1>3, <1>5, <1>6, <1>7, <1>8, <1>9, BeginSentOn

\* a status report of the local MAC
LEMMA ReportStatusKeeps ==
  ASSUME IInv, NEW n \in Gnbs, NEW u \in Ues \cup {NoUe}, ReportStatus(n, u)
  PROVE  IInv'
<1> DEFINE v == server[n]
           h == HandleRsuFeedback(v, [gnb |-> n, veh |-> u, bytePerBand |-> 1, availBand |-> 1])
<1>1. /\ hasScheduler[n] /\ PerformServer(n, h)
      /\ UNCHANGED <<sched, hasScheduler, carried, commands, fromMac>>
  BY DEF ReportStatus
<1>2. Sound /\ Stops /\ Phase /\ Fine(v, n) /\ v.out = <<>>
  BY DEF IInv, Sound
<1>3. Fine(h, n) /\ ButOut(v, h) /\ Tells(h, n)
  BY <1>2, RsuFeedbackFine
<1> HIDE DEF h
<1>4. PICK m \in RsuFD : h.out = <<m>> /\ m.gnb = n /\ m.freeCmpUnits = h.cmpUnitFree
  BY <1>3 DEF Tells
<1>5. m \in StatusOf(n) /\ m.type = "RsuFD" /\ Units(m) = h.cmpUnitFree
  BY <1>4 DEF StatusOf, RsuFD, Units
<1>6. Turned(n, h) /\ SentReport(n, m)
  BY <1>1, <1>2, <1>3, <1>4, <1>5, PerformTurns, PerformSends
<1>7. \A a : SameBut(v, h, a)
  BY <1>3 DEF ButOut, SameBut
<1>8. \A x \in Gnbs : /\ toMac'[x] = toMac[x]
                      /\ v.srvInInitVector = <<>> => server'[n].srvInInitVector = <<>>
                      /\ x # n => server'[x] = server[x]
  BY <1>3, <1>6 DEF SentReport, Turned, ButOut
<1>9. Stops'
  BY <1>1, <1>2, <1>8, StopsKept
<1>10. Phase'
  BY <1>1, <1>2, <1>8, PhaseKept
<1>11. 0 \notin Apps
  BY DEF Apps
<1>12. \E x \in StatusOf(n) : /\ SentReport(n, x) /\ Units(x) = h.cmpUnitFree
                              /\ x.type = "SrvFD" => x.app = 0
                              /\ x.type = "RsuFD" => h.cmpUnitFree = server[n].cmpUnitFree
  <2>1. h.cmpUnitFree = server[n].cmpUnitFree
    BY <1>3 DEF ButOut
  <2> QED BY <1>5, <1>6, <2>1
<1> QED BY <1>1, <1>2, <1>6, <1>7, <1>9, <1>10, <1>11, <1>12, ChannelsStay, ServerStep

\* the server takes a report of a MAC
LEMMA ReportTaken ==
  ASSUME Sound, NEW o \in Gnbs, NEW n \in Gnbs, fromMac[o][n] # <<>>,
         fromMac' = [fromMac EXCEPT ![o][n] = Tail(@)], commands' = commands
  PROVE  LET fd == Head(fromMac[o][n])
             rest == fromMac'[o][n]
         IN  /\ fd \in ReportTo(o, n)
             /\ DOMAIN commands' = Gnbs /\ DOMAIN fromMac' = Gnbs
             /\ \A x \in Gnbs : /\ commands'[x] \in Seq(CommandTo(x)) /\ DOMAIN fromMac'[x] = Gnbs
                                /\ \A p \in Gnbs : fromMac'[x][p] \in Seq(ReportTo(x, p))
             /\ \A x, p \in Gnbs : x # o \/ p # n => fromMac'[x][p] = fromMac[x][p]
             /\ \A M : Has(fromMac[o][n], M) <=> fd \in M \/ Has(rest, M)
             /\ \A E, T : Ending(fromMac[o][n], E, T) =>
                   Ending(rest, E, T) /\ (fd \in E => ~Has(rest, T))
             /\ \A b : b # fd.app =>
                   \A x \in Gnbs : /\ Kept(commands[x], commands'[x], About(b))
                                   /\ \A p \in Gnbs : Kept(fromMac[x][p], fromMac'[x][p], About(b))
<1> DEFINE fd == Head(fromMac[o][n])
<1>1. /\ DOMAIN fromMac = Gnbs /\ DOMAIN commands = Gnbs
      /\ \A x \in Gnbs : /\ commands[x] \in Seq(CommandTo(x)) /\ DOMAIN fromMac[x] = Gnbs
                         /\ \A p \in Gnbs : fromMac[x][p] \in Seq(ReportTo(x, p))
  BY DEF Sound
<1>2. /\ DOMAIN fromMac' = Gnbs /\ fromMac'[o][n] = Tail(fromMac[o][n])
      /\ \A x \in Gnbs : DOMAIN fromMac'[x] = Gnbs
      /\ \A x, p \in Gnbs : x # o \/ p # n => fromMac'[x][p] = fromMac[x][p]
  BY <1>1
<1>3. /\ fd \in ReportTo(o, n) /\ Tail(fromMac[o][n]) \in Seq(ReportTo(o, n))
      /\ \A M : Has(fromMac[o][n], M) <=> fd \in M \/ Has(Tail(fromMac[o][n]), M)
      /\ \A E, T : Ending(fromMac[o][n], E, T) =>
            Ending(Tail(fromMac[o][n]), E, T) /\ (fd \in E => ~Has(Tail(fromMac[o][n]), T))
  BY <1>1, HasTail
<1>4. ASSUME NEW b, b # fd.app, NEW x \in Gnbs, NEW p \in Gnbs
      PROVE  Kept(fromMac[x][p], fromMac'[x][p], About(b))
  <2>1. CASE x = o /\ p = n
    <3>1. fd \notin About(b)
      BY <1>3, <1>4, ReportKinds
    <3>2. fromMac[o][n] \in Seq(ReportTo(o, n))
      BY <1>1
    <3>3. Kept(fromMac[o][n], Tail(fromMac[o][n]), About(b))
      BY <3>1, <3>2, KeptTail
    <3> QED BY <1>2, <2>1, <3>3
  <2>2. CASE ~(x = o /\ p = n)
    BY <1>2, <2>2, KeptSame
  <2> QED BY <2>1, <2>2
<1>5. \A x, p \in Gnbs : fromMac'[x][p] \in Seq(ReportTo(x, p))
  <2> SUFFICES ASSUME NEW x \in Gnbs, NEW p \in Gnbs PROVE fromMac'[x][p] \in Seq(ReportTo(x, p))
    OBVIOUS
  <2>1. CASE x = o /\ p = n
    BY <2>1, <1>2, <1>3
  <2>2. CASE ~(x = o /\ p = n)
    BY <2>2, <1>1, <1>2
  <2> QED BY <2>1, <2>2
<1>6. \A b : \A x \in Gnbs : Kept(commands[x], commands'[x], About(b))
  BY KeptSame
<1> HIDE DEF fd
<1> QED BY <1>1, <1>2, <1>3, <1>4, <1>5, <1>6 DEF fd

\* what a server knows of a service a MAC reports on: it runs, for that MAC
LEMMA ReportIsOld ==
  ASSUME IInv, NEW o \in Gnbs, NEW n \in Gnbs, hasScheduler[n],
         NEW a \in Apps, Has(fromMac[o][n], Tell(a))
  PROVE  /\ a \in RunningIn(server[n]) /\ server[n].service[a].offloadGnb = o
         /\ a \in server[n].granted /\ a \notin InitializingIn(server[n])
         /\ ~sched.schedComplete
         /\ ~Has(toMac[o], BeginFor(a, n))
         /\ \A m \in Gnbs : ~Has(commands[m], Start(a)) /\ (a \in server[m].granted => m = n)
         /\ \A x \in Gnbs : x # o => /\ ~Has(toMac[x], BeginFor(a, n)) /\ carried[x][a] # n
                                     /\ ~Has(fromMac[x][n], Tell(a))
         /\ Has(fromMac[o][n], Fail(a)) => carried[o][a] # n
<1>1. Single(a) /\ (\A x, p \in Gnbs : Wire(x, p, a)) /\ (sched.schedComplete => Vacant(a))
  BY DEF IInv, Life
<1>2. a \in RunningIn(server[n]) /\ server[n].service[a].offloadGnb = o
  BY <1>1 DEF Wire
<1>3. a \in server[n].granted /\ a \notin InitializingIn(server[n])
  BY <1>2 DEF RunningIn, InitializingIn
<1>4. ~sched.schedComplete
  BY <1>1, <1>3 DEF Vacant
<1>5. \A m \in Gnbs : ~Has(commands[m], Start(a)) /\ (a \in server[m].granted => m = n)
  BY <1>1, <1>3 DEF Single
<1>6. ~Has(toMac[o], BeginFor(a, n)) /\ (Has(fromMac[o][n], Fail(a)) => carried[o][a] # n)
  BY <1>1 DEF Wire
<1>7. \A x \in Gnbs : x # o => /\ ~Has(toMac[x], BeginFor(a, n)) /\ carried[x][a] # n
                               /\ ~Has(fromMac[x][n], Tell(a))
  BY <1>1, <1>2 DEF Wire
<1> QED BY <1>2, <1>3, <1>4, <1>5, <1>6, <1>7

\* a node without a scheduler drops it
LEMMA ReportDropped ==
  ASSUME IInv, NEW n \in Gnbs, NEW o \in Gnbs, ~hasScheduler[n], fromMac[o][n] # <<>>,
         fromMac' = [fromMac EXCEPT ![o][n] = Tail(@)],
         Turned(n, server[n]), SentNothing, \A m \in Gnbs : server'[m] = server[m],
         UNCHANGED <<sched, hasScheduler, carried, commands>>
  PROVE  IInv'
<1>1. PICK fd : fd = Head(fromMac[o][n])
  OBVIOUS
<1>2. PICK a : a = fd.app
  OBVIOUS
<1>3. Sound /\ Stops /\ Phase
  BY DEF IInv
<1>4. /\ fd \in ReportTo(o, n)
      /\ DOMAIN commands' = Gnbs /\ DOMAIN fromMac' = Gnbs
      /\ \A x \in Gnbs : /\ commands'[x] \in Seq(CommandTo(x)) /\ DOMAIN fromMac'[x] = Gnbs
                         /\ \A p \in Gnbs : fromMac'[x][p] \in Seq(ReportTo(x, p))
      /\ \A x, p \in Gnbs : x # o \/ p # n => fromMac'[x][p] = fromMac[x][p]
      /\ \A M : Has(fromMac'[o][n], M) => Has(fromMac[o][n], M)
      /\ \A E, T : Ending(fromMac[o][n], E, T) => Ending(fromMac'[o][n], E, T)
      /\ \A b : b # a =>
            \A x \in Gnbs : /\ Kept(commands[x], commands'[x], About(b))
                            /\ \A p \in Gnbs : Kept(fromMac[x][p], fromMac'[x][p], About(b))
  BY <1>1, <1>2, <1>3, ReportTaken, ZenonT(60)
<1>5. a \in Apps
  BY <1>2, <1>4, ReportKinds
<1>6. \A x \in Gnbs : toMac'[x] = toMac[x] /\ reports'[x] = reports[x]
  BY DEF SentNothing
<1>7. Single(a) /\ (\A x, p \in Gnbs : Wire(x, p, a))
      /\ (sched.schedComplete => a \notin Served(sched) /\ Vacant(a))
  BY <1>5 DEF IInv, Life
<1>8. Single(a)'
  <2>1. \A m \in Gnbs : Once(commands[m], Start(a)) /\ Once(toMac[m], Begin(a))
    BY <1>7 DEF Single
  <2> QED BY <2>1, <1>6, <1>7, SingleKept
<1>9. ASSUME NEW x \in Gnbs, NEW p \in Gnbs PROVE Wire(x, p, a)'
  <2>1. Wire(x, p, a)
    BY <1>7
  <2>2. CASE p = n /\ x = o
    <3>1. Ending(fromMac[o][n], Fail(a), Tell(a))
      BY <2>1, <2>2 DEF Wire
    <3>2. Ending(fromMac'[o][n], Fail(a), Tell(a))
      BY <3>1, <1>4
    <3> QED BY <2>1, <2>2, <3>2, <1>4, <1>6 DEF Wire
  <2>3. CASE ~(p = n /\ x = o)
    <3>1. fromMac'[x][p] = fromMac[x][p]
      BY <2>3, <1>4
    <3> QED BY <2>1, <3>1, <1>6 DEF Wire
  <2> QED BY <2>2, <2>3
<1>10. sched'.schedComplete => a \notin Served(sched') /\ Vacant(a)'
  BY <1>6, <1>7 DEF Vacant
<1>11. Life(a)'
  BY <1>8, <1>9, <1>10 DEF Life, AllFound
<1>12. Stops' /\ Phase'
  BY <1>3, <1>6, StopsKept, PhaseKept
<1>13. SameBut(server[n], server[n], a)
  BY DEF SameBut
<1> QED BY <1>4, <1>6, <1>11, <1>12, <1>13, ServerStep

\* the server passes it on to the scheduler
ReportForwarded(n, o, fd, a, h, msg) ==
    /\ hasScheduler[n] /\ fromMac[o][n] # <<>>
    /\ fromMac' = [fromMac EXCEPT ![o][n] = Tail(@)]
    /\ fd = Head(fromMac[o][n]) /\ a = fd.app
    /\ Turned(n, h) /\ SameBut(server[n], h, a)
    /\ h.srvInInitVector = server[n].srvInInitVector /\ a \notin h.appsWaitMacInitFb
    /\ IF fd.success THEN a \in RunningIn(h) /\ h.service[a].offloadGnb = o
       ELSE a \notin h.granted
    /\ msg \in Say(a) \cap StatusOf(n) /\ SentReport(n, msg)
    /\ msg.offloadGnb = o /\ msg.success = fd.success /\ msg.availCmpUnit = h.cmpUnitFree
    /\ UNCHANGED <<sched, hasScheduler, carried, commands>>

LEMMA ReportSentOn ==
  ASSUME IInv, NEW n \in Gnbs, NEW o \in Gnbs, NEW fd, NEW a, NEW h, NEW msg,
         ReportForwarded(n, o, fd, a, h, msg)
  PROVE  IInv'
<1>c. /\ fromMac[o][n] # <<>> /\ fd = Head(fromMac[o][n]) /\ a = fd.app
      /\ fromMac' = [fromMac EXCEPT ![o][n] = Tail(@)]
  BY DEF ReportForwarded
<1>g. /\ SameBut(server[n], h, a)
      /\ h.srvInInitVector = server[n].srvInInitVector /\ a \notin h.appsWaitMacInitFb
      /\ IF fd.success THEN a \in RunningIn(h) /\ h.service[a].offloadGnb = o
         ELSE a \notin h.granted
  BY DEF ReportForwarded
<1>m. /\ msg \in Say(a) \cap StatusOf(n)
      /\ msg.offloadGnb = o /\ msg.success = fd.success /\ msg.availCmpUnit = h.cmpUnitFree
  BY DEF ReportForwarded
<1>s. hasScheduler[n] /\ Turned(n, h) /\ SentReport(n, msg)
  BY DEF ReportForwarded
<1>u. UNCHANGED <<sched, hasScheduler, carried, commands>>
  BY DEF ReportForwarded
<1>3. Sound /\ Stops /\ Phase
  BY SMTT(60) DEF IInv
<1>4. /\ fd \in ReportTo(o, n)
      /\ DOMAIN commands' = Gnbs /\ DOMAIN fromMac' = Gnbs
      /\ \A x \in Gnbs : /\ commands'[x] \in Seq(CommandTo(x)) /\ DOMAIN fromMac'[x] = Gnbs
                         /\ \A p \in Gnbs : fromMac'[x][p] \in Seq(ReportTo(x, p))
      /\ \A x, p \in Gnbs : x # o \/ p # n => fromMac'[x][p] = fromMac[x][p]
      /\ \A M : Has(fromMac[o][n], M) <=> fd \in M \/ Has(fromMac'[o][n], M)
      /\ \A E, T : Ending(fromMac[o][n], E, T) =>
            Ending(fromMac'[o][n], E, T) /\ (fd \in E => ~Has(fromMac'[o][n], T))
      /\ \A b : b # a =>
            \A x \in Gnbs : /\ Kept(commands[x], commands'[x], About(b))
                            /\ \A p \in Gnbs : Kept(fromMac[x][p], fromMac'[x][p], About(b))
  BY <1>c, <1>u, <1>3, ReportTaken, ZenonT(120)
<1>5. a \in Apps /\ fd \in Tell(a) /\ (fd \in Fail(a) <=> ~fd.success) /\ fd.success \in BOOLEAN
  BY <1>c, <1>4, ReportKinds
<1>6. /\ a \in RunningIn(server[n]) /\ server[n].service[a].offloadGnb = o
      /\ a \in server[n].granted /\ a \notin InitializingIn(server[n])
      /\ ~sched.schedComplete
      /\ ~Has(toMac[o], BeginFor(a, n))
      /\ \A m \in Gnbs : ~Has(commands[m], Start(a)) /\ (a \in server[m].granted => m = n)
      /\ \A x \in Gnbs : x # o => /\ ~Has(toMac[x], BeginFor(a, n)) /\ carried[x][a] # n
                                  /\ ~Has(fromMac[x][n], Tell(a))
      /\ Has(fromMac[o][n], Fail(a)) => carried[o][a] # n
  <2>1. Has(fromMac[o][n], Tell(a))
    BY <1>4, <1>5
  <2> QED BY <1>s, <2>1, <1>5, ReportIsOld
<1>7. /\ \A m \in Gnbs : m # n => server'[m] = server[m]
      /\ server'[n].srvInInitVector = server[n].srvInInitVector
      /\ a \notin server'[n].appsWaitMacInitFb
      /\ a \notin InitializingIn(server'[n])
      /\ fd.success => /\ a \in server'[n].granted /\ a \in RunningIn(server'[n])
                       /\ server'[n].service[a].offloadGnb = o
      /\ ~fd.success => a \notin server'[n].granted
  BY <1>g, <1>s, <1>5 DEF Turned, ButOut, RunningIn, InitializingIn
<1>8. /\ \A x \in Gnbs : \A M : Has(reports'[x], M) <=> Has(reports[x], M) \/ (x = n /\ msg \in M)
      /\ \A x \in Gnbs : \A E, T :
            Ending(reports[x], E, T) /\ (x = n /\ msg \in T => ~Has(reports[x], E))
               => Ending(reports'[x], E, T)
      /\ \A x \in Gnbs : toMac'[x] = toMac[x]
  BY <1>m, <1>s, <1>3, SentReportHas
<1>9. /\ msg.type = "SrvFD" /\ msg.app = a /\ msg \in Say(a)
      /\ msg \in Refuse(a) <=> ~fd.success
      /\ \A x : msg \in SayBut(a, x) <=> x # o
  <2>1. msg.app = a /\ msg.type = "SrvFD"
    BY <1>m DEF Say, SrvFD, Refusal, Answer
  <2> QED BY <1>m, <2>1, AnswerKinds
<1>10. Single(a)'
  <2>1. Single(a)
    BY <1>5 DEF IInv, Life
  <2>2. \A m \in Gnbs : Once(commands[m], Start(a)) /\ Once(toMac[m], Begin(a))
    BY <2>1 DEF Single
  <2>3. \A m \in Gnbs : /\ a \in server'[m].granted => a \in server[m].granted
                        /\ a \in InitializingIn(server'[m]) => a \in InitializingIn(server[m])
    BY <1>6, <1>7
  <2> QED BY <1>u, <2>1, <2>2, <2>3, <1>8, SingleKept
<1>11. ASSUME NEW x \in Gnbs, NEW p \in Gnbs PROVE Wire(x, p, a)'
  <2>1. Wire(x, p, a)
    BY <1>5 DEF IInv, Life
  <2>2. CASE p = n /\ x = o
    <3>1. Ending(fromMac[o][n], Fail(a), Tell(a)) /\ (carried[o][a] = n => ~Has(fromMac[o][n], Fail(a)))
      BY <2>1, <2>2 DEF Wire
    <3>2. /\ Ending(fromMac'[o][n], Fail(a), Tell(a))
          /\ ~fd.success => carried[o][a] # n /\ ~Has(fromMac'[o][n], Tell(a))
          /\ carried[o][a] = n => ~Has(fromMac'[o][n], Fail(a))
      BY <3>1, <1>4, <1>5, <1>6
    <3> QED BY <1>u, <2>2, <3>2, <1>5, <1>6, <1>7, <1>8 DEF Wire
  <2>3. CASE p = n /\ x # o
    <3>1. fromMac'[x][p] = fromMac[x][p]
      BY <2>3, <1>4
    <3>2. Ending(fromMac[x][p], Fail(a), Tell(a))
      BY <2>1 DEF Wire
    <3>3. ~Has(fromMac[x][n], Fail(a))
      BY <2>3, <1>6, HasPart
    <3> QED BY <1>u, <2>3, <3>1, <3>2, <3>3, <1>6, <1>8 DEF Wire
  <2>4. CASE p # n
    <3>1. fromMac'[x][p] = fromMac[x][p]
      BY <2>4, <1>4
    <3> QED BY <1>u, <2>1, <2>4, <3>1, <1>7, <1>8 DEF Wire
  <2> QED BY <2>2, <2>3, <2>4
<1>12. ASSUME AllFound' PROVE Booked(a)'
  <2>1. AllFound
    BY <1>u, <1>12 DEF AllFound
  <2>2. Booked(a)
    BY <1>5, <2>1 DEF IInv, Life
  <2>3. ServiceBooked(n, a) /\ AnswerBooked(n, a)
    BY <2>2 DEF Booked
  <2>4. /\ a \in Served(sched) /\ Instance(sched, a).processGnb = n /\ Instance(sched, a).offloadGnb = o
        /\ ~Has(reports[n], Refuse(a))
        /\ carried[o][a] = n \/ Has(fromMac[o][n], Fail(a))
    BY <2>3, <1>6 DEF ServiceBooked
  <2>5. ASSUME NEW m \in Gnbs PROVE StartBooked(m, a)'
    BY <1>u, <1>6 DEF StartBooked
  <2>6. ASSUME NEW m \in Gnbs PROVE ServiceBooked(m, a)'
    <3>1. CASE m # n
      BY <3>1, <1>6, <1>7 DEF ServiceBooked
    <3>2. CASE m = n /\ ~fd.success
      BY <3>2, <1>7 DEF ServiceBooked
    <3>3. CASE m = n /\ fd.success
      <4>1. ~Has(reports'[n], Refuse(a)) /\ Has(reports'[n], Say(a))
        BY <3>3, <2>4, <1>8, <1>9
      <4>2. carried[o][a] = n \/ Has(fromMac'[o][n], Fail(a))
        BY <3>3, <2>4, <1>4, <1>5
      <4> QED BY <1>u, <3>3, <4>1, <4>2, <2>4, <1>7 DEF ServiceBooked
    <3> QED BY <3>1, <3>2, <3>3, <1>5
  <2>7. ASSUME NEW m \in Gnbs PROVE AnswerBooked(m, a)'
    <3>1. CASE m # n
      <4>1. AnswerBooked(m, a)
        BY <2>2 DEF Booked
      <4>2. reports'[m] = reports[m]
        BY <1>s, <3>1 DEF SentReport
      <4> QED BY <1>u, <4>1, <4>2 DEF AnswerBooked
    <3>2. CASE m = n
      <4>1. ~Has(reports[n], SayBut(a, o))
        BY <2>3, <2>4, HasPart DEF AnswerBooked
      <4>2. ~Has(reports'[n], SayBut(a, o))
        BY <4>1, <1>8, <1>9
      <4>3. Ending(reports[n], Refuse(a), Say(a))
        BY <2>4 DEF Ending, Has
      <4>4. Ending(reports'[n], Refuse(a), Say(a))
        BY <4>3, <2>4, <1>8
      <4> QED BY <1>u, <3>2, <4>2, <4>4, <2>4 DEF AnswerBooked
    <3> QED BY <3>1, <3>2
  <2>8. Accounted(a)'
    <3>1. Accounted(a)
      BY <2>2 DEF Booked
    <3>2. CASE fd.success
      <4>1. Has(fromMac[o][n], Fail(a)) => Has(fromMac'[o][n], Fail(a))
        BY <3>2, <1>4, <1>5
      <4>2. Has(reports[n], Refuse(a)) => Has(reports'[n], Refuse(a))
        BY <1>8
      <4> QED BY <1>u, <3>1, <3>2, <4>1, <4>2, <2>4, <1>7, <1>8 DEF Accounted
    <3>3. CASE ~fd.success
      <4>1. Has(reports'[n], Refuse(a))
        BY <3>3, <1>8, <1>9
      <4> QED BY <1>u, <4>1, <2>4 DEF Accounted
    <3> QED BY <3>2, <3>3
  <2> QED BY <2>5, <2>6, <2>7, <2>8 DEF Booked
<1>13. Life(a)'
  BY <1>u, <1>6, <1>10, <1>11, <1>12 DEF Life
<1>14. Stops' /\ Phase'
  BY <1>u, <1>3, <1>7, <1>8, StopsKept, PhaseKept
<1>15. \E m \in StatusOf(n) : /\ SentReport(n, m) /\ Units(m) = h.cmpUnitFree
                              /\ m.type = "SrvFD" => m.app = a
                              /\ m.type = "RsuFD" => h.cmpUnitFree = server[n].cmpUnitFree
  <2>1. Units(msg) = h.cmpUnitFree
    BY <1>m, <1>9 DEF Units
  <2> QED BY <1>m, <1>s, <2>1, <1>9
<1> QED BY <1>g, <1>s, <1>u, <1>4, <1>13, <1>14, <1>15, ServerStep

\* a report of a MAC at its server
LEMMA ReceiveSrvFDKeeps ==
  ASSUME IInv, NEW n \in Gnbs, NEW o \in Gnbs, ReceiveSrvFD(n, o)
  PROVE  IInv'
<1>1. /\ fromMac[o][n] # <<>> /\ fromMac' = [fromMac EXCEPT ![o][n] = Tail(@)]
      /\ PerformServer(n, IF hasScheduler[n] THEN HandleServiceFeedback(server[n], Head(fromMac[o][n]))
                          ELSE server[n])
      /\ UNCHANGED <<sched, hasScheduler, carried, commands>>
  BY DEF ReceiveSrvFD
<1>2. Sound /\ Fine(server[n], n) /\ server[n].out = <<>>
  BY DEF IInv, Sound
<1>3. CASE ~hasScheduler[n]
  <2>1. PerformServer(n, server[n])
    BY <1>1, <1>3
  <2>2. Turned(n, server[n]) /\ SentNothing /\ \A m \in Gnbs : server'[m] = server[m]
    BY <2>1, <1>2, PerformSame, SMTT(60)
  <2> QED BY <2>2, <1>1, <1>3, ReportDropped
<1>4. CASE hasScheduler[n]
  <2>1. PICK fd : fd = Head(fromMac[o][n])
    OBVIOUS
  <2>2. PICK a : a = fd.app
    OBVIOUS
  <2>3. /\ fd \in ReportTo(o, n) /\ Has(fromMac[o][n], Tell(a)) /\ a \in Apps
        /\ fd.success \in BOOLEAN
    <3>1. /\ fd \in ReportTo(o, n)
          /\ \A M : Has(fromMac[o][n], M) <=> fd \in M \/ Has(fromMac'[o][n], M)
      BY <1>1, <1>2, <2>1, ReportTaken
    <3> QED BY <3>1, <2>2, ReportKinds
  <2>4. a \in RunningIn(server[n]) /\ server[n].service[a].offloadGnb = o
    BY <1>4, <2>3, ReportIsOld
  <2> DEFINE h == HandleServiceFeedback(server[n], fd)
  <2>5. /\ Fine(h, n) /\ SameBut(server[n], h, a)
        /\ h.srvInInitVector = server[n].srvInInitVector
        /\ a \notin h.appsWaitMacInitFb /\ Answers(h, n, a, o, fd.success)
        /\ fd.success => /\ a \in RunningIn(h) /\ h.service[a].offloadGnb = o
        /\ ~fd.success => a \notin h.granted
    <3>1. fd.app \in RunningIn(server[n])
      BY <2>2, <2>4
    <3>2. /\ Fine(h, n) /\ SameBut(server[n], h, fd.app)
          /\ h.srvInInitVector = server[n].srvInInitVector
          /\ fd.app \notin h.appsWaitMacInitFb /\ Answers(h, n, fd.app, o, fd.success)
          /\ fd.success => /\ fd.app \in RunningIn(h)
                           /\ h.service[fd.app].offloadGnb = server[n].service[fd.app].offloadGnb
          /\ ~fd.success => fd.app \notin h.granted
      BY <3>1, <2>3, <1>2, ServiceFeedbackFine
    <3> HIDE DEF h
    <3> QED BY <3>2, <2>2, <2>4
  <2>6. PerformServer(n, h)
    BY <1>1, <1>4, <2>1
  <2> HIDE DEF h
  <2>7. PICK m \in Say(a) \cap StatusOf(n) :
           /\ h.out = <<m>> /\ m.offloadGnb = o /\ m.success = fd.success
           /\ m.availCmpUnit = h.cmpUnitFree
    BY <2>5 DEF Answers
  <2>8. Turned(n, h) /\ SentReport(n, m)
    BY <1>2, <2>5, <2>6, <2>7, PerformTurns, PerformSends
  <2>9. IF fd.success THEN a \in RunningIn(h) /\ h.service[a].offloadGnb = o ELSE a \notin h.granted
    BY <2>5, <2>3
  <2>10. ReportForwarded(n, o, fd, a, h, m)
    BY <1>1, <1>4, <2>1, <2>2, <2>5, <2>7, <2>8, <2>9 DEF ReportForwarded
  <2> QED BY <2>10, ReportSentOn
<1> QED BY <1>3, <1>4

-----------------------------------------------------------------------------
(* The steps of the MACs.                                                  *)

\* a MAC adds a report to a channel
ReportAdded(o, p, m) ==
    /\ DOMAIN fromMac' = Gnbs
    /\ \A x \in Gnbs : DOMAIN fromMac'[x] = Gnbs
    /\ fromMac'[o][p] = Append(fromMac[o][p], m)
    /\ \A x, q \in Gnbs : x # o \/ q # p => fromMac'[x][q] = fromMac[x][q]

\* what the channels hold then
HasAdded(o, p, m) ==
    /\ \A x, q \in Gnbs : fromMac'[x][q] \in Seq(ReportTo(x, q))
    /\ \A M : Has(fromMac'[o][p], M) <=> Has(fromMac[o][p], M) \/ m \in M
    /\ \A E, T : Ending(fromMac[o][p], E, T) /\ (m \in T => ~Has(fromMac[o][p], E))
                    => Ending(fromMac'[o][p], E, T)
    /\ \A b : b # m.app => \A x, q \in Gnbs : Kept(fromMac[x][q], fromMac'[x][q], About(b))

\* a report that is added is all the channel gets
LEMMA ReportAddedHas ==
  ASSUME Sound, NEW o \in Gnbs, NEW p \in Gnbs, NEW m \in ReportTo(o, p), ReportAdded(o, p, m)
  PROVE  HasAdded(o, p, m)
<1>1. /\ \A x, q \in Gnbs : fromMac[x][q] \in Seq(ReportTo(x, q))
      /\ fromMac'[o][p] = Append(fromMac[o][p], m)
      /\ \A x, q \in Gnbs : x # o \/ q # p => fromMac'[x][q] = fromMac[x][q]
  BY DEF Sound, ReportAdded
<1>2. fromMac[o][p] \in Seq(ReportTo(o, p))
  BY <1>1
<1>3. /\ Append(fromMac[o][p], m) \in Seq(ReportTo(o, p))
      /\ \A M : Has(Append(fromMac[o][p], m), M) <=> Has(fromMac[o][p], M) \/ m \in M
      /\ \A E, T : Ending(fromMac[o][p], E, T) /\ (m \in T => ~Has(fromMac[o][p], E))
                      => Ending(Append(fromMac[o][p], m), E, T)
  BY <1>2, HasAppend, OnceAppend
<1>4. ASSUME NEW x \in Gnbs, NEW q \in Gnbs PROVE fromMac'[x][q] \in Seq(ReportTo(x, q))
  <2>1. CASE x = o /\ q = p
    BY <2>1, <1>1, <1>3
  <2>2. CASE ~(x = o /\ q = p)
    BY <2>2, <1>1
  <2> QED BY <2>1, <2>2
<1>5. ASSUME NEW b, b # m.app, NEW x \in Gnbs, NEW q \in Gnbs
      PROVE  Kept(fromMac[x][q], fromMac'[x][q], About(b))
  <2>1. CASE x = o /\ q = p
    <3>1. m \notin About(b)
      BY <1>5, ReportKinds
    <3>2. Kept(fromMac[o][p], Append(fromMac[o][p], m), About(b))
      BY <1>2, <3>1, KeptAppend
    <3> QED BY <3>2, <2>1, <1>1
  <2>2. CASE ~(x = o /\ q = p)
    BY <2>2, <1>1, KeptSame
  <2> QED BY <2>1, <2>2
<1> QED BY <1>1, <1>3, <1>4, <1>5 DEF HasAdded

\* the types after a step of a MAC
MacsTyped ==
    /\ DOMAIN toMac' = Gnbs /\ DOMAIN fromMac' = Gnbs
    /\ carried' \in [Gnbs -> [Apps -> Gnbs \cup {NoGnb}]]
    /\ \A x \in Gnbs : /\ toMac'[x] \in Seq(GrantTo(x)) /\ DOMAIN fromMac'[x] = Gnbs
                       /\ \A q \in Gnbs : fromMac'[x][q] \in Seq(ReportTo(x, q))
                       /\ ~hasScheduler[x] => \A b \in Apps : carried'[x][b] = NoGnb
                       /\ Has(toMac'[x], AllEnds) => Has(toMac[x], AllEnds)

\* the step is about application a
MacsBut(a) ==
    \A b \in Apps : b # a =>
       \A x \in Gnbs : /\ Kept(toMac[x], toMac'[x], About(b)) /\ carried'[x][b] = carried[x][b]
                       /\ \A q \in Gnbs : Kept(fromMac[x][q], fromMac'[x][q], About(b))

\* a step of a MAC keeps the invariant, if it does for the application it is about
LEMMA MacStep ==
  ASSUME IInv, UNCHANGED <<sched, hasScheduler, server, commands, reports>>, NEW a,
         MacsTyped, MacsBut(a), a \in Apps => Life(a)'
  PROVE  IInv'
<1>1. Sound /\ Stops /\ Phase /\ \A m \in Gnbs : Counts(m)
  BY DEF IInv
<1>2. Sound'
  BY <1>1 DEF Sound, MacsTyped
<1>3. ASSUME NEW b \in Apps, b # a PROVE Life(b)'
  <2>1. \A x \in Gnbs : /\ Kept(commands[x], commands'[x], About(b))
                        /\ Kept(reports[x], reports'[x], About(b))
    BY KeptSame
  <2>2. SameApp(b)
    BY <1>3, <2>1 DEF SameApp, MacsBut
  <2>3. Life(b)
    BY DEF IInv
  <2> QED BY <1>1, <2>2, <2>3, LifeKept
<1>4. Stops'
  BY <1>1, StopsKept
<1>5. Phase'
  BY <1>1, PhaseKept DEF MacsTyped
<1>6. \A m \in Gnbs : Counts(m)'
  BY <1>1 DEF Counts, AllFound
<1> QED BY <1>2, <1>3, <1>4, <1>5, <1>6 DEF IInv

\* the grants of the MACs but for ends of application a, in the list of o if `ended'
ListsKept(o, a, ended) ==
    /\ DOMAIN toMac' = Gnbs
    /\ \A x \in Gnbs :
          /\ toMac'[x] \in Seq(GrantTo(x))
          /\ Has(toMac'[x], AllEnds) => Has(toMac[x], AllEnds)
          /\ Has(toMac'[x], Begin(a)) <=> Has(toMac[x], Begin(a))
          /\ Once(toMac'[x], Begin(a))
          /\ Has(toMac[x], End(a)) => Has(toMac'[x], End(a)) \/ (x = o /\ ended)
    /\ \A b : b # a => \A x \in Gnbs : Kept(toMac[x], toMac'[x], About(b))

\* a MAC reports on an application it carries, to the server it carries it for
LEMMA ServiceReported ==
  ASSUME IInv, NEW o \in Gnbs, NEW a \in Apps, NEW p \in Gnbs, carried[o][a] = p,
         NEW m \in ReportTo(o, p), m.app = a, ReportAdded(o, p, m),
         carried' = IF m.success THEN carried ELSE [carried EXCEPT ![o][a] = NoGnb],
         ListsKept(o, a, ~m.success),
         UNCHANGED <<sched, hasScheduler, server, commands, reports>>
  PROVE  IInv'
<1>0. /\ DOMAIN toMac' = Gnbs
      /\ \A x \in Gnbs :
            /\ toMac'[x] \in Seq(GrantTo(x))
            /\ Has(toMac'[x], AllEnds) => Has(toMac[x], AllEnds)
            /\ Has(toMac'[x], Begin(a)) <=> Has(toMac[x], Begin(a))
            /\ Once(toMac'[x], Begin(a))
            /\ Has(toMac[x], End(a)) => Has(toMac'[x], End(a)) \/ (x = o /\ ~m.success)
      /\ \A b : b # a => \A x \in Gnbs : Kept(toMac[x], toMac'[x], About(b))
  BY DEF ListsKept
<1>1. Sound /\ Single(a) /\ (\A x, q \in Gnbs : Wire(x, q, a))
      /\ (sched.schedComplete => Vacant(a)) /\ p # NoGnb
  BY MecTypesAssumption DEF IInv, Life
<1>2. /\ \A x, q \in Gnbs : fromMac'[x][q] \in Seq(ReportTo(x, q))
      /\ \A M : Has(fromMac'[o][p], M) <=> Has(fromMac[o][p], M) \/ m \in M
      /\ \A E, T : Ending(fromMac[o][p], E, T) /\ (m \in T => ~Has(fromMac[o][p], E))
                      => Ending(fromMac'[o][p], E, T)
      /\ \A b : b # a => \A x, q \in Gnbs : Kept(fromMac[x][q], fromMac'[x][q], About(b))
  <2>1. HasAdded(o, p, m)
    BY <1>1, ReportAddedHas
  <2> QED BY <2>1 DEF HasAdded
<1>3. /\ DOMAIN fromMac' = Gnbs /\ \A x \in Gnbs : DOMAIN fromMac'[x] = Gnbs
      /\ \A x, q \in Gnbs : x # o \/ q # p => fromMac'[x][q] = fromMac[x][q]
  BY DEF ReportAdded
<1>4. m \in Tell(a) /\ (m \in Fail(a) <=> ~m.success) /\ m.success \in BOOLEAN
  BY ReportKinds
<1>5. /\ carried' \in [Gnbs -> [Apps -> Gnbs \cup {NoGnb}]]
      /\ \A x \in Gnbs, b \in Apps : x # o \/ b # a => carried'[x][b] = carried[x][b]
      /\ carried'[o][a] = IF m.success THEN p ELSE NoGnb
  BY <1>1 DEF Sound
<1>6. /\ \A x \in Gnbs : ~Has(toMac[x], Begin(a)) /\ ~Has(toMac'[x], Begin(a))
      /\ \A x \in Gnbs : \A q : ~Has(toMac[x], BeginFor(a, q)) /\ ~Has(toMac'[x], BeginFor(a, q))
      /\ ~Has(fromMac[o][p], Fail(a))
      /\ ~sched.schedComplete
      /\ \A x \in Gnbs : x # o => carried[x][a] = NoGnb
      /\ \A x \in Gnbs : Once(commands[x], Start(a))
  <2>1. \A x \in Gnbs : ~Has(toMac[x], Begin(a)) /\ ~Has(toMac'[x], Begin(a))
    BY <1>0, <1>1 DEF Single
  <2>2. ~Has(fromMac[o][p], Fail(a))
    BY <1>1 DEF Wire
  <2>3. ~sched.schedComplete
    BY <1>1 DEF Vacant
  <2>4. \A x \in Gnbs : (x # o => carried[x][a] = NoGnb) /\ Once(commands[x], Start(a))
    BY <1>1 DEF Single
  <2> QED BY <2>1, <2>2, <2>3, <2>4, HasPart
<1>7. Single(a)'
  <2>1. \A x \in Gnbs : carried'[x][a] # NoGnb => carried[x][a] # NoGnb
    BY <1>1, <1>5, <1>6
  <2> QED BY <1>0, <1>1, <1>6, <2>1, SingleKept
<1>8. ASSUME NEW x \in Gnbs, NEW q \in Gnbs PROVE Wire(x, q, a)'
  <2>1. Wire(x, q, a)
    BY <1>1
  <2>2. CASE x = o /\ q = p
    <3>1. Ending(fromMac[o][p], Fail(a), Tell(a))
      BY <2>1, <2>2 DEF Wire
    <3>2. Ending(fromMac'[o][p], Fail(a), Tell(a))
      BY <3>1, <1>2, <1>6
    <3>3. hasScheduler[p] => a \in RunningIn(server[p]) /\ server[p].service[a].offloadGnb = o
      BY <2>1, <2>2 DEF Wire
    <3>4. carried'[o][a] = p => ~Has(fromMac'[o][p], Fail(a))
      BY <1>1, <1>2, <1>4, <1>5, <1>6
    <3> QED BY <2>2, <3>2, <3>3, <3>4, <1>6 DEF Wire
  <2>3. CASE ~(x = o /\ q = p)
    <3>1. fromMac'[x][q] = fromMac[x][q]
      BY <2>3, <1>3
    <3>2. carried'[x][a] # q
      <4>1. q # NoGnb
        BY MecTypesAssumption
      <4>2. CASE x = o
        BY <4>1, <4>2, <2>3, <1>5
      <4>3. CASE x # o
        BY <4>1, <4>3, <1>5, <1>6
      <4> QED BY <4>2, <4>3
    <3> QED BY <2>1, <3>1, <3>2, <1>6 DEF Wire
  <2> QED BY <2>2, <2>3
<1>9. ASSUME AllFound' PROVE Booked(a)'
  <2>1. AllFound
    BY <1>9 DEF AllFound
  <2>2. Booked(a)
    BY <2>1 DEF IInv, Life
  <2>3. a \in RunningIn(server[p]) /\ server[p].service[a].offloadGnb = o /\ a \in server[p].granted
    BY <1>1, <2>1 DEF Wire, AllFound, RunningIn
  <2>4. ServiceBooked(p, a)
    BY <2>2 DEF Booked
  <2>5. /\ Instance(sched, a).processGnb = p /\ Instance(sched, a).offloadGnb = o
    BY <2>3, <2>4 DEF ServiceBooked
  <2>6. ASSUME NEW n \in Gnbs PROVE StartBooked(n, a)'
    <3>1. StartBooked(n, a)
      BY <2>2 DEF Booked
    <3> QED BY <3>1 DEF StartBooked
  <2>7. ASSUME NEW n \in Gnbs PROVE ServiceBooked(n, a)'
    <3>1. CASE n = p
      <4>1. carried'[o][a] = p \/ Has(fromMac'[o][p], Fail(a))
        BY <1>2, <1>4, <1>5
      <4>2. Has(fromMac'[o][p], Tell(a))
        BY <1>2, <1>4
      <4> QED BY <2>3, <2>4, <3>1, <4>1, <4>2 DEF ServiceBooked
    <3>2. CASE n # p
      <4>1. a \notin server[n].granted
        BY <3>2, <1>1, <2>3 DEF Single
      <4> QED BY <4>1 DEF ServiceBooked
    <3> QED BY <3>1, <3>2
  <2>8. ASSUME NEW n \in Gnbs PROVE AnswerBooked(n, a)'
    <3>1. AnswerBooked(n, a)
      BY <2>2 DEF Booked
    <3> QED BY <3>1 DEF AnswerBooked
  <2>9. Accounted(a)'
    <3>1. Accounted(a)
      BY <2>2 DEF Booked
    <3>2. \/ Has(toMac'[o], End(a)) \/ Has(fromMac'[o][p], Fail(a))
          \/ ~(Has(toMac[o], End(a)) \/ Has(fromMac[o][p], Fail(a)))
      BY <1>0, <1>2, <1>4
    <3> QED BY <2>3, <2>5, <3>1, <3>2, <1>0 DEF Accounted
  <2> QED BY <2>6, <2>7, <2>8, <2>9 DEF Booked
<1>10. Life(a)'
  BY <1>6, <1>7, <1>8, <1>9 DEF Life
<1>11. \A x \in Gnbs : ~hasScheduler[x] => \A b \in Apps : carried'[x][b] = NoGnb
  <2>1. \A x \in Gnbs : ~hasScheduler[x] => \A b \in Apps : carried[x][b] = NoGnb
    BY <1>1 DEF Sound
  <2>2. \A x \in Gnbs, b \in Apps : carried[x][b] = NoGnb => carried'[x][b] = NoGnb
    BY <1>1, <1>5
  <2> QED BY <2>1, <2>2
<1>12. MacsBut(a)
  BY <1>0, <1>2, <1>5 DEF MacsBut
<1>13. MacsTyped
  BY <1>0, <1>2, <1>3, <1>5, <1>11 DEF MacsTyped
<1> QED BY <1>10, <1>12, <1>13, MacStep

\* what a MAC says in a report
LEMMA ReportMade ==
  ASSUME Sound, NEW o \in Gnbs, NEW a \in Apps, NEW success \in BOOLEAN, NEW p \in Gnbs,
         Report(o, a, success, p)
  PROVE  \E m \in ReportTo(o, p) : m.app = a /\ m.success = success /\ ReportAdded(o, p, m)
<1> DEFINE m == [app |-> a, success |-> success, processGnb |-> p, offloadGnb |-> o,
                 usedBand |-> IF success THEN 1 ELSE 0]
<1>1. m \in ReportTo(o, p) /\ m.app = a /\ m.success = success
  BY DEF ReportTo, MacReport
<1>2. fromMac' = [fromMac EXCEPT ![o][p] = Append(@, m)]
  BY DEF Report
<1>3. DOMAIN fromMac = Gnbs /\ \A x \in Gnbs : DOMAIN fromMac[x] = Gnbs
  BY DEF Sound
<1> HIDE DEF m
<1>4. ReportAdded(o, p, m)
  BY <1>2, <1>3 DEF ReportAdded
<1> QED BY <1>1, <1>4

\* the gNB ends a service on its own, or adjusts it
LEMMA TerminateKeeps ==
  ASSUME IInv, NEW o \in Gnbs, NEW a \in Apps, Terminate(o, a) \/ Adjust(o, a)
  PROVE  IInv'
<1>1. Sound /\ Single(a)
  BY DEF IInv, Life
<1>2. PICK p \in Gnbs : carried[o][a] = p
  <2>1. carried[o][a] # NoGnb
    BY DEF Terminate, Adjust, CarriedBy
  <2>2. carried[o][a] \in Gnbs \cup {NoGnb}
    BY <1>1 DEF Sound
  <2> QED BY <2>1, <2>2
<1>3. UNCHANGED <<sched, hasScheduler, server, commands, toMac, reports>>
  BY DEF Terminate, Adjust
<1>4. \A ended : ListsKept(o, a, ended)
  <2>1. DOMAIN toMac' = Gnbs /\ \A x \in Gnbs : toMac'[x] \in Seq(GrantTo(x))
    BY <1>1, <1>3 DEF Sound
  <2>2. \A x \in Gnbs : Once(toMac'[x], Begin(a))
    BY <1>1, <1>3 DEF Single
  <2> QED BY <1>3, <2>1, <2>2, KeptSame DEF ListsKept
<1>5. CASE Terminate(o, a)
  <2>1. Report(o, a, FALSE, p) /\ carried' = [carried EXCEPT ![o][a] = NoGnb]
    BY <1>2, <1>5 DEF Terminate
  <2>2. PICK m \in ReportTo(o, p) : m.app = a /\ m.success = FALSE /\ ReportAdded(o, p, m)
    BY <1>1, <2>1, ReportMade
  <2> QED BY <1>2, <1>3, <1>4, <2>1, <2>2, ServiceReported
<1>6. CASE Adjust(o, a)
  <2>1. Report(o, a, TRUE, p) /\ carried' = carried
    BY <1>2, <1>6 DEF Adjust
  <2>2. PICK m \in ReportTo(o, p) : m.app = a /\ m.success = TRUE /\ ReportAdded(o, p, m)
    BY <1>1, <2>1, ReportMade
  <2> QED BY <1>2, <1>3, <1>4, <2>1, <2>2, ServiceReported
<1> QED BY <1>5, <1>6

\* a MAC takes a grant out of its list
HasGone(o, grant) ==
    /\ grant \in GrantTo(o) /\ DOMAIN toMac' = Gnbs
    /\ \A x \in Gnbs : toMac'[x] \in Seq(GrantTo(x))
    /\ \A x \in Gnbs : \A M : Has(toMac'[x], M) => Has(toMac[x], M)
    /\ \A x \in Gnbs : \A M : Has(toMac[x], M) => Has(toMac'[x], M) \/ (x = o /\ grant \in M)
    /\ \A M : grant \in M => Has(toMac[o], M)
    /\ \A x \in Gnbs : \A M : Once(toMac[x], M) =>
          Once(toMac'[x], M) /\ (x = o /\ grant \in M => ~Has(toMac'[x], M))
    /\ \A b : b # grant.app => \A x \in Gnbs : Kept(toMac[x], toMac'[x], About(b))

\* the list of the MAC has all its grants but the one it took
LEMMA GrantGone ==
  ASSUME Sound, NEW o \in Gnbs, NEW i \in DOMAIN toMac[o],
         toMac' = [toMac EXCEPT ![o] = RemoveAt(@, i)]
  PROVE  HasGone(o, toMac[o][i])
<1> DEFINE rest == RemoveAt(toMac[o], i)
<1>1. DOMAIN toMac = Gnbs /\ \A x \in Gnbs : toMac[x] \in Seq(GrantTo(x))
  BY DEF Sound
<1>2. toMac[o] \in Seq(GrantTo(o))
  BY <1>1
<1>3. toMac'[o] = rest /\ (\A x \in Gnbs : x # o => toMac'[x] = toMac[x]) /\ DOMAIN toMac' = Gnbs
  BY <1>1
<1>4. PICK grant : grant = toMac[o][i]
  OBVIOUS
<1>5. /\ grant \in GrantTo(o) /\ rest \in Seq(GrantTo(o))
      /\ \A M : Has(toMac[o], M) <=> grant \in M \/ Has(rest, M)
      /\ \A M : Once(toMac[o], M) => Once(rest, M) /\ (grant \in M => ~Has(rest, M))
  <2>1. /\ toMac[o][i] \in GrantTo(o) /\ rest \in Seq(GrantTo(o))
        /\ \A M : Has(toMac[o], M) <=> toMac[o][i] \in M \/ Has(rest, M)
        /\ \A M : Once(toMac[o], M) => Once(rest, M) /\ (toMac[o][i] \in M => ~Has(rest, M))
    BY <1>2, HasRemoved
  <2> HIDE DEF rest
  <2> QED BY <2>1, <1>4
<1>6. \A b : grant \notin About(b) => Kept(toMac[o], rest, About(b))
  <2> SUFFICES ASSUME NEW b, grant \notin About(b) PROVE Kept(toMac[o], rest, About(b))
    OBVIOUS
  <2>1. toMac[o][i] \notin About(b)
    BY <1>4
  <2> QED BY <1>2, <2>1, KeptRemoved
<1> HIDE DEF rest
<1>7. ASSUME NEW b, b # grant.app, NEW x \in Gnbs PROVE Kept(toMac[x], toMac'[x], About(b))
  <2>1. CASE x = o
    <3>1. grant \notin About(b)
      BY <1>5, <1>7, GrantKinds
    <3> QED BY <1>3, <1>6, <2>1, <3>1
  <2>2. CASE x # o
    BY <1>3, <2>2, KeptSame
  <2> QED BY <2>1, <2>2
<1>8. HasGone(o, grant)
  BY <1>1, <1>3, <1>5, <1>7 DEF HasGone
<1> QED BY <1>4, <1>8

\* the end of a service the MAC carries
LEMMA EndTaken ==
  ASSUME IInv, NEW o \in Gnbs, NEW grant, HasGone(o, grant), grant.stop,
         grant.app \in CarriedBy(o),
         carried' = [carried EXCEPT ![o][grant.app] = NoGnb],
         Report(o, grant.app, FALSE, carried[o][grant.app]),
         UNCHANGED <<sched, hasScheduler, server, commands, reports>>
  PROVE  IInv'
<1>1. PICK a : a = grant.app
  OBVIOUS
<1>2. a \in Apps /\ carried[o][a] # NoGnb
  BY <1>1 DEF CarriedBy
<1>3. Sound /\ Single(a)
  BY <1>2 DEF IInv, Life
<1>4. PICK p \in Gnbs : carried[o][a] = p
  BY <1>2, <1>3 DEF Sound
<1>5. PICK m \in ReportTo(o, p) : m.app = a /\ m.success = FALSE /\ ReportAdded(o, p, m)
  <2>1. Report(o, a, FALSE, p)
    BY <1>1, <1>4
  <2> QED BY <1>2, <1>3, <2>1, ReportMade
<1>6. /\ grant \in GrantTo(o) /\ DOMAIN toMac' = Gnbs
      /\ \A x \in Gnbs : toMac'[x] \in Seq(GrantTo(x))
      /\ \A x \in Gnbs : \A M : Has(toMac'[x], M) => Has(toMac[x], M)
      /\ \A x \in Gnbs : \A M : Has(toMac[x], M) => Has(toMac'[x], M) \/ (x = o /\ grant \in M)
      /\ \A x \in Gnbs : \A M : Once(toMac[x], M) => Once(toMac'[x], M)
      /\ \A b : b # grant.app => \A x \in Gnbs : Kept(toMac[x], toMac'[x], About(b))
  BY DEF HasGone
<1>7. grant \notin Begin(a)
  <2>1. grant.stop => grant \notin Begin(grant.app)
    BY <1>6, GrantKinds
  <2> QED BY <2>1, <1>1
<1>8. ListsKept(o, a, ~m.success)
  <2>1. \A x \in Gnbs : Once(toMac[x], Begin(a))
    BY <1>3 DEF Single
  <2>2. \A x \in Gnbs : Once(toMac'[x], Begin(a))
    BY <2>1, <1>6
  <2>3. \A x \in Gnbs : Has(toMac'[x], Begin(a)) <=> Has(toMac[x], Begin(a))
    BY <1>6, <1>7
  <2>4. \A b : b # a => \A x \in Gnbs : Kept(toMac[x], toMac'[x], About(b))
    BY <1>1, <1>6
  <2> QED BY <1>5, <1>6, <2>2, <2>3, <2>4 DEF ListsKept
<1>10. carried' = IF m.success THEN carried ELSE [carried EXCEPT ![o][a] = NoGnb]
  BY <1>1, <1>5
<1> QED BY <1>2, <1>4, <1>5, <1>8, <1>10, ServiceReported

\* the MAC starts to carry a service
LEMMA BeginTaken ==
  ASSUME IInv, NEW o \in Gnbs, hasScheduler[o], NEW grant, HasGone(o, grant), ~grant.stop,
         carried' = [carried EXCEPT ![o][grant.app] = grant.processGnb],
         Report(o, grant.app, TRUE, grant.processGnb),
         UNCHANGED <<sched, hasScheduler, server, commands, reports>>
  PROVE  IInv'
<1>1. PICK a : a = grant.app
  OBVIOUS
<1>2. PICK p : p = grant.processGnb
  OBVIOUS
<1>3. /\ grant \in GrantTo(o) /\ DOMAIN toMac' = Gnbs
      /\ \A x \in Gnbs : toMac'[x] \in Seq(GrantTo(x))
      /\ \A x \in Gnbs : \A M : Has(toMac'[x], M) => Has(toMac[x], M)
      /\ \A x \in Gnbs : \A M : Has(toMac[x], M) => Has(toMac'[x], M) \/ (x = o /\ grant \in M)
      /\ \A M : grant \in M => Has(toMac[o], M)
      /\ \A x \in Gnbs : \A M : Once(toMac[x], M) =>
            Once(toMac'[x], M) /\ (x = o /\ grant \in M => ~Has(toMac'[x], M))
      /\ \A b : b # a => \A x \in Gnbs : Kept(toMac[x], toMac'[x], About(b))
  BY <1>1 DEF HasGone
<1>4. /\ a \in Apps /\ p \in Gnbs /\ grant \in Begin(a) /\ grant \notin End(a)
      /\ grant \in BeginFor(a, p)
  <2>1. /\ grant.app \in Apps /\ grant.processGnb \in Gnbs
        /\ ~grant.stop => /\ grant \in Begin(grant.app) /\ grant \notin End(grant.app)
                          /\ \A q : grant \in BeginFor(grant.app, q) <=> grant.processGnb = q
    BY <1>3, GrantKinds
  <2> QED BY <2>1, <1>1, <1>2
<1>5. /\ Sound /\ Single(a) /\ (\A x, q \in Gnbs : Wire(x, q, a))
      /\ (sched.schedComplete => Vacant(a)) /\ p # NoGnb
  BY <1>4, MecTypesAssumption DEF IInv, Life
<1>6. PICK m \in ReportTo(o, p) : m.app = a /\ m.success = TRUE /\ ReportAdded(o, p, m)
  <2>1. Report(o, a, TRUE, p)
    BY <1>1, <1>2
  <2> QED BY <1>4, <1>5, <2>1, ReportMade
<1>7. /\ \A x, q \in Gnbs : fromMac'[x][q] \in Seq(ReportTo(x, q))
      /\ \A M : Has(fromMac'[o][p], M) <=> Has(fromMac[o][p], M) \/ m \in M
      /\ \A E, T : Ending(fromMac[o][p], E, T) /\ (m \in T => ~Has(fromMac[o][p], E))
                      => Ending(fromMac'[o][p], E, T)
      /\ \A b : b # a => \A x, q \in Gnbs : Kept(fromMac[x][q], fromMac'[x][q], About(b))
  <2>1. HasAdded(o, p, m)
    BY <1>4, <1>5, <1>6, ReportAddedHas
  <2> QED BY <2>1, <1>6 DEF HasAdded
<1>8. /\ DOMAIN fromMac' = Gnbs /\ \A x \in Gnbs : DOMAIN fromMac'[x] = Gnbs
      /\ \A x, q \in Gnbs : x # o \/ q # p => fromMac'[x][q] = fromMac[x][q]
  BY <1>6 DEF ReportAdded
<1>9. m \in Tell(a) /\ m \notin Fail(a)
  BY <1>4, <1>6, ReportKinds
<1>10. /\ carried' \in [Gnbs -> [Apps -> Gnbs \cup {NoGnb}]]
       /\ \A x \in Gnbs, b \in Apps : x # o \/ b # a => carried'[x][b] = carried[x][b]
       /\ carried'[o][a] = p
  BY <1>1, <1>2, <1>4, <1>5 DEF Sound
<1>11. /\ \A x \in Gnbs : /\ ~Has(toMac'[x], Begin(a)) /\ carried[x][a] = NoGnb
                          /\ ~Has(commands[x], Start(a)) /\ Once(commands[x], Start(a))
                          /\ Once(toMac'[x], Begin(a)) /\ a \notin InitializingIn(server[x])
       /\ \A x \in Gnbs : \A q : ~Has(toMac'[x], BeginFor(a, q))
       /\ ~Has(fromMac[o][p], Tell(a)) /\ ~Has(fromMac[o][p], Fail(a))
       /\ Has(toMac[o], Begin(a)) /\ Has(toMac[o], BeginFor(a, p))
       /\ ~sched.schedComplete
  <2>1. Has(toMac[o], Begin(a)) /\ Has(toMac[o], BeginFor(a, p))
    BY <1>3, <1>4
  <2>2. \A x \in Gnbs : /\ carried[x][a] = NoGnb /\ (Has(toMac[x], Begin(a)) => x = o)
                        /\ ~Has(commands[x], Start(a)) /\ Once(commands[x], Start(a))
                        /\ Once(toMac[x], Begin(a))
    BY <1>5, <2>1 DEF Single
  <2>3. \A x \in Gnbs : a \notin InitializingIn(server[x])
    BY <1>5, <2>1 DEF Single, InitializingIn
  <2>4. \A x \in Gnbs : ~Has(toMac'[x], Begin(a)) /\ Once(toMac'[x], Begin(a))
    BY <1>3, <1>4, <2>2
  <2>5. ~Has(fromMac[o][p], Tell(a))
    BY <1>4, <1>5, <2>1 DEF Wire
  <2>6. ~sched.schedComplete
    BY <1>5, <2>1 DEF Vacant
  <2> QED BY <2>1, <2>2, <2>3, <2>4, <2>5, <2>6, HasPart
<1>12. Single(a)'
  <2>1. \A x, y \in Gnbs : a \in server[x].granted /\ a \in server[y].granted => x = y
    BY <1>5 DEF Single
  <2>2. \A x \in Gnbs : carried'[x][a] # NoGnb => x = o
    BY <1>4, <1>10, <1>11
  <2> QED BY <2>1, <2>2, <1>11 DEF Single
<1>13. ASSUME NEW x \in Gnbs, NEW q \in Gnbs PROVE Wire(x, q, a)'
  <2>1. Wire(x, q, a) /\ q # NoGnb
    BY <1>5, MecTypesAssumption
  <2>2. CASE x = o /\ q = p
    <3>1. Ending(fromMac[o][p], Fail(a), Tell(a))
      BY <2>1, <2>2 DEF Wire
    <3>2. Ending(fromMac'[o][p], Fail(a), Tell(a)) /\ ~Has(fromMac'[o][p], Fail(a))
      BY <3>1, <1>7, <1>9, <1>11
    <3>3. hasScheduler[p] => a \in RunningIn(server[p]) /\ server[p].service[a].offloadGnb = o
      BY <2>1, <2>2, <1>11 DEF Wire
    <3> QED BY <2>2, <3>2, <3>3, <1>11 DEF Wire
  <2>3. CASE ~(x = o /\ q = p)
    <3>1. fromMac'[x][q] = fromMac[x][q]
      BY <2>3, <1>8
    <3>2. carried'[x][a] # q
      <4>1. CASE x = o
        BY <4>1, <2>3, <1>10
      <4>2. CASE x # o
        BY <4>2, <2>1, <1>4, <1>10, <1>11
      <4> QED BY <4>1, <4>2
    <3> QED BY <2>1, <3>1, <3>2, <1>11 DEF Wire
  <2> QED BY <2>2, <2>3
<1>14. ASSUME AllFound' PROVE Booked(a)'
  <2>1. AllFound
    BY <1>14 DEF AllFound
  <2>2. Booked(a)
    BY <1>4, <2>1 DEF IInv, Life
  <2>3. a \in RunningIn(server[p]) /\ server[p].service[a].offloadGnb = o /\ a \in server[p].granted
    BY <1>4, <1>5, <1>11, <2>1 DEF Wire, AllFound, RunningIn
  <2>4. ServiceBooked(p, a)
    BY <1>4, <2>2 DEF Booked
  <2>5. /\ Instance(sched, a).processGnb = p /\ Instance(sched, a).offloadGnb = o
    BY <2>3, <2>4 DEF ServiceBooked
  <2>6. ASSUME NEW n \in Gnbs PROVE StartBooked(n, a)'
    BY <1>11 DEF StartBooked
  <2>7. ASSUME NEW n \in Gnbs PROVE ServiceBooked(n, a)'
    <3>1. CASE n = p
      <4>1. Has(fromMac'[o][p], Tell(a))
        BY <1>7, <1>9
      <4> QED BY <2>3, <2>4, <3>1, <4>1, <1>10 DEF ServiceBooked
    <3>2. CASE n # p
      <4>1. a \notin server[n].granted
        BY <3>2, <1>4, <1>5, <2>3 DEF Single
      <4> QED BY <4>1 DEF ServiceBooked
    <3> QED BY <3>1, <3>2
  <2>8. ASSUME NEW n \in Gnbs PROVE AnswerBooked(n, a)'
    <3>1. AnswerBooked(n, a)
      BY <2>2 DEF Booked
    <3> QED BY <3>1 DEF AnswerBooked
  <2>9. Accounted(a)'
    <3>1. Accounted(a)
      BY <2>2 DEF Booked
    <3>2. /\ Has(toMac[o], End(a)) => Has(toMac'[o], End(a))
          /\ Has(fromMac[o][p], Fail(a)) => Has(fromMac'[o][p], Fail(a))
      BY <1>3, <1>4, <1>7
    <3> QED BY <2>3, <2>5, <3>1, <3>2 DEF Accounted
  <2> QED BY <2>6, <2>7, <2>8, <2>9 DEF Booked
<1>15. Life(a)'
  BY <1>11, <1>12, <1>13, <1>14 DEF Life
<1>16. \A x \in Gnbs : ~hasScheduler[x] => \A b \in Apps : carried'[x][b] = NoGnb
  <2>1. \A x \in Gnbs : ~hasScheduler[x] => \A b \in Apps : carried[x][b] = NoGnb
    BY <1>5 DEF Sound
  <2>2. \A x \in Gnbs : ~hasScheduler[x] => x # o
    OBVIOUS
  <2> QED BY <2>1, <2>2, <1>10
<1>17. MacsBut(a)
  BY <1>3, <1>7, <1>10 DEF MacsBut
<1>18. MacsTyped
  BY <1>3, <1>7, <1>8, <1>10, <1>16 DEF MacsTyped
<1> QED BY <1>15, <1>17, <1>18, MacStep

\* a grant the MAC does not follow: a first one without a scheduler, or the
\* end of a service it does not carry
LEMMA GrantDropped ==
  ASSUME IInv, NEW o \in Gnbs, NEW grant, HasGone(o, grant),
         IF grant.stop THEN grant.app \notin CarriedBy(o) ELSE ~hasScheduler[o],
         UNCHANGED <<sched, hasScheduler, server, carried, fromMac, commands, reports>>
  PROVE  IInv'
<1>1. PICK a : a = grant.app
  OBVIOUS
<1>2. /\ grant \in GrantTo(o) /\ DOMAIN toMac' = Gnbs
      /\ \A x \in Gnbs : toMac'[x] \in Seq(GrantTo(x))
      /\ \A x \in Gnbs : \A M : Has(toMac'[x], M) => Has(toMac[x], M)
      /\ \A x \in Gnbs : \A M : Has(toMac[x], M) => Has(toMac'[x], M) \/ (x = o /\ grant \in M)
      /\ \A x \in Gnbs : \A M : Once(toMac[x], M) => Once(toMac'[x], M)
      /\ \A b : b # a => \A x \in Gnbs : Kept(toMac[x], toMac'[x], About(b))
  BY <1>1 DEF HasGone
<1>3. a \in Apps
  BY <1>1, <1>2, GrantKinds
<1>4. /\ Sound /\ Phase /\ Single(a) /\ (\A x, q \in Gnbs : Wire(x, q, a))
      /\ (sched.schedComplete => a \notin Served(sched) /\ Vacant(a))
  BY <1>3 DEF IInv, Life
<1>5. Single(a)'
  <2>1. \A x \in Gnbs : Once(commands[x], Start(a)) /\ Once(toMac[x], Begin(a))
    BY <1>4 DEF Single
  <2>2. \A x \in Gnbs : Once(toMac'[x], Begin(a))
    BY <2>1, <1>2
  <2> QED BY <2>1, <2>2, <1>2, <1>4, SingleKept
<1>6. ASSUME NEW x \in Gnbs, NEW q \in Gnbs PROVE Wire(x, q, a)'
  <2>1. Wire(x, q, a)
    BY <1>4
  <2>2. Has(toMac'[x], BeginFor(a, q)) => Has(toMac[x], BeginFor(a, q))
    BY <1>2
  <2> QED BY <2>1, <2>2 DEF Wire
<1>7. sched'.schedComplete => a \notin Served(sched') /\ Vacant(a)'
  BY <1>2, <1>4 DEF Vacant
<1>8. ASSUME AllFound' PROVE Booked(a)'
  <2>1. AllFound
    BY <1>8 DEF AllFound
  <2>2. Booked(a)
    BY <1>3, <2>1 DEF IInv, Life
  <2>3. grant.stop /\ a \notin CarriedBy(o)
    BY <1>1, <2>1 DEF AllFound
  <2>4. grant \notin Begin(a) /\ \A q : grant \notin BeginFor(a, q)
    <3>1. grant.stop => grant \notin Begin(grant.app) /\ \A q : grant \notin BeginFor(grant.app, q)
      BY <1>2, GrantKinds
    <3> QED BY <3>1, <2>3, <1>1
  <2>5. \A x \in Gnbs : \A q : Has(toMac'[x], BeginFor(a, q)) <=> Has(toMac[x], BeginFor(a, q))
    <3>1. \A x \in Gnbs : \A M : grant \notin M => (Has(toMac'[x], M) <=> Has(toMac[x], M))
      BY <1>2
    <3> QED BY <3>1, <2>4
  <2>6. ASSUME NEW n \in Gnbs PROVE StartBooked(n, a)'
    <3>1. StartBooked(n, a)
      BY <2>2 DEF Booked
    <3> QED BY <3>1 DEF StartBooked
  <2>7. ASSUME NEW n \in Gnbs PROVE ServiceBooked(n, a)'
    <3>1. ServiceBooked(n, a)
      BY <2>2 DEF Booked
    <3>2. a \in server[n].granted => server[n].service[a].offloadGnb \in Gnbs
      BY <1>4 DEF Sound, Fine
    <3> QED BY <3>1, <3>2, <2>5 DEF ServiceBooked
  <2>8. ASSUME NEW n \in Gnbs PROVE AnswerBooked(n, a)'
    <3>1. AnswerBooked(n, a)
      BY <2>2 DEF Booked
    <3> QED BY <3>1 DEF AnswerBooked
  <2>9. ASSUME a \in Served(sched), ~sched.preSchedCheck
        PROVE  LET p == Instance(sched, a).processGnb
                   x == Instance(sched, a).offloadGnb
               IN  \/ Has(commands[p], Stop(a)) \/ Has(toMac'[x], End(a))
                   \/ Has(fromMac[x][p], Fail(a)) \/ Has(reports[p], Refuse(a))
    <3> DEFINE p == Instance(sched, a).processGnb
               x == Instance(sched, a).offloadGnb
    <3>1. p \in Gnbs /\ x \in Gnbs
      BY <2>9, <1>4 DEF Sound, SchedOk, ServiceInstance
    <3>2. Accounted(a)
      BY <2>2 DEF Booked
    <3>3. CASE Has(toMac[x], End(a)) /\ ~Has(toMac'[x], End(a))
      <4>1. x = o
        BY <3>1, <3>3, <1>2
      <4>2. a \notin sched.appsWaitInitFb
        BY <2>1, <2>9, <1>4 DEF Phase
      <4>3. ~Has(commands[p], Start(a))
        BY <2>2, <3>1, <4>2 DEF Booked, StartBooked
      <4>4. CASE a \in server[p].granted
        <5>1. ServiceBooked(p, a)
          BY <2>2, <3>1, SMTT(60) DEF Booked
        <5>2. a \in RunningIn(server[p]) /\ a \notin server[p].appsWaitMacInitFb
          BY <4>2, <4>4, <5>1, SMTT(60) DEF ServiceBooked, RunningIn, InitializingIn
        <5>3. server[p].service[a].offloadGnb = x
          BY <4>4, <5>1 DEF ServiceBooked
        <5>4. ~Has(toMac[x], BeginFor(a, p))
          BY <5>2, <3>1, <2>1, <1>4 DEF Wire, AllFound
        <5>5. carried[x][a] # p
          BY <2>3, <4>1, <3>1, <1>3, MecTypesAssumption DEF CarriedBy
        <5>6. Has(fromMac[x][p], Fail(a))
          <6> HIDE DEF x, p
          <6> QED BY <4>4, <5>1, <5>2, <5>3, <5>4, <5>5 DEF ServiceBooked
        <5> QED BY <5>6
      <4>5. CASE a \notin server[p].granted
        BY <2>9, <3>2, <4>3, <4>5 DEF Accounted
      <4> QED BY <4>4, <4>5
    <3>4. CASE ~(Has(toMac[x], End(a)) /\ ~Has(toMac'[x], End(a)))
      BY <2>9, <3>2, <3>4 DEF Accounted
    <3> QED BY <3>3, <3>4
  <2>10. Accounted(a)'
    <3>1. Accounted(a)
      BY <2>2 DEF Booked
    <3> QED BY <2>9, <3>1 DEF Accounted
  <2> QED BY <2>6, <2>7, <2>8, <2>10 DEF Booked
<1>9. Life(a)'
  BY <1>5, <1>6, <1>7, <1>8 DEF Life
<1>10. MacsBut(a)
  BY <1>2, KeptSame DEF MacsBut
<1>11. MacsTyped
  BY <1>2, <1>4 DEF MacsTyped, Sound
<1> QED BY <1>9, <1>10, <1>11, MacStep

\* a MAC takes any grant of its list
LEMMA TakeGrantKeeps ==
  ASSUME IInv, NEW o \in Gnbs, NEW i \in DOMAIN toMac[o], TakeGrant(o, i)
  PROVE  IInv'
<1>1. PICK grant : grant = toMac[o][i]
  OBVIOUS
<1>2. HasGone(o, grant)
  <2>1. Sound /\ toMac' = [toMac EXCEPT ![o] = RemoveAt(@, i)]
    BY DEF IInv, TakeGrant
  <2> QED BY <1>1, <2>1, GrantGone
<1>3. /\ \/ /\ ~grant.stop /\ hasScheduler[o]
            /\ carried' = [carried EXCEPT ![o][grant.app] = grant.processGnb]
            /\ Report(o, grant.app, TRUE, grant.processGnb)
         \/ /\ grant.stop /\ grant.app \in CarriedBy(o)
            /\ carried' = [carried EXCEPT ![o][grant.app] = NoGnb]
            /\ Report(o, grant.app, FALSE, carried[o][grant.app])
         \/ /\ IF grant.stop THEN grant.app \notin CarriedBy(o) ELSE ~hasScheduler[o]
            /\ UNCHANGED <<carried, fromMac>>
      /\ UNCHANGED <<sched, hasScheduler, server, commands, reports>>
  BY <1>1 DEF TakeGrant
<1>4. CASE /\ ~grant.stop /\ hasScheduler[o]
           /\ carried' = [carried EXCEPT ![o][grant.app] = grant.processGnb]
           /\ Report(o, grant.app, TRUE, grant.processGnb)
  BY <1>2, <1>3, <1>4, BeginTaken
<1>5. CASE /\ grant.stop /\ grant.app \in CarriedBy(o)
           /\ carried' = [carried EXCEPT ![o][grant.app] = NoGnb]
           /\ Report(o, grant.app, FALSE, carried[o][grant.app])
  BY <1>2, <1>3, <1>5, EndTaken
<1>6. CASE /\ IF grant.stop THEN grant.app \notin CarriedBy(o) ELSE ~hasScheduler[o]
           /\ UNCHANGED <<carried, fromMac>>
  BY <1>2, <1>3, <1>6, GrantDropped
<1> QED BY <1>3, <1>4, <1>5, <1>6

-----------------------------------------------------------------------------
(* The steps of the scheduler.                                             *)

\* what the scheduler keeps and sends when handler h has run
SchedTurned(h) ==
    /\ SchedOk(sched') /\ sched'.out = NothingSent
    /\ sched'.appsWaitInitFb = h.appsWaitInitFb /\ sched'.allocatedApps = h.allocatedApps
    /\ sched'.appsWaitStopFb = h.appsWaitStopFb
    /\ sched'.srvInInitiating = h.srvInInitiating /\ sched'.runningService = h.runningService
    /\ sched'.cmpUnits = h.cmpUnits /\ sched'.preSchedCheck = h.preSchedCheck
    /\ sched'.schedComplete = h.schedComplete
    /\ DOMAIN commands' = Gnbs /\ \A n \in Gnbs : commands'[n] = commands[n] \o h.out[n]

\* PerformScheduler keeps what the handler made of the scheduler
LEMMA SchedPerforms ==
  ASSUME NEW h, SchedOk(h), PerformScheduler(h)
  PROVE  SchedTurned(h)
<1> DEFINE w == [h EXCEPT !.out = NothingSent]
<1>1. h \in SchedRecord
  BY DEF SchedOk
<1>2. NothingSent \in [Gnbs -> Seq(SrvGrant)]
  <2>1. <<>> \in Seq(SrvGrant)
    <3> DEFINE S == SrvGrant
    <3> HIDE DEF S
    <3>1. <<>> \in Seq(S)
      OBVIOUS
    <3> QED BY <3>1 DEF S
  <2> QED BY <2>1 DEF NothingSent
<1>3. /\ w \in SchedRecord /\ w.out = NothingSent
      /\ w.appInfo = h.appInfo /\ w.blank = h.blank /\ w.vehApps = h.vehApps
      /\ w.unscheduledApps = h.unscheduledApps
      /\ w.appsWaitInitFb = h.appsWaitInitFb /\ w.allocatedApps = h.allocatedApps
      /\ w.appsWaitStopFb = h.appsWaitStopFb
      /\ w.srvInInitiating = h.srvInInitiating /\ w.runningService = h.runningService
      /\ w.cmpUnits = h.cmpUnits /\ w.preSchedCheck = h.preSchedCheck
      /\ w.schedComplete = h.schedComplete /\ w.vecSchedule = h.vecSchedule
  BY <1>1, <1>2 DEF SchedRecord
<1>4. sched' = w
  BY DEF PerformScheduler
<1>5. DOMAIN commands' = Gnbs /\ \A n \in Gnbs : commands'[n] = commands[n] \o h.out[n]
  BY DEF PerformScheduler
<1> HIDE DEF w
<1>6. SchedOk(w)
  BY <1>3 DEF SchedOk, OnePlace, Served, Instance, Planned
<1> QED BY <1>3, <1>4, <1>5, <1>6 DEF SchedTurned

\* the handler sends nothing
LEMMA NothingAdded ==
  ASSUME Sound, NEW h, SchedTurned(h), h.out = NothingSent
  PROVE  \A n \in Gnbs : commands'[n] = commands[n]
<1> SUFFICES ASSUME NEW n \in Gnbs PROVE commands'[n] = commands[n]
  OBVIOUS
<1>1. commands[n] \in Seq(CommandTo(n))
  BY DEF Sound
<1>2. commands'[n] = commands[n] \o <<>>
  BY DEF SchedTurned, NothingSent
<1> DEFINE S == CommandTo(n)
<1> HIDE DEF S
<1>3. \A s \in Seq(S) : s \o <<>> = s
  OBVIOUS
<1> QED BY <1>1, <1>2, <1>3 DEF S

\* the types after a step of the scheduler
LEMMA SoundSched ==
  ASSUME Sound, NEW h, SchedTurned(h), \A n \in Gnbs : h.out[n] \in Seq(CommandTo(n)),
         UNCHANGED <<hasScheduler, server, carried, toMac, fromMac>>,
         DOMAIN reports' = Gnbs, \A n \in Gnbs : reports'[n] \in Seq(StatusOf(n))
  PROVE  Sound'
<1>1. \A n \in Gnbs : commands'[n] \in Seq(CommandTo(n))
  <2> SUFFICES ASSUME NEW n \in Gnbs PROVE commands'[n] \in Seq(CommandTo(n))
    OBVIOUS
  <2>1. commands[n] \in Seq(CommandTo(n)) /\ commands'[n] = commands[n] \o h.out[n]
    BY DEF Sound, SchedTurned
  <2> QED BY <2>1, HasConcat
<1> QED BY <1>1 DEF Sound, SchedTurned

\* a request of a vehicle
LEMMA RequestFields ==
  ASSUME NEW s, SchedOk(s), NEW a \in Apps
  PROVE  LET h == RecordVehRequest(s, a)
         IN  /\ SchedOk(h) /\ h.out = s.out
             /\ h.appsWaitInitFb = s.appsWaitInitFb /\ h.allocatedApps = s.allocatedApps
             /\ h.appsWaitStopFb = s.appsWaitStopFb
             /\ h.srvInInitiating = s.srvInInitiating /\ h.runningService = s.runningService
             /\ h.cmpUnits = s.cmpUnits /\ h.preSchedCheck = s.preSchedCheck
             /\ h.schedComplete = s.schedComplete
<1> DEFINE h == RecordVehRequest(s, a)
<1>1. CASE a \in s.appInfo \cup s.blank
  BY <1>1 DEF RecordVehRequest
<1>2. CASE a \notin s.appInfo \cup s.blank
  <2>1. s \in SchedRecord
    BY DEF SchedOk
  <2>2. h = [s EXCEPT !.appInfo = @ \cup {a}, !.vehApps = @ \cup {a},
                      !.unscheduledApps = @ \cup {a}]
    BY <1>2 DEF RecordVehRequest
  <2> HIDE DEF h
  <2>3. /\ h \in SchedRecord
        /\ h.appInfo = s.appInfo \cup {a} /\ h.vehApps = s.vehApps \cup {a}
        /\ h.unscheduledApps = s.unscheduledApps \cup {a} /\ h.blank = s.blank
        /\ h.out = s.out /\ h.vecSchedule = s.vecSchedule
        /\ h.appsWaitInitFb = s.appsWaitInitFb /\ h.allocatedApps = s.allocatedApps
        /\ h.appsWaitStopFb = s.appsWaitStopFb
        /\ h.srvInInitiating = s.srvInInitiating /\ h.runningService = s.runningService
        /\ h.cmpUnits = s.cmpUnits /\ h.preSchedCheck = s.preSchedCheck
        /\ h.schedComplete = s.schedComplete
    BY <2>1, <2>2, Zenon DEF SchedRecord
  <2>4. OnePlace(h)
    BY <2>3, <1>2 DEF SchedOk, OnePlace
  <2>5. Planned(h)
    BY <2>3 DEF SchedOk, Planned
  <2>6. \A b \in Served(h) : Instance(h, b) \in ServiceInstance /\ Instance(h, b).app = b
    BY <2>3 DEF SchedOk, Served, Instance
  <2> QED BY <2>3, <2>4, <2>5, <2>6 DEF SchedOk, h
<1> QED BY <1>1, <1>2

\* the status of a gNB
LEMMA RsuStatusFields ==
  ASSUME NEW s, SchedOk(s), NEW fd \in RsuFD, fd.gnb \in Gnbs
  PROVE  LET h == RecordRsuStatus(s, fd)
         IN  /\ SchedOk(h) /\ h.out = s.out
             /\ h.appsWaitInitFb = s.appsWaitInitFb /\ h.allocatedApps = s.allocatedApps
             /\ h.appsWaitStopFb = s.appsWaitStopFb
             /\ h.srvInInitiating = s.srvInInitiating /\ h.runningService = s.runningService
             /\ h.cmpUnits = [s.cmpUnits EXCEPT ![fd.gnb] = fd.freeCmpUnits]
             /\ h.preSchedCheck = s.preSchedCheck /\ h.schedComplete = s.schedComplete
<1> DEFINE g     == fd.gnb
           first == [s EXCEPT !.rsuStatus = @ \cup {g},
                              !.rsuOnholdRbs[g] = 0, !.rsuOnholdCus[g] = 0]
           known == IF g \in s.rsuStatus THEN s ELSE first
           dated == [known EXCEPT !.cmpUnits[g] = fd.freeCmpUnits]
           h == RecordRsuStatus(s, fd)
<1>1. s \in SchedRecord /\ fd.freeCmpUnits \in Int /\ fd.veh \in Ues \cup {NoUe} /\ g \in Gnbs
  BY DEF SchedOk, RsuFD
<1>2. h = IF fd.veh = NoUe THEN dated ELSE [dated EXCEPT !.vehAccessRsu[fd.veh] = @ \cup {g}]
  BY DEF RecordRsuStatus
<1> HIDE DEF h, g
<1>3. /\ first \in SchedRecord
      /\ first.appInfo = s.appInfo /\ first.vehApps = s.vehApps /\ first.blank = s.blank
      /\ first.unscheduledApps = s.unscheduledApps
      /\ first.out = s.out /\ first.vecSchedule = s.vecSchedule
      /\ first.appsWaitInitFb = s.appsWaitInitFb /\ first.allocatedApps = s.allocatedApps
      /\ first.appsWaitStopFb = s.appsWaitStopFb
      /\ first.srvInInitiating = s.srvInInitiating /\ first.runningService = s.runningService
      /\ first.cmpUnits = s.cmpUnits /\ first.preSchedCheck = s.preSchedCheck
      /\ first.schedComplete = s.schedComplete
  BY <1>1 DEF SchedRecord
<1> HIDE DEF first
<1>4. /\ known \in SchedRecord
      /\ known.appInfo = s.appInfo /\ known.vehApps = s.vehApps /\ known.blank = s.blank
      /\ known.unscheduledApps = s.unscheduledApps
      /\ known.out = s.out /\ known.vecSchedule = s.vecSchedule
      /\ known.appsWaitInitFb = s.appsWaitInitFb /\ known.allocatedApps = s.allocatedApps
      /\ known.appsWaitStopFb = s.appsWaitStopFb
      /\ known.srvInInitiating = s.srvInInitiating /\ known.runningService = s.runningService
      /\ known.cmpUnits = s.cmpUnits /\ known.preSchedCheck = s.preSchedCheck
      /\ known.schedComplete = s.schedComplete
  BY <1>1, <1>3
<1> HIDE DEF known
<1>5. /\ dated \in SchedRecord
      /\ dated.appInfo = s.appInfo /\ dated.vehApps = s.vehApps /\ dated.blank = s.blank
      /\ dated.unscheduledApps = s.unscheduledApps
      /\ dated.out = s.out /\ dated.vecSchedule = s.vecSchedule
      /\ dated.appsWaitInitFb = s.appsWaitInitFb /\ dated.allocatedApps = s.allocatedApps
      /\ dated.appsWaitStopFb = s.appsWaitStopFb
      /\ dated.srvInInitiating = s.srvInInitiating /\ dated.runningService = s.runningService
      /\ dated.cmpUnits = [s.cmpUnits EXCEPT ![g] = fd.freeCmpUnits]
      /\ dated.preSchedCheck = s.preSchedCheck /\ dated.schedComplete = s.schedComplete
  BY <1>1, <1>4 DEF SchedRecord
<1> HIDE DEF dated
<1>6. /\ h \in SchedRecord
      /\ h.appInfo = s.appInfo /\ h.vehApps = s.vehApps /\ h.blank = s.blank
      /\ h.unscheduledApps = s.unscheduledApps
      /\ h.out = s.out /\ h.vecSchedule = s.vecSchedule
      /\ h.appsWaitInitFb = s.appsWaitInitFb /\ h.allocatedApps = s.allocatedApps
      /\ h.appsWaitStopFb = s.appsWaitStopFb
      /\ h.srvInInitiating = s.srvInInitiating /\ h.runningService = s.runningService
      /\ h.cmpUnits = [s.cmpUnits EXCEPT ![g] = fd.freeCmpUnits]
      /\ h.preSchedCheck = s.preSchedCheck /\ h.schedComplete = s.schedComplete
  <2>1. CASE fd.veh = NoUe
    BY <1>2, <1>5, <2>1
  <2>2. CASE fd.veh # NoUe
    <3> DEFINE table == [dated.vehAccessRsu EXCEPT ![fd.veh] = @ \cup {g}]
    <3>1. dated.vehAccessRsu \in [Ues -> SUBSET Gnbs] /\ fd.veh \in Ues
      BY <1>1, <1>5, <2>2 DEF SchedRecord
    <3>2. table \in [Ues -> SUBSET Gnbs]
      BY <1>1, <3>1
    <3>3. h = [dated EXCEPT !.vehAccessRsu = table]
      BY <1>2, <1>5, <2>2 DEF SchedRecord
    <3> HIDE DEF table
    <3> QED BY <1>5, <3>2, <3>3 DEF SchedRecord
  <2> QED BY <2>1, <2>2
<1>7. SchedOk(h)
  BY <1>6 DEF SchedOk, OnePlace, Planned, Served, Instance
<1> QED BY <1>6, <1>7 DEF h, g

\* a handler that sends nothing and leaves the services as they are
SameBooks(h) ==
    /\ h.out = NothingSent
    /\ h.appsWaitInitFb = sched.appsWaitInitFb /\ h.allocatedApps = sched.allocatedApps
    /\ h.appsWaitStopFb = sched.appsWaitStopFb
    /\ h.srvInInitiating = sched.srvInInitiating /\ h.runningService = sched.runningService
    /\ h.preSchedCheck = sched.preSchedCheck /\ h.schedComplete = sched.schedComplete

\* it keeps the invariant, if the report it took leaves the counts right
LEMMA BooksKept ==
  ASSUME IInv, NEW h, SchedTurned(h), SameBooks(h),
         UNCHANGED <<hasScheduler, server, carried, toMac, fromMac>>,
         DOMAIN reports' = Gnbs, \A n \in Gnbs : reports'[n] \in Seq(StatusOf(n)),
         \A a \in Apps : \A n \in Gnbs : Kept(reports[n], reports'[n], About(a)),
         \A n \in Gnbs : Counts(n)'
  PROVE  IInv'
<1>1. Sound
  BY DEF IInv
<1>2. \A n \in Gnbs : commands'[n] = commands[n]
  BY <1>1, NothingAdded DEF SameBooks
<1>3. \A n \in Gnbs : h.out[n] \in Seq(CommandTo(n))
  <2> SUFFICES ASSUME NEW n \in Gnbs PROVE h.out[n] \in Seq(CommandTo(n))
    OBVIOUS
  <2> DEFINE S == CommandTo(n)
  <2> HIDE DEF S
  <2>1. <<>> \in Seq(S)
    OBVIOUS
  <2> QED BY <2>1 DEF SameBooks, NothingSent, S
<1>4. Sound'
  BY <1>1, <1>3, SoundSched
<1>5. ASSUME NEW a \in Apps PROVE Life(a)'
  <2>1. SameApp(a)
    BY <1>2, KeptSame DEF SameApp, SchedTurned, SameBooks, Instance
  <2>2. Life(a)
    BY DEF IInv
  <2> QED BY <1>1, <2>1, <2>2, LifeKept
<1>6. Stops'
  BY <1>2 DEF IInv, Stops, SchedTurned, SameBooks
<1>7. Phase'
  BY <1>2 DEF IInv, Phase, AllFound, SchedTurned, SameBooks
<1> QED BY <1>4, <1>5, <1>6, <1>7 DEF IInv

\* a request changes nothing for the services
LEMMA ReceiveRequestKeeps ==
  ASSUME IInv, NEW a \in Apps, ReceiveRequest(a)
  PROVE  IInv'
<1> DEFINE h == RecordVehRequest(sched, a)
<1>1. Sound /\ SchedOk(sched) /\ sched.out = NothingSent
  BY DEF IInv, Sound
<1>2. /\ SchedOk(h) /\ h.out = sched.out
      /\ h.appsWaitInitFb = sched.appsWaitInitFb /\ h.allocatedApps = sched.allocatedApps
      /\ h.appsWaitStopFb = sched.appsWaitStopFb
      /\ h.srvInInitiating = sched.srvInInitiating /\ h.runningService = sched.runningService
      /\ h.cmpUnits = sched.cmpUnits /\ h.preSchedCheck = sched.preSchedCheck
      /\ h.schedComplete = sched.schedComplete
  BY <1>1, RequestFields
<1>3. /\ PerformScheduler(h)
      /\ UNCHANGED <<hasScheduler, server, carried, toMac, fromMac, reports>>
  BY DEF ReceiveRequest
<1> HIDE DEF h
<1>4. SchedTurned(h)
  BY <1>2, <1>3, SchedPerforms
<1>5. SameBooks(h)
  BY <1>1, <1>2 DEF SameBooks
<1>6. DOMAIN reports' = Gnbs /\ \A n \in Gnbs : reports'[n] \in Seq(StatusOf(n))
  BY <1>1, <1>3 DEF Sound
<1>7. \A n \in Gnbs : Counts(n)'
  BY <1>2, <1>3, <1>4 DEF IInv, Counts, AllFound, SchedTurned
<1>8. \A b \in Apps : \A n \in Gnbs : Kept(reports[n], reports'[n], About(b))
  BY <1>3, KeptSame
<1> QED BY <1>3, <1>4, <1>5, <1>6, <1>7, <1>8, BooksKept

\* the scheduler takes a message of a server
LEMMA StatusTaken ==
  ASSUME Sound, NEW n \in Gnbs, reports[n] # <<>>, reports' = [reports EXCEPT ![n] = Tail(@)]
  PROVE  LET msg == Head(reports[n])
         IN  /\ msg \in StatusOf(n) /\ DOMAIN reports' = Gnbs
             /\ \A x \in Gnbs : reports'[x] \in Seq(StatusOf(x))
             /\ \A x \in Gnbs : x # n => reports'[x] = reports[x]
             /\ \A x \in Gnbs : \A M : Has(reports[x], M) <=>
                   Has(reports'[x], M) \/ (x = n /\ msg \in M)
             /\ \A x \in Gnbs : \A E, T : Ending(reports[x], E, T) =>
                   /\ Ending(reports'[x], E, T)
                   /\ x = n /\ msg \in E => ~Has(reports'[x], T)
             /\ \A b : (msg.type = "SrvFD" => b # msg.app) =>
                   \A x \in Gnbs : Kept(reports[x], reports'[x], About(b))
             /\ \A f : Counted(reports[n], f) =>
                   /\ Counted(reports'[n], f)
                   /\ NoAnswerBehind(reports'[n], 0) => Units(msg) = f
<1> DEFINE msg == Head(reports[n])
<1>1. /\ DOMAIN reports = Gnbs /\ \A x \in Gnbs : reports[x] \in Seq(StatusOf(x))
  BY DEF Sound
<1>2. /\ reports'[n] = Tail(reports[n]) /\ \A x \in Gnbs : x # n => reports'[x] = reports[x]
      /\ DOMAIN reports' = Gnbs
  BY <1>1
<1>3. /\ msg \in StatusOf(n) /\ Tail(reports[n]) \in Seq(StatusOf(n))
      /\ \A M : Has(reports[n], M) <=> msg \in M \/ Has(Tail(reports[n]), M)
      /\ \A E, T : Ending(reports[n], E, T) =>
            Ending(Tail(reports[n]), E, T) /\ (msg \in E => ~Has(Tail(reports[n]), T))
  BY <1>1, HasTail
<1>4. ASSUME NEW b, msg.type = "SrvFD" => b # msg.app, NEW x \in Gnbs
      PROVE  Kept(reports[x], reports'[x], About(b))
  <2>1. CASE x = n
    <3>1. msg \notin About(b)
      BY <1>3, <1>4, AnswerKinds
    <3> QED BY <1>1, <1>2, <2>1, <3>1, KeptTail
  <2>2. CASE x # n
    BY <1>2, <2>2, KeptSame
  <2> QED BY <2>1, <2>2
<1>5. ASSUME NEW f, Counted(reports[n], f)
      PROVE  Counted(reports'[n], f) /\ (NoAnswerBehind(reports'[n], 0) => Units(msg) = f)
  BY <1>1, <1>2, <1>5, CountedTail
<1> HIDE DEF msg
<1>6. \A x \in Gnbs : reports'[x] \in Seq(StatusOf(x))
  BY <1>1, <1>2, <1>3
<1>7. \A x \in Gnbs : \A M : Has(reports[x], M) <=> Has(reports'[x], M) \/ (x = n /\ msg \in M)
  BY <1>2, <1>3
<1>8. \A x \in Gnbs : \A E, T : Ending(reports[x], E, T) =>
         /\ Ending(reports'[x], E, T)
         /\ x = n /\ msg \in E => ~Has(reports'[x], T)
  BY <1>2, <1>3
<1> QED BY <1>2, <1>3, <1>4, <1>5, <1>6, <1>7, <1>8 DEF msg

\* a status of a gNB changes the units that are known
LEMMA StatusHeard ==
  ASSUME IInv, NEW n \in Gnbs, NEW msg, msg = Head(reports[n]), msg.type = "RsuFD",
         ReceiveReport(n)
  PROVE  IInv'
<1> DEFINE h == RecordRsuStatus(sched, msg)
<1>1. Sound /\ SchedOk(sched) /\ sched.out = NothingSent
  BY DEF IInv, Sound
<1>2. /\ reports[n] # <<>> /\ reports' = [reports EXCEPT ![n] = Tail(@)] /\ PerformScheduler(h)
      /\ UNCHANGED <<hasScheduler, server, carried, toMac, fromMac>>
  BY DEF ReceiveReport
<1>3. /\ msg \in StatusOf(n) /\ DOMAIN reports' = Gnbs
      /\ \A x \in Gnbs : reports'[x] \in Seq(StatusOf(x))
      /\ \A x \in Gnbs : x # n => reports'[x] = reports[x]
      /\ \A b : \A x \in Gnbs : Kept(reports[x], reports'[x], About(b))
      /\ \A f : Counted(reports[n], f) =>
            /\ Counted(reports'[n], f)
            /\ NoAnswerBehind(reports'[n], 0) => Units(msg) = f
  BY <1>1, <1>2, StatusTaken
<1>4. msg \in RsuFD /\ msg.gnb = n /\ msg.freeCmpUnits \in Int
  BY <1>3, AnswerKinds
<1>5. /\ SchedOk(h) /\ h.out = sched.out
      /\ h.appsWaitInitFb = sched.appsWaitInitFb /\ h.allocatedApps = sched.allocatedApps
      /\ h.appsWaitStopFb = sched.appsWaitStopFb
      /\ h.srvInInitiating = sched.srvInInitiating /\ h.runningService = sched.runningService
      /\ h.cmpUnits = [sched.cmpUnits EXCEPT ![n] = msg.freeCmpUnits]
      /\ h.preSchedCheck = sched.preSchedCheck /\ h.schedComplete = sched.schedComplete
  BY <1>1, <1>4, RsuStatusFields
<1> HIDE DEF h
<1>6. SchedTurned(h)
  BY <1>2, <1>5, SchedPerforms
<1>7. SameBooks(h)
  BY <1>1, <1>5 DEF SameBooks
<1>8. ASSUME NEW m \in Gnbs PROVE Counts(m)'
  <2>1. sched.cmpUnits \in [Gnbs -> Int]
    BY <1>1 DEF SchedOk, SchedRecord
  <2>2. sched'.cmpUnits[m] = IF m = n THEN msg.freeCmpUnits ELSE sched.cmpUnits[m]
    BY <2>1, <1>5, <1>6 DEF SchedTurned
  <2>3. Counts(m)
    BY DEF IInv
  <2>4. Units(msg) = msg.freeCmpUnits
    BY DEF Units
  <2>5. CASE m = n
    BY <1>2, <1>3, <2>2, <2>3, <2>4, <2>5 DEF Counts, AllFound
  <2>6. CASE m # n
    BY <1>2, <1>3, <2>2, <2>3, <2>6 DEF Counts, AllFound
  <2> QED BY <2>5, <2>6
<1>9. \A a \in Apps : \A x \in Gnbs : Kept(reports[x], reports'[x], About(a))
  BY <1>3
<1> QED BY <1>2, <1>3, <1>6, <1>7, <1>8, <1>9, BooksKept

\* what an answer about a service the scheduler has leaves of it
Settled(s, h, fd) ==
    /\ h.cmpUnits = [s.cmpUnits EXCEPT ![fd.processGnb] = fd.availCmpUnit]
    /\ h.appsWaitInitFb = s.appsWaitInitFb \ {fd.app}
    /\ h.allocatedApps = IF fd.success THEN s.allocatedApps \cup {fd.app}
                         ELSE s.allocatedApps \ {fd.app}
    /\ h.appsWaitStopFb \subseteq s.appsWaitStopFb
    /\ \A b \in Apps : b # fd.app => /\ h.srvInInitiating[b] = s.srvInInitiating[b]
                                     /\ h.runningService[b] = s.runningService[b]
    /\ fd.success => /\ h.runningService[fd.app] \in ServiceInstance
                     /\ h.runningService[fd.app].app = fd.app
                     /\ h.runningService[fd.app].processGnb = Instance(s, fd.app).processGnb
                     /\ h.runningService[fd.app].offloadGnb = Instance(s, fd.app).offloadGnb
    /\ h.unscheduledApps = IF fd.success THEN s.unscheduledApps ELSE s.unscheduledApps \cup {fd.app}
    /\ h.rsuStatus = s.rsuStatus
    /\ IF fd.app \in s.appsWaitInitFb
       THEN LET srv == s.srvInInitiating[fd.app]
            IN  /\ h.rsuOnholdRbs =
                      [s.rsuOnholdRbs EXCEPT ![fd.offloadGnb] = Greatest(@ - srv.bands, 0)]
                /\ h.rsuOnholdCus =
                      [s.rsuOnholdCus EXCEPT ![fd.processGnb] = Greatest(@ - srv.cmpUnits, 0)]
       ELSE /\ h.rsuOnholdRbs = s.rsuOnholdRbs /\ h.rsuOnholdCus = s.rsuOnholdCus
            /\ h.srvInInitiating = s.srvInInitiating

\* what no answer changes
SameRequests(s, h) ==
    /\ h.appInfo = s.appInfo /\ h.vehApps = s.vehApps /\ h.blank = s.blank
    /\ h.out = s.out /\ h.vecSchedule = s.vecSchedule
    /\ h.preSchedCheck = s.preSchedCheck /\ h.schedComplete = s.schedComplete

\* the answer to a start
LEMMA InitFeedbackFields ==
  ASSUME NEW s \in SchedRecord, NEW fd \in SrvFD, fd.app \in s.appsWaitInitFb,
         fd.app \notin s.allocatedApps, s.srvInInitiating[fd.app] \in ServiceInstance,
         s.srvInInitiating[fd.app].app = fd.app
  PROVE  LET news == [s EXCEPT !.cmpUnits[fd.processGnb] = fd.availCmpUnit]
             h    == InitFeedback(news, fd)
         IN  h \in SchedRecord /\ Settled(s, h, fd) /\ SameRequests(s, h)
<1> DEFINE a     == fd.app
           srv   == s.srvInInitiating[a]
           units == [s.cmpUnits EXCEPT ![fd.processGnb] = fd.availCmpUnit]
           news  == [s EXCEPT !.cmpUnits[fd.processGnb] = fd.availCmpUnit]
           rbs   == [s.rsuOnholdRbs EXCEPT ![fd.offloadGnb] = Greatest(@ - srv.bands, 0)]
           cus   == [s.rsuOnholdCus EXCEPT ![fd.processGnb] = Greatest(@ - srv.cmpUnits, 0)]
           inits == [s.srvInInitiating EXCEPT ![a] = NoInstance]
           runs  == [s.runningService EXCEPT ![a] = srv]
           ended == [news EXCEPT !.rsuOnholdRbs = rbs, !.rsuOnholdCus = cus,
                                 !.appsWaitInitFb = @ \ {a}, !.srvInInitiating = inits]
           h     == InitFeedback(news, fd)
<1>1. /\ a \in Apps /\ fd.processGnb \in Gnbs /\ fd.offloadGnb \in Gnbs
      /\ fd.availCmpUnit \in Int /\ fd.success \in BOOLEAN
  BY DEF SrvFD, Refusal, Answer
<1>2. srv.bands \in Nat /\ srv.cmpUnits \in Nat
  BY DEF ServiceInstance
<1>3. units \in [Gnbs -> Int] /\ news = [s EXCEPT !.cmpUnits = units]
  BY <1>1 DEF SchedRecord
<1>4. rbs \in [Gnbs -> Nat] /\ cus \in [Gnbs -> Nat]
  <2>1. s.rsuOnholdRbs \in [Gnbs -> Nat] /\ s.rsuOnholdCus \in [Gnbs -> Nat]
    BY DEF SchedRecord
  <2>2. \A x, y \in Nat : Greatest(x - y, 0) \in Nat
    BY DEF Greatest
  <2> HIDE DEF srv
  <2> QED BY <1>1, <1>2, <2>1, <2>2
<1>5. /\ inits \in [Apps -> ServiceInstance \cup {NoInstance}]
      /\ runs \in [Apps -> ServiceInstance \cup {NoInstance}]
      /\ runs[a] = srv /\ \A b \in Apps : b # a => runs[b] = s.runningService[b]
      /\ \A b \in Apps : b # a => inits[b] = s.srvInInitiating[b]
  <2> HIDE DEF inits, runs, srv
  <2>1. /\ s.srvInInitiating \in [Apps -> ServiceInstance \cup {NoInstance}]
        /\ s.runningService \in [Apps -> ServiceInstance \cup {NoInstance}]
        /\ srv \in ServiceInstance
    BY DEF SchedRecord, srv
  <2> HIDE DEF a
  <2> QED BY <1>1, <2>1 DEF inits, runs
<1>6. /\ news \in SchedRecord /\ news.srvInInitiating = s.srvInInitiating
      /\ news.runningService = s.runningService
      /\ news.appsWaitInitFb = s.appsWaitInitFb /\ news.allocatedApps = s.allocatedApps
      /\ news.appsWaitStopFb = s.appsWaitStopFb /\ news.rsuOnholdRbs = s.rsuOnholdRbs
      /\ news.rsuOnholdCus = s.rsuOnholdCus /\ news.unscheduledApps = s.unscheduledApps
      /\ news.cmpUnits = units /\ news.rsuStatus = s.rsuStatus /\ SameRequests(s, news)
  <2> HIDE DEF units, news
  <2> QED BY <1>3 DEF SchedRecord, SameRequests
<1>7. h = IF fd.success
          THEN [ended EXCEPT !.allocatedApps = @ \cup {a}, !.runningService = runs]
          ELSE [ended EXCEPT !.unscheduledApps = @ \cup {a}]
  <2> HIDE DEF units, news
  <2>1. ended = [news EXCEPT !.rsuOnholdRbs[fd.offloadGnb] = Greatest(@ - srv.bands, 0),
                    !.rsuOnholdCus[fd.processGnb] = Greatest(@ - srv.cmpUnits, 0),
                    !.appsWaitInitFb = @ \ {a}, !.srvInInitiating[a] = NoInstance]
    BY <1>6 DEF SchedRecord
  <2>2. ended.runningService = s.runningService
    BY <1>6 DEF SchedRecord
  <2>4. news.srvInInitiating[fd.app] = srv
    BY <1>6
  <2> HIDE DEF ended, srv
  <2>5. h = IF fd.success
            THEN [ended EXCEPT !.allocatedApps = @ \cup {a}, !.runningService[a] = srv]
            ELSE [ended EXCEPT !.unscheduledApps = @ \cup {a}]
    BY <2>1, <2>4 DEF InitFeedback
  <2> QED BY <2>2, <2>5
<1> HIDE DEF units, news, rbs, cus, inits, runs, srv, h
<1>8. /\ ended \in SchedRecord
      /\ ended.srvInInitiating = inits /\ ended.runningService = s.runningService
      /\ ended.appsWaitInitFb = s.appsWaitInitFb \ {a} /\ ended.allocatedApps = s.allocatedApps
      /\ ended.appsWaitStopFb = s.appsWaitStopFb /\ ended.unscheduledApps = s.unscheduledApps
      /\ ended.rsuOnholdRbs = rbs /\ ended.rsuOnholdCus = cus
      /\ ended.rsuStatus = s.rsuStatus /\ ended.cmpUnits = units /\ SameRequests(s, ended)
  BY <1>4, <1>5, <1>6 DEF SchedRecord, SameRequests
<1> HIDE DEF ended
<1>9. CASE fd.success
  <2>1. h = [ended EXCEPT !.allocatedApps = @ \cup {a}, !.runningService = runs]
    BY <1>7, <1>9
  <2>2. /\ h \in SchedRecord
        /\ h.srvInInitiating = inits /\ h.runningService = runs
        /\ h.appsWaitInitFb = s.appsWaitInitFb \ {a}
        /\ h.allocatedApps = s.allocatedApps \cup {a}
        /\ h.appsWaitStopFb = s.appsWaitStopFb /\ h.unscheduledApps = s.unscheduledApps
        /\ h.rsuOnholdRbs = rbs /\ h.rsuOnholdCus = cus /\ h.rsuStatus = s.rsuStatus
        /\ h.cmpUnits = units /\ SameRequests(s, h)
    BY <1>1, <1>5, <1>8, <2>1, Zenon DEF SchedRecord, SameRequests
  <2>3. Settled(s, h, fd)
    BY <2>2, <1>5, <1>9 DEF Settled, units, Instance, srv, rbs, cus
  <2> QED BY <2>2, <2>3 DEF h, news
<1>10. CASE ~fd.success
  <2>1. h = [ended EXCEPT !.unscheduledApps = @ \cup {a}]
    BY <1>7, <1>10
  <2>2. /\ h \in SchedRecord
        /\ h.srvInInitiating = inits /\ h.runningService = s.runningService
        /\ h.appsWaitInitFb = s.appsWaitInitFb \ {a}
        /\ h.allocatedApps = s.allocatedApps
        /\ h.appsWaitStopFb = s.appsWaitStopFb
        /\ h.unscheduledApps = s.unscheduledApps \cup {a}
        /\ h.rsuOnholdRbs = rbs /\ h.rsuOnholdCus = cus /\ h.rsuStatus = s.rsuStatus
        /\ h.cmpUnits = units /\ SameRequests(s, h)
    BY <1>1, <1>5, <1>8, <2>1, Zenon DEF SchedRecord, SameRequests
  <2>3. s.allocatedApps = s.allocatedApps \ {a}
    OBVIOUS
  <2>4. Settled(s, h, fd)
    BY <2>2, <2>3, <1>5, <1>10 DEF Settled, units, srv, rbs, cus
  <2> QED BY <2>2, <2>4 DEF h, news
<1> QED BY <1>9, <1>10, <1>1

\* an adjustment or the end of a service
LEMMA AdjustFeedbackFields ==
  ASSUME NEW s \in SchedRecord, NEW fd \in SrvFD, fd.app \in s.allocatedApps,
         fd.app \notin s.appsWaitInitFb, s.runningService[fd.app] \in ServiceInstance,
         s.runningService[fd.app].app = fd.app, fd.success => fd.grantedBand = 0
  PROVE  LET news == [s EXCEPT !.cmpUnits[fd.processGnb] = fd.availCmpUnit]
             h    == AdjustFeedback(news, fd)
         IN  h \in SchedRecord /\ Settled(s, h, fd) /\ SameRequests(s, h)
<1> DEFINE a     == fd.app
           srv   == s.runningService[a]
           moved == [srv EXCEPT !.bands = fd.grantedBand]
           units == [s.cmpUnits EXCEPT ![fd.processGnb] = fd.availCmpUnit]
           news  == [s EXCEPT !.cmpUnits[fd.processGnb] = fd.availCmpUnit]
           none  == [s.runningService EXCEPT ![a] = NoInstance]
           runs  == [s.runningService EXCEPT ![a] = moved]
           h     == AdjustFeedback(news, fd)
<1>1. /\ a \in Apps /\ fd.processGnb \in Gnbs /\ fd.offloadGnb \in Gnbs
      /\ fd.availCmpUnit \in Int /\ fd.success \in BOOLEAN
  BY DEF SrvFD, Refusal, Answer
<1>2. fd.success => /\ moved \in ServiceInstance /\ moved.app = a
                    /\ moved.processGnb = srv.processGnb /\ moved.offloadGnb = srv.offloadGnb
  BY DEF ServiceInstance
<1>3. units \in [Gnbs -> Int] /\ news = [s EXCEPT !.cmpUnits = units]
  BY <1>1 DEF SchedRecord
<1>5. /\ none \in [Apps -> ServiceInstance \cup {NoInstance}]
      /\ fd.success => runs \in [Apps -> ServiceInstance \cup {NoInstance}]
      /\ runs[a] = moved /\ \A b \in Apps : b # a => runs[b] = s.runningService[b]
      /\ \A b \in Apps : b # a => none[b] = s.runningService[b]
  <2>1. s.runningService \in [Apps -> ServiceInstance \cup {NoInstance}]
    BY DEF SchedRecord
  <2> HIDE DEF none, runs, srv, moved, a
  <2> QED BY <1>1, <1>2, <2>1 DEF none, runs
<1>6. /\ news \in SchedRecord /\ news.srvInInitiating = s.srvInInitiating
      /\ news.runningService = s.runningService
      /\ news.appsWaitInitFb = s.appsWaitInitFb /\ news.allocatedApps = s.allocatedApps
      /\ news.appsWaitStopFb = s.appsWaitStopFb /\ news.unscheduledApps = s.unscheduledApps
      /\ news.rsuOnholdRbs = s.rsuOnholdRbs /\ news.rsuOnholdCus = s.rsuOnholdCus
      /\ news.rsuStatus = s.rsuStatus /\ news.cmpUnits = units /\ SameRequests(s, news)
  <2> HIDE DEF units, news
  <2> QED BY <1>3 DEF SchedRecord, SameRequests
<1>7. s.appsWaitInitFb = s.appsWaitInitFb \ {a} /\ s.allocatedApps = s.allocatedApps \cup {a}
  OBVIOUS
<1>9. CASE fd.success
  <2>1. h = [news EXCEPT !.runningService = runs]
    <3> HIDE DEF units, news
    <3>1. h = [news EXCEPT !.runningService[a].bands = fd.grantedBand]
      BY <1>9 DEF AdjustFeedback
    <3> QED BY <3>1, <1>6 DEF SchedRecord
  <2> HIDE DEF units, news, none, runs, srv, moved, h
  <2>2. /\ h \in SchedRecord
        /\ h.srvInInitiating = s.srvInInitiating /\ h.runningService = runs
        /\ h.appsWaitInitFb = s.appsWaitInitFb /\ h.allocatedApps = s.allocatedApps
        /\ h.appsWaitStopFb = s.appsWaitStopFb /\ h.unscheduledApps = s.unscheduledApps
        /\ h.rsuOnholdRbs = s.rsuOnholdRbs /\ h.rsuOnholdCus = s.rsuOnholdCus
        /\ h.rsuStatus = s.rsuStatus /\ h.cmpUnits = units /\ SameRequests(s, h)
    BY <1>5, <1>6, <1>9, <2>1 DEF SchedRecord, SameRequests
  <2>3. Settled(s, h, fd)
    BY <2>2, <1>2, <1>5, <1>7, <1>9 DEF Settled, units, Instance, srv
  <2> QED BY <2>2, <2>3 DEF h, news
<1>10. CASE ~fd.success
  <2>1. h = [news EXCEPT !.appsWaitStopFb = @ \ {a}, !.allocatedApps = @ \ {a},
                         !.runningService = none, !.unscheduledApps = @ \cup {a}]
    <3> HIDE DEF units, news
    <3>1. h = [news EXCEPT !.appsWaitStopFb = @ \ {a}, !.allocatedApps = @ \ {a},
                           !.runningService[a] = NoInstance, !.unscheduledApps = @ \cup {a}]
      BY <1>10 DEF AdjustFeedback
    <3> QED BY <3>1, <1>6 DEF SchedRecord
  <2> HIDE DEF units, news, none, runs, srv, moved, h
  <2>2. /\ h \in SchedRecord
        /\ h.srvInInitiating = s.srvInInitiating /\ h.runningService = none
        /\ h.appsWaitInitFb = s.appsWaitInitFb
        /\ h.allocatedApps = s.allocatedApps \ {a}
        /\ h.appsWaitStopFb = s.appsWaitStopFb \ {a}
        /\ h.unscheduledApps = s.unscheduledApps \cup {a}
        /\ h.rsuOnholdRbs = s.rsuOnholdRbs /\ h.rsuOnholdCus = s.rsuOnholdCus
        /\ h.rsuStatus = s.rsuStatus /\ h.cmpUnits = units /\ SameRequests(s, h)
    BY <1>1, <1>5, <1>6, <2>1, ZenonT(60) DEF SchedRecord, SameRequests
  <2>3. Settled(s, h, fd)
    BY <2>2, <1>5, <1>7, <1>10 DEF Settled, units
  <2> QED BY <2>2, <2>3 DEF h, news
<1> QED BY <1>9, <1>10, <1>1

\* the scheduler hears of a service it started or runs
LEMMA FeedbackFields ==
  ASSUME NEW s, SchedOk(s), NEW fd \in SrvFD, fd.dated, fd.success => fd.grantedBand = 0
  PROVE  LET h == UpdateRsuSrvStatusFeedback(s, fd)
         IN  /\ fd.app \notin Served(s) => h = s
             /\ fd.app \in Served(s) => SchedOk(h) /\ Settled(s, h, fd) /\ SameRequests(s, h)
<1> DEFINE a == fd.app
           h == UpdateRsuSrvStatusFeedback(s, fd)
           news == [s EXCEPT !.cmpUnits[fd.processGnb] = fd.availCmpUnit]
<1>1. /\ s \in SchedRecord /\ OnePlace(s) /\ Planned(s)
      /\ \A b \in Served(s) : Instance(s, b) \in ServiceInstance /\ Instance(s, b).app = b
      /\ a \in Apps
  BY DEF SchedOk, SrvFD, Refusal, Answer
<1>2. /\ h = IF a \in s.appsWaitInitFb THEN InitFeedback(news, fd)
             ELSE IF a \in s.allocatedApps THEN AdjustFeedback(news, fd)
             ELSE s
  BY DEF UpdateRsuSrvStatusFeedback
<1> HIDE DEF h
<1>3. a \in Served(s) => h \in SchedRecord /\ Settled(s, h, fd) /\ SameRequests(s, h)
  <2>1. CASE a \in s.appsWaitInitFb
    <3>1. a \notin s.allocatedApps /\ s.srvInInitiating[a] \in ServiceInstance
          /\ s.srvInInitiating[a].app = a
      BY <1>1, <2>1 DEF OnePlace, Served, Instance
    <3>2. h = InitFeedback(news, fd)
      BY <1>2, <2>1
    <3> QED BY <1>1, <2>1, <3>1, <3>2, InitFeedbackFields
  <2>2. CASE a \in s.allocatedApps /\ a \notin s.appsWaitInitFb
    <3>1. s.runningService[a] \in ServiceInstance /\ s.runningService[a].app = a
      BY <1>1, <2>2 DEF Served, Instance
    <3>2. h = AdjustFeedback(news, fd)
      BY <1>2, <2>2
    <3> QED BY <1>1, <2>2, <3>1, <3>2, AdjustFeedbackFields
  <2> QED BY <2>1, <2>2 DEF Served
<1>4. a \in Served(s) => SchedOk(h)
  <2> SUFFICES ASSUME a \in Served(s) PROVE SchedOk(h)
    OBVIOUS
  <2>0. h \in SchedRecord /\ Settled(s, h, fd) /\ SameRequests(s, h)
    BY <1>3
  <2>1. OnePlace(h)
    BY <1>1, <2>0 DEF OnePlace, Served, Settled, SameRequests
  <2>2. Planned(h)
    BY <1>1, <2>0 DEF Planned, SameRequests
  <2>3. \A b \in Served(h) : Instance(h, b) \in ServiceInstance /\ Instance(h, b).app = b
    <3> SUFFICES ASSUME NEW b \in Served(h)
                 PROVE  Instance(h, b) \in ServiceInstance /\ Instance(h, b).app = b
      OBVIOUS
    <3>0. b \in Apps
      BY <2>0 DEF Served, SchedRecord
    <3>1. CASE b # a
      <4>1. b \in Served(s) /\ Instance(h, b) = Instance(s, b)
        BY <2>0, <3>0, <3>1 DEF Served, Settled, Instance
      <4> QED BY <4>1, <1>1
    <3>2. CASE b = a
      <4>1. fd.success /\ Instance(h, b) = h.runningService[a]
        BY <2>0, <3>2 DEF Served, Settled, Instance
      <4> QED BY <4>1, <2>0, <3>2 DEF Settled
    <3> QED BY <3>1, <3>2
  <2> QED BY <2>0, <2>1, <2>2, <2>3 DEF SchedOk
<1>5. a \notin Served(s) => h = s
  BY <1>2 DEF Served
<1> QED BY <1>3, <1>4, <1>5 DEF h

\* an answer moves a service in the books
LEMMA AnswerSettled ==
  ASSUME IInv, NEW n \in Gnbs, NEW fd \in SrvFD, fd \in StatusOf(n), NEW a, a = fd.app,
         a \in Served(sched), Has(reports[n], Say(a)), fd \in Say(a), fd \in Refuse(a) <=> ~fd.success,
         fd \in Refuse(a) => Has(reports[n], Refuse(a)),
         NEW h, SchedTurned(h), Settled(sched, h, fd), SameRequests(sched, h), AllFound,
         UNCHANGED <<hasScheduler, server, carried, toMac, fromMac>>,
         \A x \in Gnbs : commands'[x] = commands[x],
         \A x \in Gnbs : \A M : Has(reports[x], M) <=> Has(reports'[x], M) \/ (x = n /\ fd \in M),
         \A x \in Gnbs : \A E, T : Ending(reports[x], E, T) =>
            Ending(reports'[x], E, T) /\ (x = n /\ fd \in E => ~Has(reports'[x], T)),
         fd.success \in BOOLEAN
  PROVE  Booked(a)'
<1>1. Booked(a) /\ a \in Apps
  BY DEF IInv, Life, SrvFD, Refusal, Answer
<1> DEFINE p == Instance(sched, a).processGnb
           o == Instance(sched, a).offloadGnb
<1>2. AnswerBooked(n, a)
  BY <1>1 DEF Booked
<1>3. p = n /\ ~Has(reports[n], SayBut(a, o)) /\ Ending(reports[n], Refuse(a), Say(a))
  BY <1>2 DEF AnswerBooked
<1>4. /\ sched'.appsWaitInitFb = sched.appsWaitInitFb \ {a}
      /\ sched'.allocatedApps = IF fd.success THEN sched.allocatedApps \cup {a}
                                ELSE sched.allocatedApps \ {a}
      /\ sched'.preSchedCheck = sched.preSchedCheck
      /\ fd.success => /\ Instance(sched', a).processGnb = p /\ Instance(sched', a).offloadGnb = o
                       /\ a \in Served(sched') /\ a \in sched'.allocatedApps
      /\ ~fd.success => a \notin Served(sched')
  <2>1. OnePlace(sched)
    BY DEF IInv, Sound, SchedOk
  <2> QED BY <2>1 DEF SchedTurned, Settled, SameRequests, Instance, Served, OnePlace
<1>5. \A m \in Gnbs : ~Has(commands[m], Start(a))
  BY <1>1 DEF Booked, StartBooked
<1> HIDE DEF p, o
<1>6. ASSUME NEW m \in Gnbs PROVE StartBooked(m, a)'
  BY <1>5 DEF StartBooked
<1>7. ASSUME NEW m \in Gnbs, a \in server[m].granted
      PROVE  /\ fd.success /\ a \notin server[m].appsWaitMacInitFb
             /\ a \notin InitializingIn(server[m])
  <2>1. ServiceBooked(m, a)
    BY <1>1, SMTT(60) DEF Booked
  <2>2. m = n
    BY <1>3, <1>7, <2>1, SMTT(60) DEF ServiceBooked, p
  <2> QED BY <1>7, <2>1, <2>2 DEF ServiceBooked
<1>8. ASSUME NEW m \in Gnbs PROVE ServiceBooked(m, a)'
  <2> SUFFICES ASSUME a \in server[m].granted PROVE ServiceBooked(m, a)'
    BY DEF ServiceBooked
  <2>1. ServiceBooked(m, a)
    BY <1>1 DEF Booked
  <2>2. /\ fd.success /\ a \notin server[m].appsWaitMacInitFb
        /\ a \notin InitializingIn(server[m])
    BY <1>7
  <2>3. ~Has(reports'[m], Refuse(a))
    BY <2>1 DEF ServiceBooked
  <2> QED BY <1>4, <2>1, <2>2, <2>3, SMTT(60) DEF ServiceBooked, p, o
<1>9. ASSUME NEW m \in Gnbs PROVE AnswerBooked(m, a)'
  <2> SUFFICES ASSUME Has(reports'[m], Say(a)) PROVE AnswerBooked(m, a)'
    BY DEF AnswerBooked
  <2>1. Has(reports[m], Say(a)) /\ AnswerBooked(m, a)
    BY <1>1 DEF Booked
  <2>2. m = n
    BY <1>3, <2>1 DEF AnswerBooked, p
  <2>3. fd.success
    BY <1>3, <2>2
  <2>4. Ending(reports'[m], Refuse(a), Say(a))
    BY <1>3, <2>2
  <2>5. ~Has(reports'[m], SayBut(a, o))
    BY <1>3, <2>2
  <2> QED BY <1>3, <1>4, <2>2, <2>3, <2>4, <2>5 DEF AnswerBooked
<1>10. Accounted(a)'
  <2> SUFFICES ASSUME fd.success PROVE Accounted(a)'
    BY <1>4 DEF Accounted
  <2>1. Accounted(a)
    BY <1>1 DEF Booked
  <2>2. Has(reports'[p], Refuse(a)) <=> Has(reports[p], Refuse(a))
    BY <1>3
  <2>3. /\ Has(commands[p], Start(a)) \/ a \in server[p].granted \/ Has(reports[p], Refuse(a))
        /\ ~sched.preSchedCheck =>
              \/ Has(commands[p], Stop(a)) \/ Has(toMac[o], End(a))
              \/ Has(fromMac[o][p], Fail(a)) \/ Has(reports[p], Refuse(a))
    BY <2>1 DEF Accounted, p, o
  <2>4. commands'[p] = commands[p]
    BY <1>3
  <2>5. Instance(sched', a).processGnb = p /\ Instance(sched', a).offloadGnb = o
        /\ sched'.preSchedCheck = sched.preSchedCheck
    BY <1>4
  <2> QED BY <2>2, <2>3, <2>4, <2>5 DEF Accounted
<1> QED BY <1>6, <1>8, <1>9, <1>10 DEF Booked

\* an answer of a server
LEMMA AnswerHeard ==
  ASSUME IInv, NEW n \in Gnbs, NEW fd, fd = Head(reports[n]), fd.type = "SrvFD",
         ReceiveReport(n)
  PROVE  IInv'
<1> DEFINE h == UpdateRsuSrvStatusFeedback(sched, fd)
<1>1. Sound /\ SchedOk(sched) /\ sched.out = NothingSent
  BY DEF IInv, Sound
<1>2. /\ reports[n] # <<>> /\ reports' = [reports EXCEPT ![n] = Tail(@)] /\ PerformScheduler(h)
      /\ UNCHANGED <<hasScheduler, server, carried, toMac, fromMac>>
  BY DEF ReceiveReport
<1>3. /\ fd \in StatusOf(n) /\ DOMAIN reports' = Gnbs
      /\ \A x \in Gnbs : reports'[x] \in Seq(StatusOf(x))
      /\ \A x \in Gnbs : x # n => reports'[x] = reports[x]
      /\ \A x \in Gnbs : \A M : Has(reports[x], M) <=> Has(reports'[x], M) \/ (x = n /\ fd \in M)
      /\ \A x \in Gnbs : \A E, T : Ending(reports[x], E, T) =>
            Ending(reports'[x], E, T) /\ (x = n /\ fd \in E => ~Has(reports'[x], T))
      /\ \A b : b # fd.app => \A x \in Gnbs : Kept(reports[x], reports'[x], About(b))
      /\ \A f : Counted(reports[n], f) =>
            /\ Counted(reports'[n], f)
            /\ NoAnswerBehind(reports'[n], 0) => Units(fd) = f
  BY <1>1, <1>2, StatusTaken
<1> DEFINE a == fd.app
<1>4. /\ fd \in SrvFD /\ a \in Apps /\ fd.success \in BOOLEAN /\ fd.processGnb = n
      /\ fd.dated /\ fd.availCmpUnit \in Int /\ fd \in Say(a) /\ (fd \in Refuse(a) <=> ~fd.success)
      /\ fd.success => fd.grantedBand = 0
  BY <1>3, AnswerKinds
<1>5. /\ a \notin Served(sched) => h = sched
      /\ a \in Served(sched) => SchedOk(h) /\ Settled(sched, h, fd) /\ SameRequests(sched, h)
  BY <1>1, <1>4, FeedbackFields
<1> HIDE DEF h
<1>6. PICK c : c = a
  OBVIOUS
<1> HIDE DEF a
<1>7. SchedTurned(h) /\ h.out = NothingSent
  <2>1. SchedOk(h) /\ h.out = NothingSent
    BY <1>1, <1>5 DEF SameRequests
  <2> QED BY <1>2, <2>1, SchedPerforms
<1>8. \A x \in Gnbs : commands'[x] = commands[x]
  BY <1>1, <1>7, NothingAdded
<1>9. Sound'
  <2>1. \A x \in Gnbs : h.out[x] \in Seq(CommandTo(x))
    <3> SUFFICES ASSUME NEW x \in Gnbs PROVE h.out[x] \in Seq(CommandTo(x))
      OBVIOUS
    <3> DEFINE S == CommandTo(x)
    <3> HIDE DEF S
    <3>1. <<>> \in Seq(S)
      OBVIOUS
    <3> QED BY <1>7, <3>1 DEF NothingSent, S
  <2> QED BY <1>1, <1>2, <1>3, <1>7, <2>1, SoundSched
<1>10. Has(reports[n], Say(a)) /\ (fd \in Refuse(a) => Has(reports[n], Refuse(a)))
  BY <1>3, <1>4
<1>11. AllFound => a \in Served(sched)
  BY <1>4, <1>10, SMTT(60) DEF IInv, Life, Booked, AnswerBooked
<1>12. /\ h.preSchedCheck = sched.preSchedCheck /\ h.schedComplete = sched.schedComplete
       /\ h.appsWaitStopFb \subseteq sched.appsWaitStopFb
       /\ h.appsWaitInitFb \subseteq sched.appsWaitInitFb
       /\ \A b \in Apps : b # a =>
             /\ b \in h.appsWaitInitFb <=> b \in sched.appsWaitInitFb
             /\ b \in h.allocatedApps <=> b \in sched.allocatedApps
             /\ h.srvInInitiating[b] = sched.srvInInitiating[b]
             /\ h.runningService[b] = sched.runningService[b]
  BY <1>5 DEF Settled, SameRequests, a
<1>13. ASSUME NEW b \in Apps, b # a PROVE Life(b)'
  <2>1. SameApp(b)
    <3>1. \A x \in Gnbs : Kept(reports[x], reports'[x], About(b))
      BY <1>3, <1>13 DEF a
    <3>2. \A x \in Gnbs : /\ Kept(commands[x], commands'[x], About(b))
                          /\ Kept(toMac[x], toMac'[x], About(b))
                          /\ \A p \in Gnbs : Kept(fromMac[x][p], fromMac'[x][p], About(b))
      BY <1>2, <1>8, KeptSame
    <3> QED BY <3>1, <3>2, <1>2, <1>7, <1>12, <1>13 DEF SameApp, SchedTurned, Instance
  <2>2. Life(b)
    BY DEF IInv
  <2> QED BY <1>1, <2>1, <2>2, LifeKept
<1>14. Life(c)'
  <2>1. Life(c) /\ c \in Apps
    BY <1>4, <1>6 DEF IInv
  <2>2. Single(c)'
    BY <1>2, <1>8, <2>1 DEF Life, Single
  <2>3. \A o, p \in Gnbs : Wire(o, p, c)'
    BY <1>2, <2>1 DEF Life, Wire
  <2>4. sched'.schedComplete => c \notin Served(sched') /\ Vacant(c)'
    <3> SUFFICES ASSUME sched'.schedComplete
                 PROVE  c \notin Served(sched') /\ Vacant(c)'
      OBVIOUS
    <3>1. c \notin Served(sched) /\ Vacant(c)
      BY <1>7, <1>12, <2>1 DEF Life, SchedTurned
    <3>2. h = sched
      BY <1>5, <1>6, <3>1 DEF a
    <3>3. c \notin Served(sched')
      BY <3>1, <3>2, <1>7 DEF Served, SchedTurned
    <3> QED BY <3>1, <3>3, <1>2, <1>8 DEF Vacant
  <2>5. AllFound' => Booked(c)'
    <3> SUFFICES ASSUME AllFound PROVE Booked(c)'
      BY <1>2 DEF AllFound
    <3>1. c \in Served(sched) /\ Settled(sched, h, fd) /\ SameRequests(sched, h) /\ c = fd.app
      BY <1>5, <1>6, <1>11 DEF a
    <3>2. /\ Has(reports[n], Say(c)) /\ (fd \in Refuse(c) => Has(reports[n], Refuse(c)))
          /\ fd \in Say(c) /\ (fd \in Refuse(c) <=> ~fd.success)
      BY <1>4, <1>6, <1>10
    <3> QED BY <1>2, <1>3, <1>4, <1>7, <1>8, <3>1, <3>2, AnswerSettled
  <2> QED BY <2>2, <2>3, <2>4, <2>5 DEF Life
<1>15. Stops'
  BY <1>2, <1>7, <1>8, <1>12 DEF IInv, Stops, SchedTurned
<1>16. Phase'
  BY <1>2, <1>7, <1>8, <1>12, PhaseKept DEF IInv, SchedTurned
<1>17. ASSUME NEW m \in Gnbs PROVE Counts(m)'
  <2> SUFFICES ASSUME AllFound PROVE Counts(m)'
    BY <1>2 DEF Counts, AllFound
  <2>1. sched.cmpUnits \in [Gnbs -> Int]
    BY <1>1 DEF SchedOk, SchedRecord
  <2>2. sched'.cmpUnits[m] = IF m = n THEN fd.availCmpUnit ELSE sched.cmpUnits[m]
    BY <2>1, <1>4, <1>5, <1>7, <1>11 DEF SchedTurned, Settled
  <2>3. Counts(m)
    BY DEF IInv
  <2>4. Units(fd) = fd.availCmpUnit
    BY DEF Units
  <2>5. CASE m = n
    BY <1>2, <1>3, <2>2, <2>3, <2>4, <2>5 DEF Counts, AllFound
  <2>6. CASE m # n
    BY <1>2, <1>3, <2>2, <2>3, <2>6 DEF Counts, AllFound
  <2> QED BY <2>5, <2>6
<1>18. \A b \in Apps : Life(b)'
  BY <1>6, <1>13, <1>14
<1> QED BY <1>9, <1>15, <1>16, <1>17, <1>18 DEF IInv

\* the scheduler hears from a server
LEMMA ReceiveReportKeeps ==
  ASSUME IInv, NEW n \in Gnbs, ReceiveReport(n)
  PROVE  IInv'
<1>1. PICK msg : msg = Head(reports[n])
  OBVIOUS
<1>2. reports[n] # <<>> /\ reports' = [reports EXCEPT ![n] = Tail(@)]
  BY DEF ReceiveReport
<1>3. msg \in StatusOf(n)
  BY <1>1, <1>2, StatusTaken DEF IInv
<1>4. msg.type = "SrvFD" \/ msg.type = "RsuFD"
  BY <1>3, AnswerKinds
<1> QED BY <1>1, <1>4, StatusHeard, AnswerHeard

\* scheduler h is s but for what it has sent
OnlySent(s, h) ==
    /\ h \in SchedRecord
    /\ h.appInfo = s.appInfo /\ h.blank = s.blank /\ h.vehApps = s.vehApps
    /\ h.unscheduledApps = s.unscheduledApps /\ h.appsWaitInitFb = s.appsWaitInitFb
    /\ h.appsWaitStopFb = s.appsWaitStopFb /\ h.allocatedApps = s.allocatedApps
    /\ h.srvInInitiating = s.srvInInitiating /\ h.runningService = s.runningService
    /\ h.rsuStatus = s.rsuStatus /\ h.cmpUnits = s.cmpUnits
    /\ h.rsuOnholdRbs = s.rsuOnholdRbs /\ h.rsuOnholdCus = s.rsuOnholdCus
    /\ h.vehAccessRsu = s.vehAccessRsu /\ h.vecSchedule = s.vecSchedule
    /\ h.schedStarter = s.schedStarter /\ h.preSchedCheck = s.preSchedCheck
    /\ h.schedComplete = s.schedComplete

\* and that is a command about service srv
Commands(s, h, srv, isStart) ==
    \E m \in CommandTo(srv.processGnb) :
       /\ m.app = srv.app /\ m.start = isStart /\ m.offloadGnb = srv.offloadGnb
       /\ m.cmpUnits = srv.cmpUnits
       /\ \A g \in Gnbs : h.out[g] = IF g = srv.processGnb THEN Append(s.out[g], m) ELSE s.out[g]

\* a command of the scheduler
LEMMA PacketFields ==
  ASSUME NEW s \in SchedRecord, NEW srv \in ServiceInstance, srv.app \in s.appInfo,
         NEW isStart \in BOOLEAN
  PROVE  LET h == SendGrantPacket(s, srv, isStart)
         IN  OnlySent(s, h) /\ Commands(s, h, srv, isStart)
<1> DEFINE m == [app |-> srv.app, start |-> isStart, processGnb |-> srv.processGnb,
                 offloadGnb |-> srv.offloadGnb, cmpUnits |-> srv.cmpUnits,
                 bands |-> srv.bands, load |-> 1, initTime |-> 0]
           p == srv.processGnb
           sent == [s.out EXCEPT ![p] = Append(@, m)]
           h == SendGrantPacket(s, srv, isStart)
<1>1. /\ p \in Gnbs /\ m \in CommandTo(p) /\ m.app = srv.app /\ m.start = isStart
      /\ m.offloadGnb = srv.offloadGnb /\ m.cmpUnits = srv.cmpUnits /\ m \in SrvGrant
  BY DEF ServiceInstance, CommandTo, SrvGrant
<1>2. h = [s EXCEPT !.out = sent]
  <2>1. s.blank = IF srv.app \in s.appInfo THEN s.blank ELSE s.blank \cup {srv.app}
    OBVIOUS
  <2>2. h = [s EXCEPT !.blank = s.blank, !.out = sent]
    BY <2>1 DEF SendGrantPacket, SchedRecord
  <2> HIDE DEF sent, h
  <2> QED BY <2>2 DEF SchedRecord
<1> HIDE DEF m, h
<1>3. /\ sent \in [Gnbs -> Seq(SrvGrant)]
      /\ \A g \in Gnbs : sent[g] = IF g = p THEN Append(s.out[g], m) ELSE s.out[g]
  <2>1. s.out \in [Gnbs -> Seq(SrvGrant)]
    BY DEF SchedRecord
  <2> DEFINE S == SrvGrant
  <2>2. Append(s.out[p], m) \in Seq(S)
    <3>1. s.out[p] \in Seq(S) /\ m \in S
      BY <1>1, <2>1
    <3> HIDE DEF S
    <3> QED BY <3>1
  <2> HIDE DEF S, p
  <2> QED BY <1>1, <2>1, <2>2 DEF S
<1> HIDE DEF sent
<1>4. OnlySent(s, h) /\ h.out = sent
  BY <1>2, <1>3 DEF OnlySent, SchedRecord
<1>5. Commands(s, h, srv, isStart)
  BY <1>1, <1>3, <1>4 DEF Commands, p
<1> QED BY <1>4, <1>5 DEF h

-----------------------------------------------------------------------------
(* The check before the next schedule.                                     *)

\* the recursive function of StopAll
StopsOf(f, s, S, N) ==
    f = [a \in 0 .. N |->
            IF a = 0 THEN s
            ELSE IF a \in S THEN SchedulerStopsService(f[a - 1], a)
            ELSE f[a - 1]]

\* it exists: a shortest range without one would have a predecessor with one
LEMMA StopsExist ==
  ASSUME NEW s, NEW S
  PROVE  \A N \in Nat : \E f : StopsOf(f, s, S, N)
<1> DEFINE Bad == {N \in Nat : ~\E f : StopsOf(f, s, S, N)}
<1> SUFFICES ASSUME Bad # {} PROVE FALSE
  OBVIOUS
<1>1. PICK N \in Bad : \A k \in Bad : N <= k
  BY LeastNatural
<1>2. CASE N = 0
  <2>1. StopsOf([a \in 0 .. 0 |-> s], s, S, 0)
    BY DEF StopsOf
  <2> QED BY <2>1, <1>1, <1>2
<1>3. CASE N # 0
  <2>1. N - 1 \in Nat /\ N - 1 \notin Bad
    BY <1>1, <1>3
  <2>2. PICK f : StopsOf(f, s, S, N - 1)
    BY <2>1
  <2> DEFINE last == IF N \in S THEN SchedulerStopsService(f[N - 1], N) ELSE f[N - 1]
             g == [a \in 0 .. N |-> IF a = N THEN last ELSE f[a]]
  <2>3. ASSUME NEW a \in 0 .. N
        PROVE  g[a] = IF a = 0 THEN s
                      ELSE IF a \in S THEN SchedulerStopsService(g[a - 1], a)
                      ELSE g[a - 1]
    <3>1. CASE a = N
      BY <3>1, <2>1, <1>3
    <3>2. CASE a # N
      BY <3>2, <2>1, <1>3, <2>2 DEF StopsOf
    <3> QED BY <3>1, <3>2
  <2>4. StopsOf(g, s, S, N)
    <3> HIDE DEF last
    <3> QED BY <2>3 DEF StopsOf
  <2> QED BY <2>4, <1>1
<1> QED BY <1>2, <1>3

\* StopAll stops one application after the other
LEMMA StopAllSteps ==
  ASSUME NEW s, NEW S
  PROVE  \E f : /\ StopAll(s, S) = f[NumApps] /\ f[0] = s
                /\ \A a \in Apps : f[a] = IF a \in S THEN SchedulerStopsService(f[a - 1], a)
                                          ELSE f[a - 1]
<1> DEFINE after[a \in 0 .. NumApps] ==
            IF a = 0 THEN s
            ELSE IF a \in S THEN SchedulerStopsService(after[a - 1], a)
            ELSE after[a - 1]
<1>1. PICK f : StopsOf(f, s, S, NumApps)
  BY StopsExist, MecTypesAssumption
<1>2. StopsOf(after, s, S, NumApps)
  BY <1>1 DEF StopsOf
<1>3. StopAll(s, S) = after[NumApps]
  BY DEF StopAll
<1> HIDE DEF after
<1>4. /\ after[0] = s
      /\ \A a \in Apps : after[a] = IF a \in S THEN SchedulerStopsService(after[a - 1], a)
                                    ELSE after[a - 1]
  BY <1>2, MecTypesAssumption DEF StopsOf, Apps
<1> QED BY <1>3, <1>4

\* nothing to stop
LEMMA StopNone ==
  ASSUME NEW s
  PROVE  StopAll(s, {}) = s
<1>1. PICK f : /\ StopAll(s, {}) = f[NumApps] /\ f[0] = s
               /\ \A a \in Apps : f[a] = IF a \in {} THEN SchedulerStopsService(f[a - 1], a)
                                         ELSE f[a - 1]
  BY StopAllSteps
<1> DEFINE S == {i \in 0 .. NumApps : f[i] = s}
<1>2. 0 \in S
  BY <1>1, MecTypesAssumption
<1>3. ASSUME NEW i \in 0 .. NumApps, i # NumApps, i \in S
      PROVE  i + 1 \in S
  <2>1. i + 1 \in Apps /\ i + 1 \in 0 .. NumApps /\ (i + 1) - 1 = i
    BY <1>3, MecTypesAssumption DEF Apps
  <2> QED BY <1>1, <1>3, <2>1
<1>4. NumApps \in S
  <2> HIDE DEF S
  <2> QED BY <1>2, <1>3, UpTo, MecTypesAssumption
<1> QED BY <1>1, <1>4

\* the services of S have been told to stop, and nothing else
Stopped(s, h, S) ==
    /\ h \in SchedRecord /\ S \subseteq s.allocatedApps
    /\ h.appInfo = s.appInfo /\ h.blank = s.blank /\ h.vehApps = s.vehApps
    /\ h.unscheduledApps = s.unscheduledApps /\ h.appsWaitInitFb = s.appsWaitInitFb
    /\ h.appsWaitStopFb = S /\ h.allocatedApps = s.allocatedApps
    /\ h.srvInInitiating = s.srvInInitiating /\ h.runningService = s.runningService
    /\ h.cmpUnits = s.cmpUnits /\ h.vecSchedule = s.vecSchedule /\ h.rsuStatus = s.rsuStatus
    /\ h.rsuOnholdRbs = s.rsuOnholdRbs /\ h.rsuOnholdCus = s.rsuOnholdCus
    /\ h.preSchedCheck = s.preSchedCheck /\ h.schedComplete = s.schedComplete
    /\ \A g \in Gnbs : h.out[g] \in Seq(CommandTo(g)) /\ ~Has(h.out[g], AllStarts)
    /\ \A a \in S : Has(h.out[s.runningService[a].processGnb], Stop(a))

\* the scheduler runs services and has sent nothing
Stoppable(s) ==
    /\ s \in SchedRecord /\ s.out = NothingSent
    /\ s.appsWaitStopFb = {} /\ s.allocatedApps \subseteq s.appInfo
    /\ \A a \in s.allocatedApps :
          s.runningService[a] \in ServiceInstance /\ s.runningService[a].app = a

\* one more is stopped
LEMMA StopOneMore ==
  ASSUME NEW s, Stoppable(s), NEW h, NEW S, Stopped(s, h, S),
         NEW a \in s.allocatedApps, a \notin S
  PROVE  Stopped(s, SchedulerStopsService(h, a), S \cup {a})
<1> DEFINE srv == s.runningService[a]
           k == SendGrantPacket(h, srv, FALSE)
           w == [k EXCEPT !.appsWaitStopFb = @ \cup {a}]
           p == srv.processGnb
<1>1. srv \in ServiceInstance /\ srv.app = a /\ srv.app \in h.appInfo /\ p \in Gnbs
      /\ a \in Apps /\ h \in SchedRecord
  BY ZenonT(60) DEF Stoppable, Stopped, SchedRecord, ServiceInstance
<1>2. SchedulerStopsService(h, a) = w
  BY DEF SchedulerStopsService, Stopped
<1>3. OnlySent(h, k) /\ Commands(h, k, srv, FALSE)
  <2> HIDE DEF srv
  <2> QED BY <1>1, PacketFields
<1>4. PICK m \in CommandTo(p) :
         /\ m.app = a /\ m.start = FALSE
         /\ \A g \in Gnbs : k.out[g] = IF g = p THEN Append(h.out[g], m) ELSE h.out[g]
  BY <1>1, <1>3 DEF Commands
<1> HIDE DEF k, srv
<1>5. /\ w \in SchedRecord /\ w.out = k.out /\ w.appsWaitStopFb = S \cup {a}
      /\ w.appInfo = s.appInfo /\ w.blank = s.blank /\ w.vehApps = s.vehApps
      /\ w.unscheduledApps = s.unscheduledApps /\ w.appsWaitInitFb = s.appsWaitInitFb
      /\ w.allocatedApps = s.allocatedApps
      /\ w.srvInInitiating = s.srvInInitiating /\ w.runningService = s.runningService
      /\ w.cmpUnits = s.cmpUnits /\ w.vecSchedule = s.vecSchedule /\ w.rsuStatus = s.rsuStatus
      /\ w.rsuOnholdRbs = s.rsuOnholdRbs /\ w.rsuOnholdCus = s.rsuOnholdCus
      /\ w.preSchedCheck = s.preSchedCheck /\ w.schedComplete = s.schedComplete
  BY <1>1, <1>3, ZenonT(60) DEF OnlySent, Stopped, SchedRecord
<1> HIDE DEF w
<1>6. m \notin AllStarts /\ m \in Stop(a)
  BY <1>1, <1>4, CommandKinds
<1>7. \A g \in Gnbs : h.out[g] \in Seq(CommandTo(g)) /\ ~Has(h.out[g], AllStarts)
  BY DEF Stopped
<1>8. /\ Append(h.out[p], m) \in Seq(CommandTo(p))
      /\ \A M : Has(Append(h.out[p], m), M) <=> Has(h.out[p], M) \/ m \in M
  BY <1>1, <1>4, <1>7, HasAppend
<1>9. \A g \in Gnbs : w.out[g] \in Seq(CommandTo(g)) /\ ~Has(w.out[g], AllStarts)
  <2> SUFFICES ASSUME NEW g \in Gnbs
               PROVE  w.out[g] \in Seq(CommandTo(g)) /\ ~Has(w.out[g], AllStarts)
    OBVIOUS
  <2>1. CASE g = p
    <3>1. w.out[g] = Append(h.out[p], m)
      BY <1>4, <1>5, <2>1
    <3> QED BY <1>6, <1>7, <1>8, <2>1, <3>1
  <2>2. CASE g # p
    BY <1>4, <1>5, <1>7, <2>2
  <2> QED BY <2>1, <2>2
<1>10. \A b \in S \cup {a} : Has(w.out[s.runningService[b].processGnb], Stop(b))
  <2> SUFFICES ASSUME NEW b \in S \cup {a}
               PROVE  Has(w.out[s.runningService[b].processGnb], Stop(b))
    OBVIOUS
  <2>1. CASE b = a
    BY <1>1, <1>4, <1>5, <1>6, <1>8, <2>1 DEF srv
  <2>2. CASE b # a
    <3>1. b \in S /\ Has(h.out[s.runningService[b].processGnb], Stop(b))
      BY <2>2 DEF Stopped
    <3>2. CASE s.runningService[b].processGnb = p
      BY <1>1, <1>4, <1>5, <1>8, <3>1, <3>2
    <3>3. CASE s.runningService[b].processGnb \in Gnbs /\ s.runningService[b].processGnb # p
      BY <1>4, <1>5, <3>1, <3>3
    <3>4. s.runningService[b].processGnb \in Gnbs
      <4>1. S \subseteq s.allocatedApps
        BY DEF Stopped
      <4> QED BY <3>1, <4>1 DEF Stoppable, ServiceInstance
    <3> QED BY <3>2, <3>3, <3>4
  <2> QED BY <2>1, <2>2
<1> QED BY <1>2, <1>5, <1>9, <1>10 DEF Stopped

\* all of them are stopped
LEMMA AllStopped ==
  ASSUME NEW s, Stoppable(s)
  PROVE  Stopped(s, StopAll(s, s.allocatedApps), s.allocatedApps)
<1> DEFINE A == s.allocatedApps
<1>1. PICK f : /\ StopAll(s, A) = f[NumApps] /\ f[0] = s
               /\ \A a \in Apps : f[a] = IF a \in A THEN SchedulerStopsService(f[a - 1], a)
                                         ELSE f[a - 1]
  BY StopAllSteps
<1> DEFINE S == {i \in 0 .. NumApps : Stopped(s, f[i], A \cap (1 .. i))}
<1>2. 0 \in S
  <2>1. A \cap (1 .. 0) = {}
    OBVIOUS
  <2>2. \A g \in Gnbs : s.out[g] \in Seq(CommandTo(g)) /\ ~Has(s.out[g], AllStarts)
    <3> SUFFICES ASSUME NEW g \in Gnbs
                 PROVE  s.out[g] \in Seq(CommandTo(g)) /\ ~Has(s.out[g], AllStarts)
      OBVIOUS
    <3>1. s.out[g] = <<>>
      BY DEF Stoppable, NothingSent
    <3> DEFINE R == CommandTo(g)
    <3> HIDE DEF R
    <3>2. <<>> \in Seq(R)
      OBVIOUS
    <3> QED BY <3>1, <3>2, HasEmpty DEF R
  <2>3. Stopped(s, s, {})
    BY <2>2 DEF Stoppable, Stopped
  <2> QED BY <1>1, <2>1, <2>3, MecTypesAssumption
<1>3. ASSUME NEW i \in 0 .. NumApps, i # NumApps, i \in S
      PROVE  i + 1 \in S
  <2>1. i + 1 \in Apps /\ i + 1 \in 0 .. NumApps /\ (i + 1) - 1 = i /\ i \in Nat
    BY <1>3, MecTypesAssumption DEF Apps
  <2>2. f[i + 1] = IF i + 1 \in A THEN SchedulerStopsService(f[i], i + 1) ELSE f[i]
    BY <1>1, <2>1
  <2>3. Stopped(s, f[i], A \cap (1 .. i))
    BY <1>3
  <2>4. 1 .. i + 1 = (1 .. i) \cup {i + 1} /\ i + 1 \notin 1 .. i
    BY <2>1
  <2>5. CASE i + 1 \in A
    <3>1. A \cap (1 .. i + 1) = (A \cap (1 .. i)) \cup {i + 1}
      BY <2>4, <2>5
    <3>2. Stopped(s, f[i + 1], (A \cap (1 .. i)) \cup {i + 1})
      BY <2>2, <2>3, <2>4, <2>5, StopOneMore
    <3> QED BY <2>1, <3>1, <3>2
  <2>6. CASE i + 1 \notin A
    <3>1. A \cap (1 .. i + 1) = A \cap (1 .. i)
      BY <2>4, <2>6
    <3> QED BY <2>1, <2>2, <2>3, <2>6, <3>1
  <2> QED BY <2>5, <2>6
<1>4. NumApps \in S
  <2> HIDE DEF S
  <2> QED BY <1>2, <1>3, UpTo, MecTypesAssumption
<1>5. A \cap (1 .. NumApps) = A
  BY DEF Stoppable, SchedRecord, Apps
<1> QED BY <1>1, <1>4, <1>5

\* when nothing is on its way no start is unanswered, and what a server has runs
LEMMA QuietBooks ==
  ASSUME IInv, Quiet, AllFound
  PROVE  /\ sched.appsWaitInitFb = {}
         /\ \A a \in sched.allocatedApps : a \in server[Instance(sched, a).processGnb].granted
         /\ \A n \in Gnbs : InitializingIn(server[n]) = {}
<1>1. Sound /\ \A a \in Apps : Life(a)
  BY DEF IInv
<1>2. ASSUME NEW n \in Gnbs PROVE InitializingIn(server[n]) = {}
  <2>1. QueueOk(server[n]) /\ server[n].srvInInitVector = <<>>
        /\ server[n].granted \subseteq Apps
    BY <1>1 DEF Sound, Fine, Quiet, ServerRecord
  <2>2. \A a \in Apps : a \notin InitializingIn(server[n])
    BY <2>1, HasEmpty DEF QueueOk
  <2> QED BY <2>1, <2>2 DEF InitializingIn
<1>3. ASSUME NEW n \in Gnbs, NEW a PROVE ~Has(reports[n], Say(a)) /\ ~Has(reports[n], Refuse(a))
  <2>1. \A i \in DOMAIN reports[n] : reports[n][i].type = "RsuFD"
    BY DEF Quiet
  <2>2. \A m \in Say(a) : m.type = "SrvFD"
    BY DEF Say, SrvFD, Refusal, Answer
  <2> QED BY <2>1, <2>2 DEF Has, Refuse
<1>4. \A n \in Gnbs : \A M : /\ ~Has(commands[n], M) /\ ~Has(toMac[n], M)
                             /\ \A p \in Gnbs : ~Has(fromMac[n][p], M)
  BY HasEmpty DEF Quiet
<1>5. ASSUME NEW a \in Served(sched)
      PROVE  /\ Instance(sched, a).processGnb \in Gnbs
             /\ a \in server[Instance(sched, a).processGnb].granted
             /\ a \in sched.allocatedApps
  <2> DEFINE p == Instance(sched, a).processGnb
  <2>1. a \in Apps /\ p \in Gnbs
    BY <1>1 DEF Sound, SchedOk, SchedRecord, Served, ServiceInstance
  <2>2. Booked(a)
    BY <1>1, <2>1 DEF Life
  <2>3. a \in server[p].granted
    BY <1>3, <1>4, <2>1, <2>2 DEF Booked, Accounted
  <2>4. ServiceBooked(p, a)
    BY <2>1, <2>2 DEF Booked
  <2> DEFINE o == server[p].service[a].offloadGnb
  <2>5. a \in RunningIn(server[p]) /\ o \in Gnbs
    BY <1>1, <1>2, <2>1, <2>3, SMTT(60) DEF RunningIn, InitializingIn, Sound, Fine
  <2>6. a \notin server[p].appsWaitMacInitFb
    BY <1>4, <2>1, <2>3, <2>4, <2>5, SMTT(60) DEF ServiceBooked
  <2>7. a \in sched.allocatedApps
    BY <1>3, <2>1, <2>3, <2>4, <2>5, <2>6 DEF ServiceBooked
  <2> QED BY <2>1, <2>3, <2>7
<1>6. sched.appsWaitInitFb \cap sched.allocatedApps = {}
  BY <1>1 DEF Sound, SchedOk, OnePlace
<1> QED BY <1>2, <1>5, <1>6 DEF Served

\* the services are told to stop before the next schedule
LEMMA PreScheduleCheckKeeps ==
  ASSUME IInv, Prompt, RescheduleAll, NEW expired, PreScheduleCheck(expired)
  PROVE  IInv'
<1> DEFINE fired == [sched EXCEPT !.preSchedCheck = FALSE]
           A == sched.allocatedApps
           h == StopAll(fired, A)
<1>1. Sound /\ SchedOk(sched) /\ sched.out = NothingSent /\ sched \in SchedRecord
  BY DEF IInv, Sound, SchedOk
<1>2. /\ Quiet /\ AllFound /\ sched.preSchedCheck /\ ~sched.schedComplete
      /\ PerformScheduler(HandlePreSchedulingCheck(sched, expired))
      /\ UNCHANGED <<hasScheduler, server, carried, toMac, fromMac, reports>>
  BY DEF PreScheduleCheck, TimersMayFire
<1>3. sched.appsWaitInitFb = {} /\ sched.appsWaitStopFb = {}
  BY <1>2, QuietBooks DEF IInv, Phase
<1>4. HandlePreSchedulingCheck(sched, expired) = h
  BY <1>3, StopNone DEF HandlePreSchedulingCheck
<1> HIDE DEF h
<1>5. /\ fired \in SchedRecord /\ fired.out = NothingSent
      /\ fired.appInfo = sched.appInfo /\ fired.blank = sched.blank
      /\ fired.vehApps = sched.vehApps
      /\ fired.unscheduledApps = sched.unscheduledApps
      /\ fired.appsWaitInitFb = sched.appsWaitInitFb
      /\ fired.appsWaitStopFb = {} /\ fired.allocatedApps = A
      /\ fired.srvInInitiating = sched.srvInInitiating
      /\ fired.runningService = sched.runningService
      /\ fired.cmpUnits = sched.cmpUnits /\ fired.vecSchedule = sched.vecSchedule
      /\ fired.preSchedCheck = FALSE /\ fired.schedComplete = FALSE
  BY <1>1, <1>2, <1>3 DEF SchedRecord
<1> HIDE DEF fired
<1>6. /\ OnePlace(sched)
      /\ \A a \in A : sched.runningService[a] \in ServiceInstance /\ sched.runningService[a].app = a
  BY <1>1, <1>3 DEF SchedOk, Served, Instance
<1>7. Stoppable(fired)
  BY <1>5, <1>6 DEF Stoppable, OnePlace
<1>8. Stopped(fired, h, A)
  BY <1>5, <1>7, AllStopped DEF h
<1>9. SchedOk(h)
  BY <1>1, <1>5, <1>8 DEF Stopped, SchedOk, OnePlace, Planned, Served, Instance
<1>10. SchedTurned(h)
  BY <1>2, <1>4, <1>9, SchedPerforms
<1>11. /\ sched'.appsWaitInitFb = {} /\ sched'.allocatedApps = A
       /\ sched'.runningService = sched.runningService /\ sched'.cmpUnits = sched.cmpUnits
       /\ sched'.preSchedCheck = FALSE /\ sched'.schedComplete = FALSE
       /\ \A g \in Gnbs : h.out[g] \in Seq(CommandTo(g)) /\ ~Has(h.out[g], AllStarts)
       /\ \A a \in A : Has(h.out[sched.runningService[a].processGnb], Stop(a))
  BY <1>3, <1>5, <1>8, <1>10 DEF SchedTurned, Stopped
<1>12. \A g \in Gnbs : commands[g] = <<>> /\ commands'[g] = h.out[g]
  <2> SUFFICES ASSUME NEW g \in Gnbs PROVE commands[g] = <<>> /\ commands'[g] = h.out[g]
    OBVIOUS
  <2>1. commands[g] = <<>> /\ commands'[g] = commands[g] \o h.out[g] /\ h.out[g] \in Seq(CommandTo(g))
    BY <1>2, <1>10, <1>11 DEF Quiet, SchedTurned
  <2> DEFINE S == CommandTo(g)
  <2> HIDE DEF S
  <2>2. \A s \in Seq(S) : <<>> \o s = s
    OBVIOUS
  <2> QED BY <2>1, <2>2 DEF S
<1>13. Sound'
  <2>1. DOMAIN reports' = Gnbs /\ \A n \in Gnbs : reports'[n] \in Seq(StatusOf(n))
    BY <1>1, <1>2 DEF Sound
  <2> QED BY <1>1, <1>2, <1>10, <1>11, <2>1, SoundSched
<1>14. ASSUME NEW a \in Apps PROVE Life(a)'
  <2>1. Life(a) /\ Booked(a)
    BY <1>2 DEF IInv, Life
  <2>2. \A n \in Gnbs : ~Has(commands[n], Start(a)) /\ ~Has(commands'[n], Start(a))
    BY <1>11, <1>12, HasPart, HasEmpty
  <2>3. \A n \in Gnbs : Once(commands'[n], Start(a))
    BY <2>2 DEF Once, Has
  <2>4. Single(a)'
    BY <1>2, <2>1, <2>2, <2>3 DEF Life, Single
  <2>5. \A o, p \in Gnbs : Wire(o, p, a)'
    BY <1>2, <2>1 DEF Life, Wire
  <2>6. /\ a \in Served(sched') <=> a \in A /\ a \in Served(sched)
        /\ a \in Served(sched) <=> a \in A
        /\ Instance(sched', a) = sched.runningService[a]
        /\ Instance(sched, a) = sched.runningService[a]
    BY <1>3, <1>11 DEF Served, Instance
  <2>7. Booked(a)'
    <3>1. \A n \in Gnbs : StartBooked(n, a)'
      BY <2>2 DEF StartBooked
    <3>2. ASSUME NEW n \in Gnbs PROVE ServiceBooked(n, a)'
      <4>1. ServiceBooked(n, a)
        BY <2>1 DEF Booked
      <4> QED BY <1>2, <1>3, <1>11, <2>6, <4>1 DEF ServiceBooked
    <3>3. ASSUME NEW n \in Gnbs PROVE AnswerBooked(n, a)'
      <4>1. AnswerBooked(n, a)
        BY <2>1 DEF Booked
      <4> QED BY <1>2, <2>6, <4>1 DEF AnswerBooked
    <3>4. Accounted(a)'
      <4> SUFFICES ASSUME a \in A PROVE Accounted(a)'
        BY <2>6 DEF Accounted
      <4>1. sched.runningService[a].processGnb \in Gnbs
        BY <1>6 DEF ServiceInstance
      <4>2. Accounted(a)
        BY <2>1 DEF Booked
      <4>3. Has(commands'[sched.runningService[a].processGnb], Stop(a))
        BY <1>11, <1>12, <4>1
      <4> QED BY <1>2, <2>2, <2>6, <4>1, <4>2, <4>3 DEF Accounted
    <3> QED BY <3>1, <3>2, <3>3, <3>4 DEF Booked
  <2> QED BY <1>11, <2>4, <2>5, <2>7 DEF Life
<1>15. Stops'
  BY <1>2, <1>11, <1>12 DEF Stops, Quiet
<1>16. Phase'
  BY <1>11 DEF Phase
<1>17. \A n \in Gnbs : Counts(n)'
  BY <1>2, <1>11 DEF IInv, Counts, AllFound
<1> QED BY <1>13, <1>14, <1>15, <1>16, <1>17 DEF IInv

-----------------------------------------------------------------------------
(* A new schedule.                                                         *)

\* when everything that was told to stop has, nothing runs
LEMMA NothingServed ==
  ASSUME IInv, Quiet, AllFound, ~sched.preSchedCheck
  PROVE  /\ Served(sched) = {} /\ \A a \in Apps : Vacant(a)
         /\ \A n \in Gnbs : \A a : ~Has(reports[n], Say(a))
<1>1. Sound /\ \A a \in Apps : Life(a)
  BY DEF IInv
<1>3. ASSUME NEW n \in Gnbs, NEW a PROVE ~Has(reports[n], Say(a)) /\ ~Has(reports[n], Refuse(a))
  <2>1. \A i \in DOMAIN reports[n] : reports[n][i].type = "RsuFD"
    BY DEF Quiet
  <2>2. \A m \in Say(a) : m.type = "SrvFD"
    BY DEF Say, SrvFD, Refusal, Answer
  <2> QED BY <2>1, <2>2 DEF Has, Refuse
<1>4. \A n \in Gnbs : \A M : /\ ~Has(commands[n], M) /\ ~Has(toMac[n], M)
                             /\ \A p \in Gnbs : ~Has(fromMac[n][p], M)
  BY HasEmpty DEF Quiet
<1>5. ASSUME NEW a \in Apps PROVE a \notin Served(sched) /\ Vacant(a)
  <2>1. Booked(a) /\ Life(a)
    BY <1>1 DEF Life
  <2>2. a \notin Served(sched)
    <3> SUFFICES ASSUME a \in Served(sched) PROVE FALSE
      OBVIOUS
    <3>1. Instance(sched, a).processGnb \in Gnbs /\ Instance(sched, a).offloadGnb \in Gnbs
      BY <1>1 DEF Sound, SchedOk, ServiceInstance
    <3>2. Accounted(a)
      BY <2>1 DEF Booked
    <3> QED BY <1>3, <1>4, <3>1, <3>2 DEF Accounted
  <2>3. \A n \in Gnbs : a \notin server[n].granted
    BY <2>1, <2>2 DEF Booked, ServiceBooked
  <2>4. ASSUME NEW n \in Gnbs PROVE carried[n][a] = NoGnb
    <3> SUFFICES ASSUME carried[n][a] # NoGnb PROVE FALSE
      OBVIOUS
    <3>1. carried[n][a] \in Gnbs
      BY <1>1 DEF Sound
    <3>2. Wire(n, carried[n][a], a) /\ hasScheduler[carried[n][a]]
      BY <2>1, <3>1 DEF Life, AllFound
    <3>3. a \in RunningIn(server[carried[n][a]])
      BY <3>2 DEF Wire
    <3> QED BY <2>3, <3>1, <3>3 DEF RunningIn
  <2>5. Vacant(a)
    BY <1>4, <2>3, <2>4 DEF Vacant
  <2> QED BY <2>2, <2>5
<1>6. Served(sched) \subseteq Apps
  BY <1>1 DEF Sound, SchedOk, SchedRecord, Served
<1> QED BY <1>3, <1>5, <1>6

\* a scheduler that runs nothing begins a period
Begun(s, h) ==
    /\ SchedOk(h) /\ h.out = s.out
    /\ h.appsWaitInitFb = {} /\ h.allocatedApps = {} /\ h.appsWaitStopFb = {}
    /\ h.preSchedCheck = TRUE /\ h.schedComplete = FALSE
    /\ h.rsuStatus = s.rsuStatus
    /\ h.rsuOnholdRbs = s.rsuOnholdRbs /\ h.rsuOnholdCus = s.rsuOnholdCus
    /\ \A g \in Gnbs : h.cmpUnits[g] \in {0, s.cmpUnits[g]}

\* that is what beginScheduling makes of it
LEMMA BeginFields ==
  ASSUME NEW s, SchedOk(s), Served(s) = {}, ~s.schedComplete,
         NEW gone \in SUBSET Apps, NEW links \in SUBSET (Ues \X Gnbs), NEW stale \in SUBSET Gnbs
  PROVE  Begun(s, BeginScheduling(s, gone, links, stale))
<1> DEFINE begun   == [s EXCEPT !.schedStarter = TRUE, !.preSchedCheck = TRUE, !.appsWaitStopFb = {}]
           removed == s.unscheduledApps \cap (gone \cup (Apps \ s.appInfo))
           access  == [u \in Ues |-> s.vehAccessRsu[u] \ {g \in Gnbs : <<u, g>> \in links}]
           units   == [g \in Gnbs |-> IF g \in stale THEN 0 ELSE s.cmpUnits[g]]
           h       == BeginScheduling(s, gone, links, stale)
<1>1. s \in SchedRecord /\ OnePlace(s) /\ s.appsWaitInitFb = {} /\ s.allocatedApps = {}
  BY DEF SchedOk, Served
<1>2. /\ begun \in SchedRecord /\ begun.out = s.out
      /\ begun.appInfo = s.appInfo /\ begun.blank = s.blank /\ begun.vehApps = s.vehApps
      /\ begun.unscheduledApps = s.unscheduledApps
      /\ begun.appsWaitInitFb = {} /\ begun.allocatedApps = {} /\ begun.appsWaitStopFb = {}
      /\ begun.cmpUnits = s.cmpUnits /\ begun.vehAccessRsu = s.vehAccessRsu
      /\ begun.rsuOnholdRbs = s.rsuOnholdRbs /\ begun.rsuOnholdCus = s.rsuOnholdCus
      /\ begun.rsuStatus = s.rsuStatus
      /\ begun.preSchedCheck = TRUE /\ begun.schedComplete = FALSE
  BY <1>1 DEF SchedRecord
<1>3. h = RemoveOutdatedInfo(begun, gone, links, stale)
  BY DEF BeginScheduling
<1> HIDE DEF begun, h
<1>4. h = [begun EXCEPT !.unscheduledApps = @ \ removed,
                        !.vehApps = @ \ (removed \cap s.appInfo),
                        !.appInfo = @ \ removed, !.blank = @ \ removed,
                        !.vehAccessRsu = access, !.cmpUnits = units]
  BY <1>2, <1>3 DEF RemoveOutdatedInfo, SchedRecord
<1>5. /\ access \in [Ues -> SUBSET Gnbs] /\ units \in [Gnbs -> Int]
      /\ \A g \in Gnbs : units[g] \in {0, s.cmpUnits[g]}
  <2>1. s.vehAccessRsu \in [Ues -> SUBSET Gnbs] /\ s.cmpUnits \in [Gnbs -> Int]
    BY <1>1 DEF SchedRecord
  <2> QED BY <2>1
<1> HIDE DEF removed, access, units
<1>6. /\ h \in SchedRecord /\ h.out = s.out
      /\ h.appInfo = s.appInfo \ removed /\ h.blank = s.blank \ removed
      /\ h.vehApps = s.vehApps \ (removed \cap s.appInfo)
      /\ h.unscheduledApps = s.unscheduledApps \ removed
      /\ h.appsWaitInitFb = {} /\ h.allocatedApps = {} /\ h.appsWaitStopFb = {}
      /\ h.rsuOnholdRbs = s.rsuOnholdRbs /\ h.rsuOnholdCus = s.rsuOnholdCus
      /\ h.rsuStatus = s.rsuStatus /\ h.cmpUnits = units
      /\ h.preSchedCheck = TRUE /\ h.schedComplete = FALSE
  BY <1>2, <1>4, <1>5, Zenon DEF SchedRecord
<1>7. OnePlace(h)
  BY <1>1, <1>6 DEF OnePlace
<1>8. Served(h) = {} /\ Planned(h)
  BY <1>6 DEF Served, Planned
<1>9. SchedOk(h)
  BY <1>6, <1>7, <1>8 DEF SchedOk
<1> QED BY <1>5, <1>6, <1>9 DEF h, Begun

\* what a scheme leaves: a schedule, or none
LEMMA FinishFields ==
  ASSUME NEW s, SchedOk(s), s.preSchedCheck, ~s.schedComplete, Served(s) = {},
         NEW schedule, IsSchedule(s, schedule), NEW inTime
  PROVE  LET h == FinishScheduling(s, schedule, inTime)
         IN  /\ SchedOk(h) /\ h.out = s.out
             /\ h.appsWaitInitFb = s.appsWaitInitFb /\ h.allocatedApps = s.allocatedApps
             /\ h.appsWaitStopFb = s.appsWaitStopFb
             /\ h.cmpUnits = s.cmpUnits /\ h.preSchedCheck = s.preSchedCheck
             /\ h.rsuOnholdRbs = s.rsuOnholdRbs /\ h.rsuOnholdCus = s.rsuOnholdCus
             /\ h.rsuStatus = s.rsuStatus /\ (h.schedComplete => h.vecSchedule = schedule)
<1> DEFINE h == FinishScheduling(s, schedule, inTime)
<1>1. s \in SchedRecord /\ OnePlace(s)
  BY DEF SchedOk
<1>2. \/ h = [s EXCEPT !.vecSchedule = <<>>]
      \/ h = [s EXCEPT !.vecSchedule = schedule, !.schedComplete = TRUE]
  BY DEF FinishScheduling
<1>3. /\ schedule \in Seq(ServiceInstance)
      /\ \A i \in DOMAIN schedule : schedule[i].app \in s.appInfo
      /\ \A i, j \in DOMAIN schedule : schedule[i].app = schedule[j].app => i = j
  BY <1>1 DEF IsSchedule, DeterminePendingScheduleApps, OnePlace
<1>4. <<>> \in Seq(ServiceInstance)
  <2> DEFINE S == ServiceInstance
  <2> HIDE DEF S
  <2>1. <<>> \in Seq(S)
    OBVIOUS
  <2> QED BY <2>1 DEF S
<1> HIDE DEF h
<1>5. /\ h \in SchedRecord
      /\ h.appInfo = s.appInfo /\ h.vehApps = s.vehApps /\ h.blank = s.blank
      /\ h.unscheduledApps = s.unscheduledApps /\ h.out = s.out
      /\ h.appsWaitInitFb = s.appsWaitInitFb /\ h.allocatedApps = s.allocatedApps
      /\ h.appsWaitStopFb = s.appsWaitStopFb
      /\ h.cmpUnits = s.cmpUnits /\ h.preSchedCheck = s.preSchedCheck
      /\ h.rsuOnholdRbs = s.rsuOnholdRbs /\ h.rsuOnholdCus = s.rsuOnholdCus
      /\ h.rsuStatus = s.rsuStatus /\ (h.schedComplete => h.vecSchedule = schedule)
  <2> DEFINE S == Seq(ServiceInstance)
  <2>0. schedule \in S /\ <<>> \in S
    BY <1>3, <1>4
  <2> HIDE DEF S
  <2>1. CASE h = [s EXCEPT !.vecSchedule = <<>>]
    BY <1>1, <2>0, <2>1 DEF SchedRecord, S
  <2>2. CASE h = [s EXCEPT !.vecSchedule = schedule, !.schedComplete = TRUE]
    BY <1>1, <2>0, <2>2 DEF SchedRecord, S
  <2> QED BY <1>2, <2>1, <2>2
<1>6. OnePlace(h) /\ Served(h) = {} /\ Planned(h)
  BY <1>1, <1>3, <1>5 DEF OnePlace, Served, Planned
<1> QED BY <1>5, <1>6 DEF SchedOk, h

\* a schedule is made when nothing runs
LEMMA ScheduleStartKeeps ==
  ASSUME IInv, Prompt, NEW gone \in SUBSET Apps, NEW links \in SUBSET (Ues \X Gnbs),
         NEW stale \in SUBSET Gnbs, NEW inTime \in BOOLEAN,
         ScheduleStart(gone, links, stale, inTime)
  PROVE  IInv'
<1> DEFINE begun == BeginScheduling(sched, gone, links, stale)
<1>1. Sound /\ SchedOk(sched) /\ sched.out = NothingSent
  BY DEF IInv, Sound
<1>2. /\ Quiet /\ AllFound /\ ~sched.preSchedCheck /\ ~sched.schedComplete
      /\ UNCHANGED <<hasScheduler, server, carried, toMac, fromMac, reports>>
  BY DEF ScheduleStart, TimersMayFire
<1>3. PICK schedule : /\ IsSchedule(begun, schedule)
                      /\ PerformScheduler(FinishScheduling(begun, schedule, inTime))
  BY DEF ScheduleStart
<1>4. /\ Served(sched) = {} /\ \A a \in Apps : Vacant(a)
      /\ \A n \in Gnbs : \A a : ~Has(reports[n], Say(a))
  BY <1>2, NothingServed
<1>5. /\ SchedOk(begun) /\ begun.out = NothingSent
      /\ begun.appsWaitInitFb = {} /\ begun.allocatedApps = {} /\ begun.appsWaitStopFb = {}
      /\ begun.preSchedCheck = TRUE /\ begun.schedComplete = FALSE
      /\ \A g \in Gnbs : begun.cmpUnits[g] \in {0, sched.cmpUnits[g]}
  <2>1. Begun(sched, begun)
    BY <1>1, <1>2, <1>4, BeginFields
  <2> HIDE DEF begun
  <2> QED BY <1>1, <2>1 DEF Begun
<1> DEFINE h == FinishScheduling(begun, schedule, inTime)
<1> HIDE DEF begun
<1>6. /\ SchedOk(h) /\ h.out = NothingSent
      /\ h.appsWaitInitFb = {} /\ h.allocatedApps = {} /\ h.appsWaitStopFb = {}
      /\ h.preSchedCheck = TRUE
      /\ \A g \in Gnbs : h.cmpUnits[g] \in {0, sched.cmpUnits[g]}
  BY <1>3, <1>5, FinishFields DEF Served
<1> HIDE DEF h
<1>7. SchedTurned(h)
  BY <1>3, <1>6, SchedPerforms DEF h
<1>8. \A n \in Gnbs : commands'[n] = commands[n]
  BY <1>1, <1>6, <1>7, NothingAdded
<1>9. Sound'
  <2>1. \A x \in Gnbs : h.out[x] \in Seq(CommandTo(x))
    <3> SUFFICES ASSUME NEW x \in Gnbs PROVE h.out[x] \in Seq(CommandTo(x))
      OBVIOUS
    <3> DEFINE S == CommandTo(x)
    <3> HIDE DEF S
    <3>1. <<>> \in Seq(S)
      OBVIOUS
    <3> QED BY <1>6, <3>1 DEF NothingSent, S
  <2>2. DOMAIN reports' = Gnbs /\ \A n \in Gnbs : reports'[n] \in Seq(StatusOf(n))
    BY <1>1, <1>2 DEF Sound
  <2> QED BY <1>1, <1>2, <1>7, <2>1, <2>2, SoundSched
<1>10. ASSUME NEW a \in Apps PROVE Life(a)'
  <2>1. Life(a)
    BY DEF IInv
  <2>2. Single(a)' /\ \A o, p \in Gnbs : Wire(o, p, a)'
    BY <1>2, <1>8, <2>1 DEF Life, Single, Wire
  <2>3. a \notin Served(sched') /\ Vacant(a)'
    BY <1>2, <1>4, <1>6, <1>7, <1>8 DEF Vacant, Served, SchedTurned
  <2>4. Booked(a)'
    BY <1>2, <1>4, <2>3 DEF Booked, StartBooked, ServiceBooked, AnswerBooked, Accounted, Vacant
  <2> QED BY <2>2, <2>3, <2>4 DEF Life
<1>11. \A n \in Gnbs : \A M : ~Has(commands'[n], M) /\ ~Has(toMac'[n], M)
  BY <1>2, <1>8, HasEmpty DEF Quiet
<1>12. Stops'
  BY <1>11 DEF Stops
<1>13. Phase'
  BY <1>6, <1>7, <1>11 DEF Phase, SchedTurned
<1>14. \A n \in Gnbs : Counts(n)'
  <2>1. \A n \in Gnbs : sched'.cmpUnits[n] \in {0, sched.cmpUnits[n]}
    BY <1>6, <1>7 DEF SchedTurned
  <2> QED BY <1>2, <2>1 DEF IInv, Counts, AllFound
<1> QED BY <1>9, <1>10, <1>12, <1>13, <1>14 DEF IInv

-----------------------------------------------------------------------------
(* The grants of a schedule.                                               *)

\* the recursive function of SendGrant
GrantsOf(f, s, N) ==
    f = [i \in 0 .. N |->
            IF i = 0 THEN [s EXCEPT !.schedComplete = FALSE]
            ELSE GrantInstance(f[i - 1], s.vecSchedule[i])]

\* it exists, by the same argument as for the stops
LEMMA GrantsExist ==
  ASSUME NEW s
  PROVE  \A N \in Nat : \E f : GrantsOf(f, s, N)
<1> DEFINE Bad == {N \in Nat : ~\E f : GrantsOf(f, s, N)}
           base == [s EXCEPT !.schedComplete = FALSE]
<1> SUFFICES ASSUME Bad # {} PROVE FALSE
  OBVIOUS
<1>1. PICK N \in Bad : \A k \in Bad : N <= k
  BY LeastNatural
<1>2. CASE N = 0
  <2>1. GrantsOf([i \in 0 .. 0 |-> base], s, 0)
    BY DEF GrantsOf
  <2> QED BY <2>1, <1>1, <1>2
<1>3. CASE N # 0
  <2>1. N - 1 \in Nat /\ N - 1 \notin Bad
    BY <1>1, <1>3
  <2>2. PICK f : GrantsOf(f, s, N - 1)
    BY <2>1
  <2> DEFINE last == GrantInstance(f[N - 1], s.vecSchedule[N])
             g == [i \in 0 .. N |-> IF i = N THEN last ELSE f[i]]
  <2>3. ASSUME NEW i \in 0 .. N
        PROVE  g[i] = IF i = 0 THEN base ELSE GrantInstance(g[i - 1], s.vecSchedule[i])
    <3>0. \A k \in 0 .. N - 1 :
             f[k] = IF k = 0 THEN base ELSE GrantInstance(f[k - 1], s.vecSchedule[k])
      BY <2>2 DEF GrantsOf
    <3> HIDE DEF base, last
    <3>1. CASE i = N
      <4>1. g[i] = last /\ g[i - 1] = f[N - 1] /\ i # 0
        BY <3>1, <2>1, <1>3
      <4> QED BY <3>1, <4>1 DEF last
    <3>2. CASE i # N
      <4>1. i \in 0 .. N - 1 /\ g[i] = f[i]
        BY <3>2, <2>1
      <4>2. i # 0 => g[i - 1] = f[i - 1]
        BY <3>2, <2>1
      <4> QED BY <3>0, <4>1, <4>2
    <3> QED BY <3>1, <3>2
  <2>4. GrantsOf(g, s, N)
    <3> HIDE DEF last
    <3> QED BY <2>3 DEF GrantsOf
  <2> QED BY <2>4, <1>1
<1> QED BY <1>2, <1>3

\* SendGrant grants one instance after the other
LEMMA SendGrantSteps ==
  ASSUME NEW s, s.vecSchedule \in Seq(ServiceInstance)
  PROVE  LET N == Len(s.vecSchedule)
         IN  \E f : /\ SendGrant(s) = [f[N] EXCEPT !.vecSchedule = <<>>]
                    /\ f[0] = [s EXCEPT !.schedComplete = FALSE]
                    /\ \A i \in 1 .. N : f[i] = GrantInstance(f[i - 1], s.vecSchedule[i])
<1> DEFINE N == Len(s.vecSchedule)
           after[i \in 0 .. Len(s.vecSchedule)] ==
              IF i = 0 THEN [s EXCEPT !.schedComplete = FALSE]
              ELSE GrantInstance(after[i - 1], s.vecSchedule[i])
<1>0. N \in Nat
  OBVIOUS
<1>1. PICK f : GrantsOf(f, s, N)
  BY <1>0, GrantsExist
<1>2. GrantsOf(after, s, N)
  BY <1>1 DEF GrantsOf
<1>3. SendGrant(s) = [after[N] EXCEPT !.vecSchedule = <<>>]
  BY DEF SendGrant
<1> HIDE DEF after
<1>4. /\ after[0] = [s EXCEPT !.schedComplete = FALSE]
      /\ \A i \in 1 .. N : after[i] = GrantInstance(after[i - 1], s.vecSchedule[i])
  <2> HIDE DEF N
  <2>1. 0 \in 0 .. N /\ \A i \in 1 .. N : i \in 0 .. N /\ i # 0
    BY <1>0
  <2> QED BY <1>2, <2>1 DEF GrantsOf
<1> QED BY <1>3, <1>4

\* the starts of the applications of W have been sent, each to its server
Sent(s, h, i) ==
    /\ h \in SchedRecord /\ OnePlace(h)
    /\ h.allocatedApps = {} /\ h.cmpUnits = s.cmpUnits /\ h.appInfo = s.appInfo
    /\ h.preSchedCheck = s.preSchedCheck /\ h.appsWaitStopFb = s.appsWaitStopFb
    /\ h.schedComplete = FALSE /\ h.rsuStatus = s.rsuStatus
    /\ \A a \in h.appsWaitInitFb :
          /\ \E j \in 1 .. i : h.srvInInitiating[a] = s.vecSchedule[j]
          /\ h.srvInInitiating[a] \in ServiceInstance /\ h.srvInInitiating[a].app = a
          /\ Has(h.out[h.srvInInitiating[a].processGnb], Start(a))
    /\ \A g \in Gnbs : h.out[g] \in Seq(CommandTo(g)) /\ ~Has(h.out[g], AllStops)
    /\ \A g \in Gnbs : \A a \in Apps :
          /\ Once(h.out[g], Start(a))
          /\ Has(h.out[g], Start(a)) =>
                /\ a \in h.appsWaitInitFb /\ h.srvInInitiating[a].processGnb = g
                /\ ~Has(h.out[g], StartBut(a, h.srvInInitiating[a].offloadGnb))

\* scheduler w is h that has granted instance srv
Granted(h, w, srv) ==
    LET a == srv.app
        p == srv.processGnb
        q == srv.offloadGnb
    IN  /\ w \in SchedRecord
        /\ w.appInfo = h.appInfo /\ w.blank = h.blank /\ w.vehApps = h.vehApps
        /\ w.unscheduledApps = h.unscheduledApps \ {a}
        /\ w.appsWaitInitFb = h.appsWaitInitFb \cup {a}
        /\ w.allocatedApps = h.allocatedApps /\ w.rsuStatus = h.rsuStatus
        /\ w.appsWaitStopFb = h.appsWaitStopFb /\ w.cmpUnits = h.cmpUnits
        /\ w.preSchedCheck = h.preSchedCheck /\ w.schedComplete = h.schedComplete
        /\ w.srvInInitiating[a] = srv
        /\ \A b \in Apps : b # a => w.srvInInitiating[b] = h.srvInInitiating[b]
        /\ w.rsuOnholdRbs = [h.rsuOnholdRbs EXCEPT ![q] = @ + srv.bands]
        /\ w.rsuOnholdCus = [h.rsuOnholdCus EXCEPT ![p] = Least(@ + srv.cmpUnits, h.cmpUnits[p])]
        /\ \E m \in CommandTo(p) :
              /\ m.app = a /\ m.start = TRUE /\ m.offloadGnb = q /\ m.cmpUnits = srv.cmpUnits
              /\ \A g \in Gnbs : w.out[g] = IF g = p THEN Append(h.out[g], m) ELSE h.out[g]

\* an instance is granted when there are units for it
LEMMA GrantFields ==
  ASSUME NEW h \in SchedRecord, NEW srv \in ServiceInstance, srv.app \in h.appInfo,
         ~(h.cmpUnits[srv.processGnb] < srv.cmpUnits)
  PROVE  Granted(h, GrantInstance(h, srv), srv)
<1> DEFINE a == srv.app
           p == srv.processGnb
           q == srv.offloadGnb
           k == SendGrantPacket(h, srv, TRUE)
           inits == [k.srvInInitiating EXCEPT ![a] = srv]
           rbs == [k.rsuOnholdRbs EXCEPT ![q] = @ + srv.bands]
           cus == [k.rsuOnholdCus EXCEPT ![p] = Least(@ + srv.cmpUnits, h.cmpUnits[p])]
           w == [k EXCEPT !.unscheduledApps = @ \ {a}, !.appsWaitInitFb = @ \cup {a},
                          !.srvInInitiating = inits, !.rsuOnholdRbs = rbs, !.rsuOnholdCus = cus]
<1>1. /\ p \in Gnbs /\ q \in Gnbs /\ a \in Apps
      /\ srv.cmpUnits \in Nat /\ srv.bands \in Nat /\ h.cmpUnits \in [Gnbs -> Int]
  BY DEF ServiceInstance, SchedRecord
<1>2. OnlySent(h, k) /\ Commands(h, k, srv, TRUE)
  BY PacketFields
<1>3. PICK m \in CommandTo(p) :
         /\ m.app = a /\ m.start = TRUE /\ m.offloadGnb = q /\ m.cmpUnits = srv.cmpUnits
         /\ \A g \in Gnbs : k.out[g] = IF g = p THEN Append(h.out[g], m) ELSE h.out[g]
  BY <1>2 DEF Commands
<1> HIDE DEF k
<1>4. /\ k \in SchedRecord /\ k.srvInInitiating \in [Apps -> ServiceInstance \cup {NoInstance}]
      /\ k.rsuOnholdRbs \in [Gnbs -> Nat] /\ k.rsuOnholdCus \in [Gnbs -> Nat]
      /\ k.srvInInitiating = h.srvInInitiating
      /\ k.rsuOnholdRbs = h.rsuOnholdRbs /\ k.rsuOnholdCus = h.rsuOnholdCus
  BY <1>2 DEF OnlySent, SchedRecord
<1>5. GrantInstance(h, srv) = w
  <2>1. GrantInstance(h, srv) =
          [k EXCEPT !.unscheduledApps = @ \ {a}, !.appsWaitInitFb = @ \cup {a},
              !.srvInInitiating[a] = srv,
              !.rsuOnholdRbs[q] = @ + srv.bands,
              !.rsuOnholdCus[p] = Least(@ + srv.cmpUnits, h.cmpUnits[p])]
    BY DEF GrantInstance, k
  <2> QED BY <1>4, <2>1 DEF SchedRecord
<1>6. rbs \in [Gnbs -> Nat] /\ cus \in [Gnbs -> Nat]
  <2>1. h.cmpUnits[p] \in Nat
    BY <1>1
  <2>2. \A x \in Nat : x + srv.bands \in Nat /\ Least(x + srv.cmpUnits, h.cmpUnits[p]) \in Nat
    BY <1>1, <2>1 DEF Least
  <2> HIDE DEF p, q
  <2> QED BY <1>1, <1>4, <2>2
<1>7. /\ inits \in [Apps -> ServiceInstance \cup {NoInstance}] /\ inits[a] = srv
      /\ \A b \in Apps : b # a => inits[b] = h.srvInInitiating[b]
  <2> HIDE DEF a
  <2> QED BY <1>1, <1>4
<1>8. /\ rbs = [h.rsuOnholdRbs EXCEPT ![q] = @ + srv.bands]
      /\ cus = [h.rsuOnholdCus EXCEPT ![p] = Least(@ + srv.cmpUnits, h.cmpUnits[p])]
  BY <1>4
<1> HIDE DEF rbs, cus, inits
<1>9. /\ w \in SchedRecord /\ w.out = k.out
      /\ w.appInfo = h.appInfo /\ w.blank = h.blank /\ w.vehApps = h.vehApps
      /\ w.unscheduledApps = h.unscheduledApps \ {a}
      /\ w.appsWaitInitFb = h.appsWaitInitFb \cup {a}
      /\ w.allocatedApps = h.allocatedApps /\ w.srvInInitiating = inits
      /\ w.appsWaitStopFb = h.appsWaitStopFb /\ w.cmpUnits = h.cmpUnits
      /\ w.preSchedCheck = h.preSchedCheck /\ w.schedComplete = h.schedComplete
      /\ w.rsuOnholdRbs = rbs /\ w.rsuOnholdCus = cus /\ w.rsuStatus = h.rsuStatus
  BY <1>1, <1>2, <1>4, <1>6, <1>7, ZenonT(60) DEF OnlySent, SchedRecord
<1> HIDE DEF w
<1>10. \A g \in Gnbs : w.out[g] = IF g = p THEN Append(h.out[g], m) ELSE h.out[g]
  BY <1>3, <1>9
<1> HIDE DEF a, p, q
<1> QED BY <1>3, <1>5, <1>7, <1>8, <1>9, <1>10 DEF a, p, q, Granted

\* one more is sent, or there are no units for it
LEMMA SendOneMore ==
  ASSUME NEW s, NEW i \in Nat, NEW h, Sent(s, h, i), NEW srv \in ServiceInstance,
         srv = s.vecSchedule[i + 1], srv.app \in s.appInfo,
         \A j \in 1 .. i : s.vecSchedule[j].app # srv.app
  PROVE  Sent(s, GrantInstance(h, srv), i + 1)
<1> DEFINE a == srv.app
           p == srv.processGnb
           q == srv.offloadGnb
           w == GrantInstance(h, srv)
<1>1. /\ a \in h.appInfo /\ p \in Gnbs /\ q \in Gnbs /\ a \in Apps
      /\ h \in SchedRecord /\ OnePlace(h)
      /\ h.allocatedApps = {} /\ a \notin h.appsWaitInitFb
  <2>1. a \notin h.appsWaitInitFb
    <3> SUFFICES ASSUME a \in h.appsWaitInitFb PROVE FALSE
      OBVIOUS
    <3>1. PICK j \in 1 .. i : h.srvInInitiating[a] = s.vecSchedule[j]
      BY DEF Sent
    <3>2. h.srvInInitiating[a].app = a
      BY DEF Sent
    <3> QED BY <3>1, <3>2
  <2>2. h \in SchedRecord /\ OnePlace(h) /\ h.allocatedApps = {} /\ h.appInfo = s.appInfo
    BY DEF Sent
  <2>3. p \in Gnbs /\ q \in Gnbs /\ a \in Apps
    BY DEF ServiceInstance
  <2> QED BY <2>1, <2>2, <2>3
<1>2. CASE h.cmpUnits[p] < srv.cmpUnits
  <2>1. GrantInstance(h, srv) = h
    BY <1>2 DEF GrantInstance
  <2>2. \A b \in h.appsWaitInitFb : \E j \in 1 .. i + 1 : h.srvInInitiating[b] = s.vecSchedule[j]
    <3>1. 1 .. i \subseteq 1 .. i + 1
      OBVIOUS
    <3> QED BY <3>1 DEF Sent
  <2> QED BY <2>1, <2>2 DEF Sent
<1>3. CASE ~(h.cmpUnits[p] < srv.cmpUnits)
  <2>0. Granted(h, w, srv)
    BY <1>1, <1>3, GrantFields
  <2> HIDE DEF w
  <2>1. /\ w \in SchedRecord
        /\ w.appInfo = h.appInfo /\ w.blank = h.blank /\ w.vehApps = h.vehApps
        /\ w.unscheduledApps = h.unscheduledApps \ {a}
        /\ w.appsWaitInitFb = h.appsWaitInitFb \cup {a}
        /\ w.allocatedApps = {} /\ w.rsuStatus = h.rsuStatus
        /\ w.appsWaitStopFb = h.appsWaitStopFb /\ w.cmpUnits = h.cmpUnits
        /\ w.preSchedCheck = h.preSchedCheck /\ w.schedComplete = h.schedComplete
        /\ w.srvInInitiating[a] = srv
        /\ \A b \in Apps : b # a => w.srvInInitiating[b] = h.srvInInitiating[b]
    BY <1>1, <2>0, SMTT(60) DEF Granted
  <2>2. PICK m \in CommandTo(p) :
           /\ m.app = a /\ m.start = TRUE /\ m.offloadGnb = q
           /\ \A g \in Gnbs : w.out[g] = IF g = p THEN Append(h.out[g], m) ELSE h.out[g]
    BY <2>0 DEF Granted
  <2>8. OnePlace(w)
    BY <1>1, <2>1 DEF OnePlace
  <2>9. /\ m \in Start(a) /\ m \notin AllStops /\ m \notin StartBut(a, q)
        /\ \A b : b # a => m \notin About(b)
    BY <1>1, <2>2, CommandKinds
  <2>10. \A b : b # a => m \notin Start(b) /\ \A o : m \notin StartBut(b, o)
    BY <2>9 DEF About, StartBut
  <2>11. \A g \in Gnbs : h.out[g] \in Seq(CommandTo(g)) /\ ~Has(h.out[g], AllStops)
    BY DEF Sent
  <2>12. /\ Append(h.out[p], m) \in Seq(CommandTo(p))
         /\ \A M : Has(Append(h.out[p], m), M) <=> Has(h.out[p], M) \/ m \in M
         /\ \A M : Once(h.out[p], M) /\ (m \in M => ~Has(h.out[p], M)) =>
               Once(Append(h.out[p], m), M)
    <3>1. h.out[p] \in Seq(CommandTo(p))
      BY <1>1, <2>11
    <3> QED BY <3>1, HasAppend, OnceAppend
  <2>13. ASSUME NEW g \in Gnbs
         PROVE  /\ w.out[g] \in Seq(CommandTo(g))
                /\ \A M : Has(w.out[g], M) <=> Has(h.out[g], M) \/ (g = p /\ m \in M)
                /\ \A M : Once(h.out[g], M) /\ (g = p /\ m \in M => ~Has(h.out[g], M)) =>
                      Once(w.out[g], M)
    <3>1. CASE g = p
      <4>1. w.out[g] = Append(h.out[p], m)
        BY <2>2, <3>1
      <4> QED BY <2>12, <3>1, <4>1, Zenon
    <3>2. CASE g # p
      <4>1. w.out[g] = h.out[g]
        BY <2>2, <3>2
      <4> QED BY <2>11, <3>2, <4>1
    <3> QED BY <3>1, <3>2, SMTT(60)
  <2>14. \A g \in Gnbs : ~Has(w.out[g], AllStops)
    BY <2>9, <2>11, <2>13
  <2>15. \A g \in Gnbs : ~Has(h.out[g], Start(a))
    BY <1>1 DEF Sent
  <2>16. ASSUME NEW g \in Gnbs, NEW b \in Apps
         PROVE  /\ Once(w.out[g], Start(b))
                /\ Has(w.out[g], Start(b)) =>
                      /\ b \in w.appsWaitInitFb /\ w.srvInInitiating[b].processGnb = g
                      /\ ~Has(w.out[g], StartBut(b, w.srvInInitiating[b].offloadGnb))
    <3>1. CASE b = a
      <4>1. Once(h.out[g], Start(a))
        BY <1>1 DEF Sent
      <4>2. Once(w.out[g], Start(a))
        BY <2>13, <2>15, <4>1
      <4>3. Has(w.out[g], Start(a)) => g = p
        BY <2>13, <2>15
      <4>4. ~Has(w.out[g], StartBut(a, q))
        <5>1. ~Has(h.out[g], StartBut(a, q))
          BY <2>15, HasPart
        <5> QED BY <2>9, <2>13, <5>1
      <4> QED BY <2>1, <3>1, <4>2, <4>3, <4>4
    <3>2. CASE b # a
      <4>1. /\ Once(h.out[g], Start(b))
            /\ Has(h.out[g], Start(b)) =>
                  /\ b \in h.appsWaitInitFb /\ h.srvInInitiating[b].processGnb = g
                  /\ ~Has(h.out[g], StartBut(b, h.srvInInitiating[b].offloadGnb))
        BY DEF Sent
      <4>2. Once(w.out[g], Start(b))
        BY <2>10, <2>13, <3>2, <4>1
      <4>3. /\ Has(w.out[g], Start(b)) <=> Has(h.out[g], Start(b))
            /\ \A o : Has(w.out[g], StartBut(b, o)) <=> Has(h.out[g], StartBut(b, o))
        BY <2>10, <2>13, <3>2
      <4>4. w.srvInInitiating[b] = h.srvInInitiating[b]
        BY <2>1, <3>2
      <4> QED BY <2>1, <4>1, <4>2, <4>3, <4>4
    <3> QED BY <3>1, <3>2
  <2>17. ASSUME NEW b \in w.appsWaitInitFb
         PROVE  /\ \E j \in 1 .. i + 1 : w.srvInInitiating[b] = s.vecSchedule[j]
                /\ w.srvInInitiating[b] \in ServiceInstance /\ w.srvInInitiating[b].app = b
                /\ Has(w.out[w.srvInInitiating[b].processGnb], Start(b))
    <3>1. CASE b = a
      <4>1. i + 1 \in 1 .. i + 1
        OBVIOUS
      <4>2. Has(w.out[p], Start(a))
        BY <1>1, <2>9, <2>13
      <4> QED BY <2>1, <3>1, <4>1, <4>2
    <3>2. CASE b # a
      <4>1. /\ b \in h.appsWaitInitFb /\ b \in Apps
        BY <1>1, <2>1, <3>2 DEF SchedRecord
      <4>2. /\ \E j \in 1 .. i : h.srvInInitiating[b] = s.vecSchedule[j]
            /\ h.srvInInitiating[b] \in ServiceInstance /\ h.srvInInitiating[b].app = b
            /\ Has(h.out[h.srvInInitiating[b].processGnb], Start(b))
        BY <4>1 DEF Sent
      <4>3. w.srvInInitiating[b] = h.srvInInitiating[b]
        BY <2>1, <3>2, <4>1
      <4>4. h.srvInInitiating[b].processGnb \in Gnbs
        BY <4>2 DEF ServiceInstance
      <4>5. 1 .. i \subseteq 1 .. i + 1
        OBVIOUS
      <4> QED BY <2>13, <4>2, <4>3, <4>4, <4>5
    <3> QED BY <3>1, <3>2, SMTT(60)
  <2>18. Sent(s, w, i + 1)
    <3> HIDE DEF a, p, q
    <3> QED BY <2>1, <2>8, <2>13, <2>14, <2>16, <2>17 DEF Sent
  <2> QED BY <2>18 DEF w
<1> QED BY <1>2, <1>3

\* they are sent one after the other
LEMMA SentSteps ==
  ASSUME NEW s, SchedOk(s), Served(s) = {}, s.schedComplete, s.out = NothingSent
  PROVE  LET N == Len(s.vecSchedule)
         IN  \E f : /\ SendGrant(s) = [f[N] EXCEPT !.vecSchedule = <<>>]
                    /\ f[0] = [s EXCEPT !.schedComplete = FALSE]
                    /\ \A i \in 1 .. N : f[i] = GrantInstance(f[i - 1], s.vecSchedule[i])
                    /\ \A i \in 0 .. N : Sent(s, f[i], i)
<1> DEFINE N == Len(s.vecSchedule)
<1>1. /\ s \in SchedRecord /\ OnePlace(s) /\ s.appsWaitInitFb = {} /\ s.allocatedApps = {}
      /\ \A i \in DOMAIN s.vecSchedule : s.vecSchedule[i].app \in s.appInfo
      /\ \A i, j \in DOMAIN s.vecSchedule : s.vecSchedule[i].app = s.vecSchedule[j].app => i = j
  BY DEF SchedOk, Served, Planned
<1>2. /\ s.vecSchedule \in Seq(ServiceInstance) /\ N \in Nat /\ DOMAIN s.vecSchedule = 1 .. N
      /\ \A i \in 1 .. N : s.vecSchedule[i] \in ServiceInstance
  <2> DEFINE S == ServiceInstance
  <2>1. s.vecSchedule \in Seq(S)
    BY <1>1 DEF SchedRecord
  <2> HIDE DEF S
  <2>2. N \in Nat /\ DOMAIN s.vecSchedule = 1 .. N /\ \A i \in 1 .. N : s.vecSchedule[i] \in S
    BY <2>1
  <2> QED BY <2>1, <2>2 DEF S
<1>3. PICK f : /\ SendGrant(s) = [f[N] EXCEPT !.vecSchedule = <<>>]
               /\ f[0] = [s EXCEPT !.schedComplete = FALSE]
               /\ \A i \in 1 .. N : f[i] = GrantInstance(f[i - 1], s.vecSchedule[i])
  BY <1>2, SendGrantSteps
<1> HIDE DEF N
<1> DEFINE S == {i \in 0 .. N : Sent(s, f[i], i)}
<1>4. 0 \in S
  <2> DEFINE z == [s EXCEPT !.schedComplete = FALSE]
  <2>1. /\ z \in SchedRecord /\ z.out = NothingSent /\ z.appInfo = s.appInfo
        /\ z.blank = s.blank /\ z.vehApps = s.vehApps
        /\ z.unscheduledApps = s.unscheduledApps /\ z.appsWaitInitFb = {}
        /\ z.allocatedApps = {} /\ z.appsWaitStopFb = s.appsWaitStopFb
        /\ z.cmpUnits = s.cmpUnits /\ z.preSchedCheck = s.preSchedCheck
        /\ z.schedComplete = FALSE /\ z.rsuStatus = s.rsuStatus
    BY <1>1 DEF SchedRecord
  <2> HIDE DEF z
  <2>2. OnePlace(z)
    BY <1>1, <2>1 DEF OnePlace
  <2>3. \A g \in Gnbs : z.out[g] = <<>>
    BY <2>1 DEF NothingSent
  <2>4. \A g \in Gnbs : z.out[g] \in Seq(CommandTo(g))
    <3> SUFFICES ASSUME NEW g \in Gnbs PROVE z.out[g] \in Seq(CommandTo(g))
      OBVIOUS
    <3> DEFINE R == CommandTo(g)
    <3> HIDE DEF R
    <3>1. <<>> \in Seq(R)
      OBVIOUS
    <3> QED BY <2>3, <3>1 DEF R
  <2>5. Sent(s, z, 0)
    BY <2>1, <2>2, <2>3, <2>4, HasEmpty DEF Sent
  <2>6. f[0] = z
    BY <1>3 DEF z
  <2> QED BY <1>2, <2>5, <2>6
<1>5. ASSUME NEW i \in 0 .. N, i # N, i \in S
      PROVE  i + 1 \in S
  <2>1. i + 1 \in 1 .. N /\ i + 1 \in 0 .. N /\ (i + 1) - 1 = i /\ i \in Nat
    BY <1>2, <1>5
  <2>2. f[i + 1] = GrantInstance(f[i], s.vecSchedule[i + 1])
    BY <1>3, <2>1
  <2>3. Sent(s, f[i], i)
    BY <1>5
  <2>4. /\ s.vecSchedule[i + 1] \in ServiceInstance /\ s.vecSchedule[i + 1].app \in s.appInfo
    BY <1>1, <1>2, <2>1
  <2>5. \A j \in 1 .. i : s.vecSchedule[j].app # s.vecSchedule[i + 1].app
    <3> SUFFICES ASSUME NEW j \in 1 .. i, s.vecSchedule[j].app = s.vecSchedule[i + 1].app
                 PROVE  FALSE
      OBVIOUS
    <3>1. j \in 1 .. N /\ j # i + 1
      BY <1>2, <2>1
    <3> QED BY <1>1, <1>2, <2>1, <3>1
  <2>6. Sent(s, f[i + 1], i + 1)
    BY <2>1, <2>2, <2>3, <2>4, <2>5, SendOneMore
  <2> QED BY <2>1, <2>6
<1>6. \A i \in 0 .. N : i \in S
  <2>1. N \in Nat
    BY <1>2
  <2> HIDE DEF S
  <2> QED BY <1>4, <1>5, <2>1, UpTo
<1>7. \A i \in 0 .. N : Sent(s, f[i], i)
  BY <1>6
<1> QED BY <1>3, <1>7 DEF N

\* all of them are sent
LEMMA AllSent ==
  ASSUME NEW s, SchedOk(s), Served(s) = {}, s.schedComplete, s.out = NothingSent
  PROVE  /\ Sent(s, SendGrant(s), Len(s.vecSchedule)) /\ SchedOk(SendGrant(s))
<1> DEFINE N == Len(s.vecSchedule)
<1>1. PICK f : /\ SendGrant(s) = [f[N] EXCEPT !.vecSchedule = <<>>]
               /\ \A i \in 0 .. N : Sent(s, f[i], i)
  BY SentSteps
<1>2. N \in 0 .. N
  <2> DEFINE R == ServiceInstance
  <2>1. s.vecSchedule \in Seq(R)
    BY DEF SchedOk, SchedRecord
  <2> HIDE DEF R
  <2> QED BY <2>1
<1> HIDE DEF N
<1>3. Sent(s, f[N], N)
  BY <1>1, <1>2
<1> DEFINE h == f[N]
           w == [h EXCEPT !.vecSchedule = <<>>]
<1> HIDE DEF h
<1>4. h \in SchedRecord /\ Sent(s, h, N) /\ SendGrant(s) = w
  BY <1>1, <1>3 DEF h, Sent
<1>5. <<>> \in Seq(ServiceInstance)
  <2> DEFINE R == ServiceInstance
  <2> HIDE DEF R
  <2>1. <<>> \in Seq(R)
    OBVIOUS
  <2> QED BY <2>1 DEF R
<1>6. /\ w \in SchedRecord /\ w.out = h.out /\ w.appInfo = h.appInfo
       /\ w.blank = h.blank /\ w.vehApps = h.vehApps
       /\ w.unscheduledApps = h.unscheduledApps /\ w.appsWaitInitFb = h.appsWaitInitFb
       /\ w.allocatedApps = h.allocatedApps /\ w.appsWaitStopFb = h.appsWaitStopFb
       /\ w.cmpUnits = h.cmpUnits /\ w.preSchedCheck = h.preSchedCheck
       /\ w.schedComplete = h.schedComplete /\ w.srvInInitiating = h.srvInInitiating
       /\ w.runningService = h.runningService /\ w.rsuStatus = h.rsuStatus
  BY <1>4, <1>5 DEF SchedRecord
<1> HIDE DEF w
<1>7. OnePlace(w)
  BY <1>4, <1>6 DEF Sent, OnePlace
<1>8. Sent(s, w, N)
  BY <1>4, <1>6, <1>7 DEF Sent
<1>9. SchedOk(w)
  BY <1>8 DEF Sent, SchedOk, Served, Instance, Planned
<1> QED BY <1>4, <1>8, <1>9 DEF N

\* the starts are sent when nothing is left of the services
LEMMA ScheduleCompleteKeeps ==
  ASSUME IInv, ScheduleComplete
  PROVE  IInv'
<1> DEFINE h == SendGrant(sched)
<1>1. Sound /\ SchedOk(sched) /\ sched.out = NothingSent /\ sched \in SchedRecord
  BY DEF IInv, Sound, SchedOk
<1>2. /\ sched.schedComplete /\ PerformScheduler(h)
      /\ UNCHANGED <<hasScheduler, server, carried, toMac, fromMac, reports>>
  BY DEF ScheduleComplete
<1>3. Served(sched) = {} /\ \A a \in Apps : Vacant(a)
  <2>1. \A a \in Apps : a \notin Served(sched) /\ Vacant(a)
    BY <1>2 DEF IInv, Life
  <2>2. Served(sched) \subseteq Apps
    BY <1>1 DEF SchedRecord, Served
  <2> QED BY <2>1, <2>2
<1>4. sched.preSchedCheck
  BY <1>1, <1>2 DEF SchedOk, Planned
<1>5. Sent(sched, h, Len(sched.vecSchedule)) /\ SchedOk(h)
  BY <1>1, <1>2, <1>3, AllSent
<1> HIDE DEF h
<1>6. SchedTurned(h)
  BY <1>2, <1>5, SchedPerforms
<1>7. /\ sched'.allocatedApps = {} /\ sched'.cmpUnits = sched.cmpUnits
      /\ sched'.preSchedCheck = TRUE /\ sched'.appsWaitStopFb = sched.appsWaitStopFb
      /\ sched'.schedComplete = FALSE
      /\ sched'.appsWaitInitFb = h.appsWaitInitFb /\ sched'.srvInInitiating = h.srvInInitiating
  BY <1>1, <1>4, <1>5, <1>6 DEF SchedTurned, Sent, SchedRecord
<1>8. ASSUME NEW a \in h.appsWaitInitFb
      PROVE  /\ h.srvInInitiating[a] \in ServiceInstance
             /\ Has(h.out[h.srvInInitiating[a].processGnb], Start(a))
  BY <1>5 DEF Sent
<1>9. \A g \in Gnbs : h.out[g] \in Seq(CommandTo(g)) /\ ~Has(h.out[g], AllStops)
  BY <1>5 DEF Sent
<1>10. \A g \in Gnbs : \A a \in Apps :
          /\ Once(h.out[g], Start(a))
          /\ Has(h.out[g], Start(a)) =>
                /\ a \in h.appsWaitInitFb /\ h.srvInInitiating[a].processGnb = g
                /\ ~Has(h.out[g], StartBut(a, h.srvInInitiating[a].offloadGnb))
  BY <1>5 DEF Sent
<1>11. ASSUME NEW g \in Gnbs
       PROVE  /\ \A M : Has(commands'[g], M) <=> Has(commands[g], M) \/ Has(h.out[g], M)
              /\ \A M : Once(h.out[g], M) /\ ~Has(commands[g], M) => Once(commands'[g], M)
  <2>1. commands[g] \in Seq(CommandTo(g)) /\ h.out[g] \in Seq(CommandTo(g))
        /\ commands'[g] = commands[g] \o h.out[g]
    BY <1>1, <1>6, <1>9 DEF Sound, SchedTurned
  <2> QED BY <2>1, HasConcat
<1>12. \A g \in Gnbs : ~Has(commands[g], AllStops)
  BY <1>2 DEF IInv, Stops
<1>13. Sound'
  <2>1. DOMAIN reports' = Gnbs /\ \A n \in Gnbs : reports'[n] \in Seq(StatusOf(n))
    BY <1>1, <1>2 DEF Sound
  <2> QED BY <1>1, <1>2, <1>6, <1>9, <2>1, SoundSched
<1>14. ASSUME NEW a \in Apps PROVE Life(a)'
  <2>1. Life(a) /\ Vacant(a) /\ a \notin Served(sched)
    BY <1>3 DEF IInv
  <2>2. \A n \in Gnbs : /\ ~Has(commands[n], Start(a))
                        /\ \A o : ~Has(commands[n], StartBut(a, o))
    BY <2>1, HasPart DEF Vacant
  <2>3. \A n \in Gnbs : /\ Has(commands'[n], Start(a)) <=> Has(h.out[n], Start(a))
                        /\ \A o : Has(commands'[n], StartBut(a, o)) <=> Has(h.out[n], StartBut(a, o))
                        /\ Once(commands'[n], Start(a))
    BY <1>10, <1>11, <2>2
  <2>4. \A n \in Gnbs : Once(toMac[n], Begin(a))
    BY <2>1 DEF Life, Single
  <2>5. Single(a)'
    BY <1>2, <1>10, <2>1, <2>3, <2>4 DEF Vacant, Single
  <2>6. \A o, p \in Gnbs : Wire(o, p, a)'
    BY <1>2, <2>1 DEF Life, Wire
  <2>7. ASSUME AllFound' PROVE Booked(a)'
    <3>0. Booked(a)
      BY <1>2, <2>1, <2>7 DEF Life, AllFound
    <3>1. \A n \in Gnbs : ~Has(reports[n], Say(a))
      BY <2>1, <3>0 DEF Booked, AnswerBooked
    <3>2. a \in h.appsWaitInitFb => Instance(sched', a) = h.srvInInitiating[a]
      BY <1>7 DEF Instance
    <3>3. \A n \in Gnbs : StartBooked(n, a)'
      BY <1>2, <1>7, <1>10, <2>3, <3>1, <3>2 DEF StartBooked
    <3>4. \A n \in Gnbs : ServiceBooked(n, a)' /\ AnswerBooked(n, a)'
      BY <1>2, <2>1, <3>1 DEF ServiceBooked, AnswerBooked, Vacant
    <3>5. Accounted(a)'
      <4> SUFFICES ASSUME a \in h.appsWaitInitFb PROVE Accounted(a)'
        BY <1>7 DEF Accounted, Served
      <4>1. h.srvInInitiating[a].processGnb \in Gnbs
        BY <1>8 DEF ServiceInstance
      <4>2. Has(commands'[h.srvInInitiating[a].processGnb], Start(a))
        BY <1>8, <2>3, <4>1
      <4> QED BY <1>7, <3>2, <4>2 DEF Accounted
    <3> QED BY <3>3, <3>4, <3>5 DEF Booked
  <2> QED BY <1>7, <2>5, <2>6, <2>7 DEF Life
<1>15. \A n \in Gnbs : ~Has(commands'[n], AllStops)
  BY <1>9, <1>11, <1>12
<1>16. Stops'
  BY <1>15 DEF Stops
<1>17. Phase'
  BY <1>2, <1>4, <1>7, <1>15 DEF IInv, Phase, AllFound
<1>18. \A n \in Gnbs : Counts(n)'
  BY <1>2, <1>7 DEF IInv, Counts, AllFound
<1> QED BY <1>13, <1>14, <1>16, <1>17, <1>18 DEF IInv

-----------------------------------------------------------------------------
(* The loss of the scheduler and the election of the next.                 *)

\* a scheduler that has not started anything yet
LEMMA InitialSchedFields ==
  LET z == InitialScheduler
  IN  /\ z \in SchedRecord /\ z.out = NothingSent /\ z.appsWaitInitFb = {}
      /\ z.allocatedApps = {} /\ z.preSchedCheck = FALSE /\ z.schedComplete = FALSE
      /\ z.cmpUnits = [g \in Gnbs |-> 0]
      /\ z.unscheduledApps = {} /\ z.appInfo = {} /\ z.blank = {} /\ z.vehApps = {}
<1> DEFINE z == InitialScheduler
<1>1. NothingSent \in [Gnbs -> Seq(SrvGrant)]
  <2> DEFINE S == SrvGrant
  <2> HIDE DEF S
  <2>1. <<>> \in Seq(S)
    OBVIOUS
  <2> QED BY <2>1 DEF NothingSent, S
<1>2. <<>> \in Seq(ServiceInstance)
  <2> DEFINE R == ServiceInstance
  <2> HIDE DEF R
  <2>1. <<>> \in Seq(R)
    OBVIOUS
  <2> QED BY <2>1 DEF R
<1>3. /\ z \in SchedRecord /\ z.out = NothingSent /\ z.appsWaitInitFb = {}
      /\ z.allocatedApps = {} /\ z.preSchedCheck = FALSE /\ z.schedComplete = FALSE
      /\ z.cmpUnits = [g \in Gnbs |-> 0]
      /\ z.unscheduledApps = {} /\ z.appInfo = {} /\ z.blank = {} /\ z.vehApps = {}
  <2> DEFINE I == [a \in Apps |-> NoInstance]
             O == [g \in Gnbs |-> 0]
             V == [u \in Ues |-> {}]
  <2>1. /\ I \in [Apps -> ServiceInstance \cup {NoInstance}] /\ O \in [Gnbs -> Int]
        /\ O \in [Gnbs -> Nat] /\ V \in [Ues -> SUBSET Gnbs]
    OBVIOUS
  <2>2. z = [appInfo |-> {}, blank |-> {}, vehApps |-> {}, unscheduledApps |-> {},
             appsWaitInitFb |-> {}, appsWaitStopFb |-> {}, allocatedApps |-> {},
             srvInInitiating |-> I, runningService |-> I,
             rsuStatus |-> {}, cmpUnits |-> O, rsuOnholdRbs |-> O, rsuOnholdCus |-> O,
             vehAccessRsu |-> V, vecSchedule |-> <<>>,
             schedStarter |-> FALSE, preSchedCheck |-> FALSE, schedComplete |-> FALSE,
             out |-> NothingSent]
    BY DEF InitialScheduler
  <2> HIDE DEF I, O, V, z
  <2>3. /\ z \in SchedRecord /\ z.out = NothingSent /\ z.appsWaitInitFb = {}
        /\ z.allocatedApps = {} /\ z.preSchedCheck = FALSE /\ z.schedComplete = FALSE
        /\ z.cmpUnits = O
        /\ z.unscheduledApps = {} /\ z.appInfo = {} /\ z.blank = {} /\ z.vehApps = {}
    BY <1>1, <1>2, <2>1, <2>2 DEF SchedRecord
  <2> QED BY <2>3 DEF O
<1> QED BY <1>3 DEF z

\* a scheduler that is reset keeps the requests and runs nothing
ResetFrom(s, h) ==
    /\ SchedOk(h) /\ h.out = NothingSent /\ Served(h) = {}
    /\ h.appsWaitInitFb = {} /\ h.allocatedApps = {}
    /\ h.preSchedCheck = FALSE /\ h.schedComplete = FALSE
    /\ h.cmpUnits = [g \in Gnbs |-> 0]

\* both when it ends and when it begins
LEMMA ResetFields ==
  ASSUME NEW s, SchedOk(s)
  PROVE  ResetFrom(s, GlobalSchedulerReset(s)) /\ ResetFrom(s, GlobalSchedulerInit(s))
<1> DEFINE U == s.unscheduledApps \cup s.appsWaitInitFb \cup s.allocatedApps
           z == InitialScheduler
           h == GlobalSchedulerReset(s)
           k == GlobalSchedulerInit(s)
<1>1. s \in SchedRecord /\ OnePlace(s)
  BY DEF SchedOk
<1>4. /\ z \in SchedRecord /\ z.out = NothingSent /\ z.appsWaitInitFb = {}
      /\ z.allocatedApps = {} /\ z.preSchedCheck = FALSE /\ z.schedComplete = FALSE
      /\ z.cmpUnits = [g \in Gnbs |-> 0]
  BY InitialSchedFields
<1> HIDE DEF z
<1>5. U \in SUBSET Apps
  BY <1>1 DEF SchedRecord
<1>6. h = [z EXCEPT !.appInfo = s.appInfo, !.blank = s.blank, !.vehApps = s.vehApps,
                    !.unscheduledApps = U, !.appsWaitStopFb = s.appsWaitStopFb]
  BY DEF GlobalSchedulerReset, z
<1>7. k = [h EXCEPT !.schedStarter = TRUE]
  BY DEF GlobalSchedulerInit
<1> HIDE DEF h, k, U
<1>8. /\ h \in SchedRecord /\ h.out = NothingSent
      /\ h.appInfo = s.appInfo /\ h.blank = s.blank /\ h.vehApps = s.vehApps
      /\ h.unscheduledApps = U /\ h.appsWaitInitFb = {} /\ h.allocatedApps = {}
      /\ h.preSchedCheck = FALSE /\ h.schedComplete = FALSE
      /\ h.cmpUnits = [g \in Gnbs |-> 0]
  BY <1>1, <1>4, <1>5, <1>6, Zenon DEF SchedRecord
<1>9. /\ k \in SchedRecord /\ k.out = NothingSent
      /\ k.appInfo = s.appInfo /\ k.blank = s.blank /\ k.vehApps = s.vehApps
      /\ k.unscheduledApps = U /\ k.appsWaitInitFb = {} /\ k.allocatedApps = {}
      /\ k.preSchedCheck = FALSE /\ k.schedComplete = FALSE
      /\ k.cmpUnits = [g \in Gnbs |-> 0]
  BY <1>7, <1>8 DEF SchedRecord
<1>10. OnePlace(h) /\ OnePlace(k)
  BY <1>1, <1>8, <1>9 DEF OnePlace, U
<1>11. Served(h) = {} /\ Served(k) = {} /\ Planned(h) /\ Planned(k)
  BY <1>8, <1>9 DEF Served, Planned
<1>12. SchedOk(h) /\ SchedOk(k)
  BY <1>8, <1>9, <1>10, <1>11 DEF SchedOk
<1> QED BY <1>8, <1>9, <1>11, <1>12 DEF ResetFrom, h, k

\* a node loses the scheduler
LEMMA LoseSchedulerKeeps ==
  ASSUME IInv, NEW n \in Gnbs, LoseScheduler(n)
  PROVE  IInv'
<1> DEFINE v == InitialServer(n)
<1>1. Sound /\ SchedOk(sched)
  BY DEF IInv, Sound
<1>2. /\ hasScheduler' = [hasScheduler EXCEPT ![n] = FALSE]
      /\ server' = [server EXCEPT ![n] = ReleaseServerResources(@)]
      /\ carried' = [carried EXCEPT ![n] = [a \in Apps |-> NoGnb]]
      /\ sched' = IF n = Host THEN GlobalSchedulerReset(sched) ELSE sched
      /\ UNCHANGED <<commands, fromMac, reports>>
  BY DEF LoseScheduler
<1>3. PICK kept \in {toMac[n], <<>>} : toMac' = [toMac EXCEPT ![n] = kept]
  BY DEF LoseScheduler
<1>4. ReleaseServerResources(server[n]) = v
  <2>1. server[n].gnbId = n /\ server[n].out = <<>>
    BY <1>1 DEF Sound, Fine, ServerRecord
  <2>2. v \in ServerRecord(n) /\ v.out = <<>>
    BY InitialServerFine DEF Fine
  <2>3. [v EXCEPT !.out = <<>>] = v
    <3> HIDE DEF v
    <3> QED BY <2>2 DEF ServerRecord
  <2> QED BY <2>1, <2>3 DEF ReleaseServerResources
<1>5. /\ Fine(v, n) /\ v.out = <<>> /\ v.granted = {} /\ v.srvInInitVector = <<>>
  BY InitialServerFine
<1>6. /\ DOMAIN server' = Gnbs /\ server'[n] = v
      /\ \A m \in Gnbs : m # n => server'[m] = server[m]
  BY <1>1, <1>2, <1>4 DEF Sound
<1> HIDE DEF v
<1>7. /\ hasScheduler' \in [Gnbs -> BOOLEAN] /\ ~hasScheduler'[n]
      /\ \A m \in Gnbs : m # n => hasScheduler'[m] = hasScheduler[m]
      /\ ~AllFound'
  BY <1>1, <1>2 DEF Sound, AllFound
<1>8. /\ carried' \in [Gnbs -> [Apps -> Gnbs \cup {NoGnb}]]
      /\ \A a \in Apps : carried'[n][a] = NoGnb
      /\ \A m \in Gnbs : m # n => carried'[m] = carried[m]
  BY <1>1, <1>2 DEF Sound
<1>9. /\ DOMAIN toMac' = Gnbs
      /\ \A m \in Gnbs : toMac'[m] = toMac[m] \/ toMac'[m] = <<>>
  BY <1>1, <1>3 DEF Sound
<1>10. \A m \in Gnbs : toMac'[m] \in Seq(GrantTo(m))
  <2> SUFFICES ASSUME NEW m \in Gnbs PROVE toMac'[m] \in Seq(GrantTo(m))
    OBVIOUS
  <2>1. toMac[m] \in Seq(GrantTo(m))
    BY <1>1 DEF Sound
  <2> DEFINE S == GrantTo(m)
  <2> HIDE DEF S
  <2>2. <<>> \in Seq(S)
    OBVIOUS
  <2> QED BY <1>9, <2>1, <2>2 DEF S
<1>11. \A m \in Gnbs : \A M : /\ Has(toMac'[m], M) => Has(toMac[m], M)
                              /\ Once(toMac[m], M) => Once(toMac'[m], M)
  BY <1>9, HasEmpty
<1>12. /\ SchedOk(sched') /\ sched'.out = NothingSent
       /\ sched'.schedComplete => sched' = sched
  <2>1. ResetFrom(sched, GlobalSchedulerReset(sched))
    BY <1>1, ResetFields
  <2>2. CASE n = Host
    BY <1>2, <2>1, <2>2 DEF ResetFrom
  <2>3. CASE n # Host
    BY <1>1, <1>2, <2>3 DEF Sound
  <2> QED BY <2>2, <2>3
<1>13. Sound'
  <2>1. \A m \in Gnbs : Fine(server'[m], m) /\ server'[m].out = <<>>
    BY <1>1, <1>5, <1>6 DEF Sound
  <2>2. \A m \in Gnbs : ~hasScheduler'[m] =>
           server'[m] = InitialServer(m) /\ \A a \in Apps : carried'[m][a] = NoGnb
    <3> SUFFICES ASSUME NEW m \in Gnbs, ~hasScheduler'[m]
                 PROVE  server'[m] = InitialServer(m) /\ \A a \in Apps : carried'[m][a] = NoGnb
      OBVIOUS
    <3>1. CASE m = n
      BY <1>6, <1>8, <3>1 DEF v
    <3>2. CASE m # n
      BY <1>1, <1>6, <1>7, <1>8, <3>2 DEF Sound
    <3> QED BY <3>1, <3>2
  <2> QED BY <1>1, <1>2, <1>6, <1>7, <1>8, <1>9, <1>10, <1>12, <2>1, <2>2 DEF Sound
<1>14. ASSUME NEW a \in Apps PROVE Life(a)'
  <2>1. Life(a)
    BY DEF IInv
  <2>2. \A m \in Gnbs : /\ a \in server'[m].granted => /\ a \in server[m].granted
                                                       /\ server'[m] = server[m]
                        /\ carried'[m][a] # NoGnb => carried'[m][a] = carried[m][a]
                        /\ ~Has(toMac'[m], Begin(a)) \/ Has(toMac[m], Begin(a))
    BY <1>5, <1>6, <1>8, <1>11
  <2>3. Single(a)'
    <3>1. Single(a)
      BY <2>1 DEF Life
    <3>2. \A m \in Gnbs : a \in InitializingIn(server'[m]) => a \in InitializingIn(server[m])
      BY <2>2 DEF InitializingIn
    <3> QED BY <1>2, <1>11, <2>2, <3>1, <3>2, ZenonT(60) DEF Single
  <2>4. ASSUME NEW o \in Gnbs, NEW p \in Gnbs PROVE Wire(o, p, a)'
    <3>1. Wire(o, p, a) /\ p # NoGnb
      BY <2>1, MecTypesAssumption DEF Life
    <3>2. hasScheduler'[p] => hasScheduler[p] /\ server'[p] = server[p]
      BY <1>6, <1>7
    <3>3. carried'[o][a] = p => carried[o][a] = p
      BY <2>2, <3>1
    <3> QED BY <1>2, <1>11, <3>1, <3>2, <3>3 DEF Wire
  <2>5. sched'.schedComplete => a \notin Served(sched') /\ Vacant(a)'
    <3> SUFFICES ASSUME sched'.schedComplete
                 PROVE  a \notin Served(sched') /\ Vacant(a)'
      OBVIOUS
    <3>1. a \notin Served(sched) /\ Vacant(a) /\ sched' = sched
      BY <1>12, <2>1 DEF Life
    <3> QED BY <1>2, <2>2, <3>1 DEF Vacant
  <2> QED BY <1>7, <2>3, <2>4, <2>5 DEF Life
<1>15. Stops'
  <2>1. \A m \in Gnbs : server[m].srvInInitVector = <<>> => server'[m].srvInInitVector = <<>>
    BY <1>5, <1>6
  <2> QED BY <1>2, <1>12, <2>1 DEF IInv, Stops
<1>16. Phase' /\ \A m \in Gnbs : Counts(m)'
  BY <1>7 DEF Phase, Counts
<1> QED BY <1>13, <1>14, <1>15, <1>16 DEF IInv

\* an area that is quiet elects a scheduler
LEMMA ElectKeeps ==
  ASSUME IInv, Elect
  PROVE  IInv'
<1> DEFINE fd(n) == [type |-> "RsuFD", gnb |-> n, veh |-> NoUe,
                     bytePerBand |-> 0, availBand |-> 1,
                     freeCmpUnits |-> server[n].cmpUnitFree]
<1>1. Sound /\ SchedOk(sched)
  BY DEF IInv, Sound
<1>2. /\ \A n \in Gnbs : ~hasScheduler[n] /\ CarriedBy(n) = {} /\ reports[n] = <<>>
      /\ Quiet
      /\ hasScheduler' = [n \in Gnbs |-> TRUE]
      /\ sched' = GlobalSchedulerInit(sched)
      /\ reports' = [n \in Gnbs |-> <<fd(n)>>]
      /\ UNCHANGED <<server, carried, commands, toMac, fromMac>>
  BY DEF Elect
<1>3. ASSUME NEW n \in Gnbs
      PROVE  /\ server[n].granted = {} /\ fd(n) \in RsuFD /\ fd(n) \in StatusOf(n)
             /\ fd(n).type = "RsuFD" /\ Units(fd(n)) = server[n].cmpUnitFree
             /\ \A a : fd(n) \notin Say(a)
  <2>1. server[n] = InitialServer(n)
    BY <1>1, <1>2 DEF Sound
  <2>2. server[n].granted = {} /\ server[n].cmpUnitFree \in Int
    BY <1>1, <2>1, InitialServerFine, Zenon DEF Sound, Fine, ServerRecord
  <2>3. fd(n) \in RsuFD /\ fd(n).gnb = n
    BY <2>2 DEF RsuFD
  <2>4. \A a : fd(n) \notin Say(a)
    BY DEF Say, SrvFD, Refusal, Answer
  <2> QED BY <2>2, <2>3, <2>4 DEF StatusOf, Units
<1> HIDE DEF fd
<1>4. \A n \in Gnbs : /\ reports'[n] = <<fd(n)>> /\ reports'[n] \in Seq(StatusOf(n))
                      /\ \A a : ~Has(reports'[n], Say(a))
  <2> SUFFICES ASSUME NEW n \in Gnbs
               PROVE  /\ reports'[n] = <<fd(n)>> /\ reports'[n] \in Seq(StatusOf(n))
                      /\ \A a : ~Has(reports'[n], Say(a))
    OBVIOUS
  <2>1. reports'[n] = <<fd(n)>>
    BY <1>2
  <2> DEFINE S == StatusOf(n)
  <2>2. fd(n) \in S
    BY <1>3
  <2> HIDE DEF S
  <2>3. <<fd(n)>> \in Seq(S)
    BY <2>2
  <2>4. \A a : ~Has(<<fd(n)>>, Say(a))
    BY <1>3 DEF Has
  <2> QED BY <2>1, <2>3, <2>4 DEF S
<1>5. ResetFrom(sched, sched')
  BY <1>1, <1>2, ResetFields
<1>6. Sound'
  BY <1>1, <1>2, <1>4, <1>5 DEF Sound, ResetFrom
<1>7. \A n \in Gnbs : \A M : /\ ~Has(commands[n], M) /\ ~Has(toMac[n], M)
                             /\ \A p \in Gnbs : ~Has(fromMac[n][p], M)
  BY <1>2, HasEmpty DEF Quiet
<1>8. ASSUME NEW a \in Apps PROVE Life(a)'
  <2>1. Life(a) /\ \A n \in Gnbs : carried[n][a] = NoGnb
    BY <1>2 DEF IInv, CarriedBy
  <2>2. Single(a)'
    BY <1>2, <2>1 DEF Life, Single
  <2>3. ASSUME NEW o \in Gnbs, NEW p \in Gnbs PROVE Wire(o, p, a)'
    <3>1. Wire(o, p, a) /\ carried[o][a] # p
      BY <2>1, MecTypesAssumption DEF Life
    <3> QED BY <1>2, <1>7, <3>1 DEF Wire
  <2>4. a \notin Served(sched') /\ ~sched'.schedComplete
    BY <1>5 DEF ResetFrom
  <2>5. Booked(a)'
    BY <1>2, <1>3, <1>4, <1>7, <2>4
       DEF Booked, StartBooked, ServiceBooked, AnswerBooked, Accounted
  <2> QED BY <2>2, <2>3, <2>4, <2>5 DEF Life
<1>9. Stops'
  BY <1>2, <1>7 DEF Stops
<1>10. Phase'
  BY <1>5 DEF Phase, ResetFrom
<1>11. ASSUME NEW n \in Gnbs PROVE Counts(n)'
  <2>1. Counted(<<fd(n)>>, server[n].cmpUnitFree)
    BY <1>3 DEF Counted
  <2>2. sched'.cmpUnits[n] = 0
    BY <1>5 DEF ResetFrom
  <2> QED BY <1>2, <1>4, <2>1, <2>2 DEF Counts
<1> QED BY <1>6, <1>8, <1>9, <1>10, <1>11 DEF IInv

-----------------------------------------------------------------------------
(* The invariant is inductive.                                             *)

\* it holds at first, when no node has found the scheduler
LEMMA InitIInv ==
  ASSUME Init
  PROVE  IInv
<1>1. /\ sched = InitialScheduler
      /\ hasScheduler = [n \in Gnbs |-> FALSE]
      /\ server = [n \in Gnbs |-> InitialServer(n)]
      /\ carried = [n \in Gnbs |-> [a \in Apps |-> NoGnb]]
      /\ commands = [n \in Gnbs |-> <<>>]
      /\ toMac = [n \in Gnbs |-> <<>>]
      /\ fromMac = [n \in Gnbs |-> [p \in Gnbs |-> <<>>]]
      /\ reports = [n \in Gnbs |-> <<>>]
  BY DEF Init
<1>2. \A S : <<>> \in Seq(S)
  OBVIOUS
<1>3. ASSUME NEW n \in Gnbs
      PROVE  /\ server[n] = InitialServer(n) /\ Fine(server[n], n) /\ server[n].out = <<>>
             /\ server[n].granted = {} /\ server[n].srvInInitVector = <<>>
             /\ commands[n] = <<>> /\ toMac[n] = <<>> /\ reports[n] = <<>>
             /\ DOMAIN fromMac[n] = Gnbs /\ \A p \in Gnbs : fromMac[n][p] = <<>>
             /\ \A a \in Apps : carried[n][a] = NoGnb
             /\ hasScheduler[n] = FALSE
  BY <1>1, InitialServerFine
<1>4. SchedOk(sched) /\ sched.out = NothingSent /\ Served(sched) = {} /\ ~sched.schedComplete
  <2>1. /\ sched \in SchedRecord /\ sched.out = NothingSent /\ sched.appsWaitInitFb = {}
        /\ sched.allocatedApps = {} /\ sched.preSchedCheck = FALSE /\ sched.schedComplete = FALSE
        /\ sched.unscheduledApps = {} /\ sched.appInfo = {} /\ sched.blank = {}
        /\ sched.vehApps = {}
    BY <1>1, InitialSchedFields
  <2> QED BY <2>1 DEF SchedOk, OnePlace, Planned, Served
<1>5. Sound
  <2>1. /\ hasScheduler \in [Gnbs -> BOOLEAN]
        /\ carried \in [Gnbs -> [Apps -> Gnbs \cup {NoGnb}]]
        /\ DOMAIN server = Gnbs /\ DOMAIN commands = Gnbs /\ DOMAIN toMac = Gnbs
        /\ DOMAIN fromMac = Gnbs /\ DOMAIN reports = Gnbs
    BY <1>1
  <2>2. ASSUME NEW n \in Gnbs
        PROVE  /\ commands[n] \in Seq(CommandTo(n)) /\ toMac[n] \in Seq(GrantTo(n))
               /\ reports[n] \in Seq(StatusOf(n))
               /\ \A p \in Gnbs : fromMac[n][p] \in Seq(ReportTo(n, p))
    BY <1>2, <1>3
  <2> QED BY <1>3, <1>4, <2>1, <2>2 DEF Sound
<1>6. \A n \in Gnbs : \A M :
         /\ ~Has(commands[n], M) /\ ~Has(toMac[n], M) /\ ~Has(reports[n], M)
         /\ Once(commands[n], M) /\ Once(toMac[n], M)
         /\ \A p \in Gnbs : ~Has(fromMac[n][p], M) /\ \A T : Ending(fromMac[n][p], M, T)
  BY <1>3, HasEmpty
<1>7. ~AllFound
  BY <1>3, ServiceLifecycleAssumption DEF AllFound
<1>8. ASSUME NEW a \in Apps PROVE Life(a)
  <2>1. Single(a)
    BY <1>3, <1>6 DEF Single
  <2>2. \A o, p \in Gnbs : Wire(o, p, a)
    <3> SUFFICES ASSUME NEW o \in Gnbs, NEW p \in Gnbs PROVE Wire(o, p, a)
      OBVIOUS
    <3>1. ~hasScheduler[p] /\ carried[o][a] # p
      BY <1>3, MecTypesAssumption
    <3> QED BY <1>6, <3>1 DEF Wire
  <2> QED BY <1>4, <1>7, <2>1, <2>2 DEF Life
<1>9. Stops
  BY <1>6 DEF Stops
<1>10. Phase /\ \A n \in Gnbs : Counts(n)
  BY <1>7 DEF Phase, Counts
<1> QED BY <1>5, <1>8, <1>9, <1>10 DEF IInv

\* and every step of the specification keeps it
LEMMA NextIInv ==
  ASSUME Prompt, RescheduleAll, IInv, [Next]_vars
  PROVE  IInv'
<1>1. CASE UNCHANGED vars
  BY <1>1 DEF vars, IInv, Sound, Life, Single, Wire, Booked, StartBooked, ServiceBooked, AnswerBooked,
              Accounted, Vacant, Stops, Phase, Counts, AllFound
<1>2. ASSUME NEW a \in Apps, ReceiveRequest(a) PROVE IInv'
  BY <1>2, ReceiveRequestKeeps
<1>3. ASSUME NEW n \in Gnbs, ReceiveReport(n) PROVE IInv'
  BY <1>3, ReceiveReportKeeps
<1>4. ASSUME NEW expired \in SUBSET Apps, PreScheduleCheck(expired) PROVE IInv'
  BY <1>4, PreScheduleCheckKeeps
<1>5. ASSUME NEW gone \in SUBSET Apps, NEW links \in SUBSET (Ues \X Gnbs),
             NEW stale \in SUBSET Gnbs, NEW inTime \in BOOLEAN,
             ScheduleStart(gone, links, stale, inTime)
      PROVE  IInv'
  BY <1>5, ScheduleStartKeeps
<1>6. ASSUME ScheduleComplete PROVE IInv'
  BY <1>6, ScheduleCompleteKeeps
<1>7. ASSUME NEW n \in Gnbs, ReceiveSrvGrant(n) PROVE IInv'
  BY <1>7, ReceiveSrvGrantKeeps
<1>8. ASSUME NEW n \in Gnbs, ServiceInitComplete(n) PROVE IInv'
  BY <1>8, ServiceInitCompleteKeeps
<1>9. ASSUME NEW n \in Gnbs, NEW o \in Gnbs, ReceiveSrvFD(n, o) PROVE IInv'
  BY <1>9, ReceiveSrvFDKeeps
<1>10. ASSUME NEW n \in Gnbs, NEW u \in Ues \cup {NoUe}, ReportStatus(n, u) PROVE IInv'
  BY <1>10, ReportStatusKeeps
<1>11. ASSUME NEW o \in Gnbs, NEW i \in DOMAIN toMac[o], TakeGrant(o, i) PROVE IInv'
  BY <1>11, TakeGrantKeeps
<1>12. ASSUME NEW o \in Gnbs, NEW a \in Apps, Terminate(o, a) \/ Adjust(o, a) PROVE IInv'
  BY <1>12, TerminateKeeps
<1>13. ASSUME NEW n \in Gnbs, LoseScheduler(n) PROVE IInv'
  BY <1>13, LoseSchedulerKeeps
<1>14. ASSUME Elect PROVE IInv'
  BY <1>14, ElectKeeps
<1> QED BY <1>1, <1>2, <1>3, <1>4, <1>5, <1>6, <1>7, <1>8, <1>9, <1>10, <1>11, <1>12, <1>13,
           <1>14 DEF Next

-----------------------------------------------------------------------------
(* What follows from it.  The intervals are chosen so that what was         *)
(* commanded is answered when the next timer fires (Prompt), and every      *)
(* period schedules anew (RescheduleAll): rescheduleAll_ is set by          *)
(* the simulations.                                                         *)

\* every reachable state satisfies the invariant
THEOREM InductiveInvariant ==
  ASSUME Prompt, RescheduleAll
  PROVE  Spec => []IInv
<1>1. Init => IInv
  BY InitIInv
<1>2. IInv /\ [Next]_vars => IInv'
  BY NextIInv
<1> QED BY <1>1, <1>2, PTL DEF Spec

\* a request is unscheduled, waiting for the answer to a start, or served
THEOREM RequestsHaveOnePlace ==
  ASSUME Prompt, RescheduleAll
  PROVE  Spec => []RequestHasOnePlace
<1>1. IInv => RequestHasOnePlace
  <2> SUFFICES ASSUME IInv PROVE RequestHasOnePlace
    OBVIOUS
  <2>1. OnePlace(sched)
    BY DEF IInv, Sound, SchedOk
  <2> QED BY <2>1 DEF OnePlace, RequestHasOnePlace
<1> QED BY <1>1, InductiveInvariant, PTL

\* no two servers run an application and no two gNBs carry it, although every
\* period moves services and nodes lose the scheduler at different moments
THEOREM OneServerEach ==
  ASSUME Prompt, RescheduleAll
  PROVE  Spec => []OneServer
<1>1. IInv => OneServer
  <2> SUFFICES ASSUME IInv, NEW a \in Apps, NEW n \in Gnbs, NEW o \in Gnbs, n # o
               PROVE  /\ ~(a \in server[n].granted /\ a \in server[o].granted)
                      /\ ~(a \in CarriedBy(n) /\ a \in CarriedBy(o))
    BY DEF OneServer
  <2>1. Single(a)
    BY DEF IInv, Life
  <2> QED BY <2>1 DEF Single, CarriedBy
<1> QED BY <1>1, InductiveInvariant, PTL

\* when every message has arrived, scheduler, servers and gNBs agree on which
\* services run, where, and on the units that are free
THEOREM BooksAgreeWhenQuiet ==
  ASSUME Prompt, RescheduleAll
  PROVE  Spec => []BooksAgree
<1>1. IInv => BooksAgree
  <2> SUFFICES ASSUME IInv, Quiet, AllFound PROVE BooksAgree
    BY DEF BooksAgree
  <2>1. /\ sched.appsWaitInitFb = {}
        /\ \A a \in sched.allocatedApps : a \in server[Instance(sched, a).processGnb].granted
        /\ \A n \in Gnbs : InitializingIn(server[n]) = {}
    BY QuietBooks
  <2>2. Sound /\ SchedOk(sched) /\ sched.allocatedApps \subseteq Apps
        /\ sched.rsuStatus \subseteq Gnbs
    BY DEF IInv, Sound, SchedOk, SchedRecord
  <2>3. \A n \in Gnbs : \A M : /\ ~Has(commands[n], M) /\ ~Has(toMac[n], M)
                               /\ \A p \in Gnbs : ~Has(fromMac[n][p], M)
    BY HasEmpty DEF Quiet
  <2>4. \A a : Instance(sched, a) = sched.runningService[a] /\ Served(sched) = sched.allocatedApps
    BY <2>1 DEF Instance, Served
  <2>5. ASSUME NEW a \in Apps, NEW n \in Gnbs, a \in server[n].granted
        PROVE  /\ a \in sched.allocatedApps /\ sched.runningService[a].processGnb = n
               /\ server[n].service[a].offloadGnb = sched.runningService[a].offloadGnb
               /\ carried[sched.runningService[a].offloadGnb][a] = n
    <3>1. ServiceBooked(n, a)
      BY DEF IInv, Life, Booked
    <3>2. a \in RunningIn(server[n]) /\ server[n].service[a].offloadGnb \in Gnbs
      BY <2>1, <2>2, <2>5 DEF Sound, Fine, RunningIn, InitializingIn
    <3> QED BY <2>3, <2>4, <2>5, <3>1, <3>2 DEF ServiceBooked
  <2>6. ASSUME NEW a \in Apps, NEW n \in Gnbs, carried[n][a] # NoGnb
        PROVE  a \in sched.allocatedApps
    <3>1. PICK p \in Gnbs : carried[n][a] = p
      BY <2>2, <2>6 DEF Sound
    <3>2. Wire(n, p, a) /\ hasScheduler[p]
      BY DEF IInv, Life, AllFound
    <3>3. a \in server[p].granted
      BY <3>1, <3>2 DEF Wire, RunningIn
    <3> QED BY <2>5, <3>3
  <2>7. ASSUME NEW a \in Apps, NEW n \in Gnbs,
               a \in sched.allocatedApps, sched.runningService[a].processGnb = n
        PROVE  a \in server[n].granted
    BY <2>1, <2>4, <2>7
  <2>8. ASSUME NEW n \in sched.rsuStatus, reports[n] = <<>>
        PROVE  sched.cmpUnits[n] \in {0, server[n].cmpUnitFree}
    <3>1. NoAnswerBehind(reports[n], 0)
      BY <2>8 DEF NoAnswerBehind
    <3> QED BY <2>2, <3>1 DEF IInv, Counts
  <2> QED BY <2>1, <2>5, <2>6, <2>7, <2>8 DEF BooksAgree
<1> QED BY <1>1, InductiveInvariant, PTL

\* a service is started only when no server has it and no gNB carries it
THEOREM StartsAreFresh ==
  ASSUME Prompt, RescheduleAll
  PROVE  Spec => GrantsAreFresh
<1> DEFINE Fresh ==
      \A c \in NewCommands :
         LET grant == commands'[c[1]][c[2]]
         IN  grant.start => \A n \in Gnbs : /\ grant.app \notin server[n].granted
                                            /\ grant.app \notin CarriedBy(n)
<1>1. IInv /\ IInv' /\ [Next]_vars => [Fresh]_vars
  <2> SUFFICES ASSUME IInv, IInv', Next PROVE Fresh
    OBVIOUS
  <2> SUFFICES ASSUME NEW c \in NewCommands, commands'[c[1]][c[2]].start
               PROVE  \A n \in Gnbs : /\ commands'[c[1]][c[2]].app \notin server[n].granted
                                      /\ commands'[c[1]][c[2]].app \notin CarriedBy(n)
    OBVIOUS
  <2>1. PICK g \in Gnbs : g = c[1]
    BY DEF NewCommands
  <2>2. PICK i : i = c[2]
    OBVIOUS
  <2>3. i \in DOMAIN commands'[g] /\ i \notin DOMAIN commands[g]
    BY <2>1, <2>2 DEF NewCommands
  <2>4. PICK grant : grant = commands'[g][i]
    OBVIOUS
  <2>5. grant \in SrvGrant /\ grant.app \in Apps /\ grant.start
    <3>1. commands'[g] \in Seq(CommandTo(g))
      BY DEF IInv, Sound
    <3>2. grant \in CommandTo(g)
      BY <2>3, <2>4, <3>1
    <3> QED BY <2>1, <2>2, <2>4, <3>2 DEF CommandTo, SrvGrant
  <2>6. Has(commands'[g], Start(grant.app))
    BY <2>3, <2>4, <2>5 DEF Has, Start
  <2>7. \A n \in Gnbs : grant.app \notin server'[n].granted /\ carried'[n][grant.app] = NoGnb
    <3>1. Single(grant.app)'
      BY <2>5 DEF IInv, Life
    <3> QED BY <2>6, <3>1 DEF Single
  <2>8. commands' # commands
    BY <2>3
  <2>9. \A n \in Gnbs : ~ReceiveSrvGrant(n)
    <3> SUFFICES ASSUME NEW n \in Gnbs, ReceiveSrvGrant(n) PROVE FALSE
      OBVIOUS
    <3>1. /\ commands[n] \in Seq(CommandTo(n)) /\ commands[n] # <<>>
          /\ DOMAIN commands = Gnbs /\ commands' = [commands EXCEPT ![n] = Tail(commands[n])]
      BY DEF IInv, Sound, ReceiveSrvGrant
    <3>2. DOMAIN Tail(commands[n]) \subseteq DOMAIN commands[n]
      BY <3>1
    <3>3. DOMAIN commands'[g] \subseteq DOMAIN commands[g]
      <4>1. CASE g = n
        BY <3>1, <3>2, <4>1
      <4>2. CASE g # n
        BY <3>1, <4>2, SMTT(60)
      <4> QED BY <4>1, <4>2
    <3> QED BY <2>3, <3>3
  <2>10. server' = server /\ carried' = carried
    BY <2>8, <2>9 DEF Next, ReceiveRequest, ReceiveReport, PreScheduleCheck, ScheduleStart,
       ScheduleComplete, ServiceInitComplete, ReceiveSrvFD, ReportStatus, TakeGrant, Terminate,
       Adjust, LoseScheduler, Elect
  <2> QED BY <2>1, <2>2, <2>4, <2>7, <2>10 DEF CarriedBy
<1> QED BY <1>1, InductiveInvariant, NextIInv, PTL DEF Spec, GrantsAreFresh


-----------------------------------------------------------------------------
(* The units.  What a server has free and what its running services use is *)
(* all it has (Used).  What it was asked to start, initializes or runs fits *)
(* (Budgeted): the scheduler planned it when the server had all its units,  *)
(* after nothing ran (Planning), and plans again when nothing does.  What   *)
(* the scheduler holds is what it waits for (Held, Awaited), from gNBs it   *)
(* knows (Known): the first status of a gNB would clear the holds.          *)

\* what the services that count as running use
UnitsIn(v) ==
    [a \in Apps |-> IF a \in RunningIn(v) \ v.appsWaitMacInitFb
                    THEN v.service[a].cmpUnits ELSE 0]

Used(n) == server[n].cmpUnitFree + SumOver(UnitsIn(server[n]), Apps) = CmpUnitTotal

StartAbove(a, c) == {m \in Start(a) : m.cmpUnits > c}

\* no start of a and no service of it at server n takes more than f grants it
Within(n, a, f) ==
    /\ ~Has(commands[n], StartAbove(a, f[a]))
    /\ a \in server[n].granted => server[n].service[a].cmpUnits <= f[a]

Budgeted(n) ==
    \E f \in [Apps -> Nat] :
        SumOver(f, Apps) <= CmpUnitTotal /\ \A a \in Apps : Within(n, a, f)

\* a start that is not answered is at the server it was sent to
Awaited(n, a) ==
    a \in sched.appsWaitInitFb =>
        LET srv == sched.srvInInitiating[a]
        IN  /\ Has(commands[n], Start(a)) =>
                  n = srv.processGnb /\ ~Has(commands[n], StartBut(a, srv.offloadGnb))
            /\ a \in server[n].granted =>
                  n = srv.processGnb /\ server[n].service[a].offloadGnb = srv.offloadGnb
            /\ Has(reports[n], Say(a)) =>
                  n = srv.processGnb /\ ~Has(reports[n], SayBut(a, srv.offloadGnb))

\* what the starts of scheduler s take at gNB g
HoldCu(s, g) ==
    [a \in Apps |-> IF a \in s.appsWaitInitFb /\ s.srvInInitiating[a].processGnb = g
                    THEN s.srvInInitiating[a].cmpUnits ELSE 0]
HoldRb(s, g) ==
    [a \in Apps |-> IF a \in s.appsWaitInitFb /\ s.srvInInitiating[a].offloadGnb = g
                    THEN s.srvInInitiating[a].bands ELSE 0]

Held(s) ==
    \A g \in Gnbs : /\ s.rsuOnholdCus[g] = SumOver(HoldCu(s, g), Apps)
                    /\ s.rsuOnholdRbs[g] = SumOver(HoldRb(s, g), Apps)

\* the gNBs of a start are known
Known(s) ==
    /\ \A a \in s.appsWaitInitFb : /\ s.srvInInitiating[a].processGnb \in s.rsuStatus
                                   /\ s.srvInInitiating[a].offloadGnb \in s.rsuStatus
    /\ s.schedComplete =>
          \A i \in DOMAIN s.vecSchedule : /\ s.vecSchedule[i].processGnb \in s.rsuStatus
                                          /\ s.vecSchedule[i].offloadGnb \in s.rsuStatus

\* what a server may say while a plan is made: that all its units are free
Full == {m \in RsuFD : m.freeCmpUnits = CmpUnitTotal}
NotFull(n) == StatusOf(n) \ Full

Planning ==
    sched.schedComplete =>
        \A n \in Gnbs : /\ ~Has(reports[n], NotFull(n))
                        /\ AskedCus(sched.vecSchedule, n) <= sched.cmpUnits[n]
                        /\ sched.cmpUnits[n] <= CmpUnitTotal

UInv ==
    /\ \A n \in Gnbs : Used(n) /\ Budgeted(n) /\ \A a \in Apps : Awaited(n, a)
    /\ Held(sched) /\ Known(sched) /\ Planning

-----------------------------------------------------------------------------
(* The servers.                                                            *)

\* the applications are finitely many
LEMMA AppsFinite == IsFiniteSet(Apps)
  BY FS_Interval, MecTypesAssumption DEF Apps

\* services use numbers of units, and those of one application are theirs
LEMMA UnitsTyped ==
  ASSUME NEW n \in Gnbs, NEW v, Fine(v, n)
  PROVE  /\ UnitsIn(v) \in [Apps -> Nat]
         /\ v.cmpUnitFree \in Int
         /\ \A a \in Apps : v.service[a].cmpUnits \in Nat
         /\ SumOver(UnitsIn(v), Apps) \in Nat
<1>1. /\ v.service \in [Apps -> Service] /\ v.cmpUnitFree \in Int
  BY DEF Fine, ServerRecord
<1>2. \A a \in Apps : v.service[a].cmpUnits \in Nat
  BY <1>1 DEF Service
<1>3. UnitsIn(v) \in [Apps -> Nat]
  BY <1>2 DEF UnitsIn
<1>4. SumOver(UnitsIn(v), Apps) \in Nat
  BY <1>3, AppsFinite, SumOverTyped
<1> QED BY <1>1, <1>2, <1>3, <1>4

\* a server without services has all its units
LEMMA NothingUsed ==
  ASSUME NEW n \in Gnbs, NEW v, Fine(v, n), v.granted = {}
  PROVE  SumOver(UnitsIn(v), Apps) = 0
<1>1. UnitsIn(v) \in [Apps -> Nat]
  BY UnitsTyped
<1>2. \A a \in Apps : UnitsIn(v)[a] = 0
  BY DEF UnitsIn, RunningIn
<1> QED BY <1>1, <1>2, AppsFinite, SumOverTyped

\* while a plan is made no server has a service, and all have all their units
LEMMA PlanningVacant ==
  ASSUME IInv, UInv, sched.schedComplete, NEW n \in Gnbs
  PROVE  /\ server[n].granted = {} /\ server[n].cmpUnitFree = CmpUnitTotal
         /\ \A a \in Apps : ~Has(commands[n], Start(a))
         /\ \A a \in Apps : \A m : m \in Start(a) => ~Has(commands[n], {m})
<1>1. Fine(server[n], n) /\ Used(n)
  BY DEF IInv, Sound, UInv
<1>2. \A a \in Apps : ~Has(commands[n], Start(a)) /\ a \notin server[n].granted
  BY DEF IInv, Life, Vacant
<1>3. server[n].granted = {}
  BY <1>1, <1>2 DEF Fine, ServerRecord
<1>4. server[n].cmpUnitFree = CmpUnitTotal
  BY <1>1, <1>3, NothingUsed, UnitsTyped, ServerHandlersAssumption DEF Used
<1>5. \A a \in Apps : \A m : m \in Start(a) => ~Has(commands[n], {m})
  BY <1>2 DEF Has
<1> QED BY <1>2, <1>3, <1>4, <1>5

\* units c for application a, carried by gNB o, were asked of server n
Asked(n, a, c, o) ==
    \/ \E m \in Start(a) : Has(commands[n], {m}) /\ c = m.cmpUnits /\ o = m.offloadGnb
    \/ /\ a \in server[n].granted
       /\ c = server[n].service[a].cmpUnits /\ o = server[n].service[a].offloadGnb

\* server n says nothing, its status, or an answer about what it was asked
SpokeOf(n, a, m) ==
    \/ m \in RsuFD /\ m.freeCmpUnits = server[n].cmpUnitFree
    \/ m \in Say(a) /\ \E c : Asked(n, a, c, m.offloadGnb)

\* a step of a server about application a keeps the count of its units
LEMMA UsedStays ==
  ASSUME IInv, UInv, NEW n \in Gnbs, NEW a \in Apps, NEW h, Turned(n, h), SameBut(server[n], h, a),
         h.cmpUnitFree + UnitsIn(h)[a] = server[n].cmpUnitFree + UnitsIn(server[n])[a]
  PROVE  \A x \in Gnbs : Used(x)'
<1> DEFINE v == server[n]
           k == server'[n]
<1>1. Fine(v, n) /\ Used(n) /\ Fine(k, n) /\ ButOut(h, k)
      /\ \A x \in Gnbs : x # n => server'[x] = server[x]
  BY DEF IInv, Sound, UInv, Turned
<1>2. UnitsIn(k) = UnitsIn(h)
  BY <1>1 DEF UnitsIn, RunningIn, ButOut
<1>3. \A b \in Apps : b # a => UnitsIn(v)[b] = UnitsIn(k)[b]
  BY <1>2 DEF UnitsIn, RunningIn, SameBut
<1>4. /\ UnitsIn(v) \in [Apps -> Nat] /\ UnitsIn(k) \in [Apps -> Nat]
      /\ v.cmpUnitFree \in Int /\ k.cmpUnitFree \in Int
      /\ SumOver(UnitsIn(v), Apps) \in Nat /\ SumOver(UnitsIn(k), Apps) \in Nat
  BY <1>1, UnitsTyped
<1>5. SumOver(UnitsIn(v), Apps) - UnitsIn(v)[a] = SumOver(UnitsIn(k), Apps) - UnitsIn(k)[a]
  <2> DEFINE w == UnitsIn(v)
             u == UnitsIn(k)
  <2>1. w \in [Apps -> Nat] /\ u \in [Apps -> Nat] /\ \A b \in Apps : b # a => w[b] = u[b]
    BY <1>3, <1>4
  <2> HIDE DEF w, u
  <2>2. SumOver(w, Apps) - w[a] = SumOver(u, Apps) - u[a]
    BY <2>1, AppsFinite, SumOverChanges
  <2> QED BY <2>2 DEF w, u
<1>6. k.cmpUnitFree + UnitsIn(k)[a] = v.cmpUnitFree + UnitsIn(v)[a]
  BY <1>1, <1>2 DEF ButOut
<1>7. UnitsIn(v)[a] \in Nat /\ UnitsIn(k)[a] \in Nat /\ CmpUnitTotal \in Nat
  BY <1>4, ServerHandlersAssumption
<1>8. k.cmpUnitFree + SumOver(UnitsIn(k), Apps) = CmpUnitTotal
  <2>1. \A A, B, U, V, p, q, C \in Int : p + V = q + U /\ A - U = B - V /\ q + A = C => p + B = C
    OBVIOUS
  <2>2. v.cmpUnitFree + SumOver(UnitsIn(v), Apps) = CmpUnitTotal
    BY <1>1 DEF Used
  <2> HIDE DEF v, k
  <2> QED BY <1>4, <1>5, <1>6, <1>7, <2>1, <2>2
<1>9. \A x \in Gnbs : x # n => Used(x)
  BY DEF UInv
<1> QED BY <1>1, <1>8, <1>9 DEF Used

\* and what it has was asked of it
LEMMA BudgetStays ==
  ASSUME IInv, UInv, NEW n \in Gnbs, NEW a \in Apps, NEW h, Turned(n, h), SameBut(server[n], h, a),
         \A x \in Gnbs : \A M : Has(commands'[x], M) => Has(commands[x], M),
         a \in h.granted => Asked(n, a, h.service[a].cmpUnits, h.service[a].offloadGnb)
  PROVE  \A x \in Gnbs : Budgeted(x)'
<1> SUFFICES ASSUME NEW x \in Gnbs PROVE Budgeted(x)'
  OBVIOUS
<1>1. PICK f \in [Apps -> Nat] :
         SumOver(f, Apps) <= CmpUnitTotal /\ \A b \in Apps : Within(x, b, f)
  BY DEF UInv, Budgeted
<1>2. ASSUME NEW b \in Apps PROVE Within(x, b, f)'
  <2>1. Within(x, b, f)
    BY <1>1
  <2>2. ~Has(commands'[x], StartAbove(b, f[b]))
    BY <2>1 DEF Within
  <2>3. ASSUME b \in server'[x].granted PROVE server'[x].service[b].cmpUnits <= f[b]
    <3>1. CASE x = n /\ b = a
      <4>1. server'[x].granted = h.granted /\ server'[x].service = h.service
        BY <3>1 DEF Turned, ButOut
      <4>2. Asked(n, a, h.service[a].cmpUnits, h.service[a].offloadGnb)
        BY <2>3, <3>1, <4>1
      <4>3. ASSUME NEW m \in Start(a), Has(commands[n], {m}), h.service[a].cmpUnits = m.cmpUnits
            PROVE  h.service[a].cmpUnits <= f[a]
        <5>1. ~(m \in StartAbove(a, f[a]))
          BY <2>1, <3>1, <4>3 DEF Within, Has
        <5>2. ~(m.cmpUnits > f[a]) /\ m.cmpUnits \in Nat /\ f[a] \in Nat
          BY <5>1 DEF StartAbove, Start, SrvGrant
        <5> QED BY <4>3, <5>2
      <4> QED BY <2>1, <3>1, <4>1, <4>2, <4>3 DEF Asked, Within
    <3>2. CASE ~(x = n /\ b = a)
      <4>1. b \in server[x].granted /\ server'[x].service[b] = server[x].service[b]
        BY <2>3, <3>2 DEF Turned, SameBut, ButOut
      <4> QED BY <2>1, <4>1 DEF Within
    <3> QED BY <3>1, <3>2
  <2> QED BY <2>2, <2>3 DEF Within
<1> QED BY <1>1, <1>2 DEF Budgeted

\* so is what it says
LEMMA AwaitedStays ==
  ASSUME IInv, UInv, NEW n \in Gnbs, NEW a \in Apps, NEW h, Turned(n, h), SameBut(server[n], h, a),
         UNCHANGED sched,
         \A x \in Gnbs : \A M : Has(commands'[x], M) => Has(commands[x], M),
         a \in h.granted => Asked(n, a, h.service[a].cmpUnits, h.service[a].offloadGnb),
         NEW m, SpokeOf(n, a, m),
         \A x \in Gnbs : \A M : Has(reports'[x], M) => Has(reports[x], M) \/ (x = n /\ m \in M)
  PROVE  \A x \in Gnbs : \A b \in Apps : Awaited(x, b)'
<1> SUFFICES ASSUME NEW x \in Gnbs, NEW b \in Apps, b \in sched.appsWaitInitFb
             PROVE  Awaited(x, b)'
  BY DEF Awaited
<1> DEFINE srv == sched.srvInInitiating[b]
<1>1. Awaited(x, b)
  BY DEF UInv
<1>2. ASSUME NEW c, NEW o, Asked(n, b, c, o), x = n PROVE n = srv.processGnb /\ o = srv.offloadGnb
  <2>1. ASSUME NEW g \in Start(b), Has(commands[n], {g}), o = g.offloadGnb
        PROVE  n = srv.processGnb /\ o = srv.offloadGnb
    <3>1. Has(commands[n], Start(b)) /\ (g \in StartBut(b, srv.offloadGnb)
                                            => Has(commands[n], StartBut(b, srv.offloadGnb)))
      BY <2>1 DEF Has
    <3>2. g \in StartBut(b, srv.offloadGnb) <=> g.offloadGnb # srv.offloadGnb
      BY <2>1 DEF StartBut
    <3> HIDE DEF srv
    <3> QED BY <1>1, <1>2, <2>1, <3>1, <3>2 DEF Awaited, srv
  <2>2. CASE b \in server[n].granted /\ o = server[n].service[b].offloadGnb
    BY <1>1, <1>2, <2>2 DEF Awaited
  <2> QED BY <1>2, <2>1, <2>2 DEF Asked
<1>3. Has(commands'[x], Start(b)) =>
         x = srv.processGnb /\ ~Has(commands'[x], StartBut(b, srv.offloadGnb))
  BY <1>1 DEF Awaited
<1>4. ASSUME b \in server'[x].granted
      PROVE  x = srv.processGnb /\ server'[x].service[b].offloadGnb = srv.offloadGnb
  <2>1. CASE x = n /\ b = a
    <3>1. server'[x].granted = h.granted /\ server'[x].service = h.service
      BY <2>1 DEF Turned, ButOut
    <3> QED BY <1>2, <1>4, <2>1, <3>1
  <2>2. CASE ~(x = n /\ b = a)
    <3>1. b \in server[x].granted /\ server'[x].service[b] = server[x].service[b]
      BY <1>4, <2>2 DEF Turned, SameBut, ButOut
    <3> QED BY <1>1, <3>1 DEF Awaited
  <2> QED BY <2>1, <2>2
<1>5. ASSUME Has(reports'[x], Say(b))
      PROVE  x = srv.processGnb /\ ~Has(reports'[x], SayBut(b, srv.offloadGnb))
  <2>1. \A M : Has(reports'[x], M) => Has(reports[x], M) \/ (x = n /\ m \in M)
    OBVIOUS
  <2>2. CASE x = n /\ m \in Say(b)
    <3>1. b = a /\ \E c : Asked(n, a, c, m.offloadGnb)
      <4>1. m \notin RsuFD
        BY <2>2 DEF Say, SrvFD, Refusal, Answer, RsuFD
      <4> QED BY <2>2, <4>1 DEF SpokeOf, Say
    <3>2. x = srv.processGnb /\ m.offloadGnb = srv.offloadGnb
      BY <1>2, <2>2, <3>1
    <3>3. m \notin SayBut(b, srv.offloadGnb)
      BY <3>2 DEF SayBut
    <3>4. ~Has(reports[x], SayBut(b, srv.offloadGnb))
      <4>1. Has(reports[x], SayBut(b, srv.offloadGnb)) => Has(reports[x], Say(b))
        BY DEF Has, SayBut
      <4> QED BY <1>1, <4>1 DEF Awaited
    <3> QED BY <2>1, <3>2, <3>3, <3>4
  <2>3. CASE ~(x = n /\ m \in Say(b))
    <3>1. Has(reports[x], Say(b))
      BY <1>5, <2>1, <2>3
    <3>2. ~(x = n /\ m \in SayBut(b, srv.offloadGnb))
      BY <2>3 DEF SayBut
    <3>3. ~Has(reports'[x], SayBut(b, srv.offloadGnb))
      BY <1>1, <2>1, <3>1, <3>2 DEF Awaited
    <3> QED BY <1>1, <3>1, <3>3 DEF Awaited
  <2> QED BY <2>2, <2>3
<1> QED BY <1>3, <1>4, <1>5 DEF Awaited

\* while a plan is made that is only that all units are free
LEMMA PlanningStays ==
  ASSUME IInv, UInv, NEW n \in Gnbs, NEW a \in Apps, UNCHANGED sched,
         NEW m \in StatusOf(n), SpokeOf(n, a, m),
         \A x \in Gnbs : \A M : Has(reports'[x], M) => Has(reports[x], M) \/ (x = n /\ m \in M)
  PROVE  Planning'
<1> SUFFICES ASSUME sched.schedComplete PROVE \A x \in Gnbs : ~Has(reports'[x], NotFull(x))
  BY DEF UInv, Planning
<1>1. \A x \in Gnbs : ~Has(reports[x], NotFull(x))
  BY DEF UInv, Planning
<1>2. m \notin NotFull(n)
  <2>1. server[n].cmpUnitFree = CmpUnitTotal /\ \A c, o : ~Asked(n, a, c, o)
    BY PlanningVacant DEF Asked
  <2> QED BY <2>1 DEF SpokeOf, NotFull, Full
<1> QED BY <1>1, <1>2

\* a step of a server about application a keeps the invariant
LEMMA ServerUnits ==
  ASSUME IInv, UInv, NEW n \in Gnbs, NEW a \in Apps, NEW h, Turned(n, h), SameBut(server[n], h, a),
         UNCHANGED sched,
         h.cmpUnitFree + UnitsIn(h)[a] = server[n].cmpUnitFree + UnitsIn(server[n])[a],
         \A x \in Gnbs : \A M : Has(commands'[x], M) => Has(commands[x], M),
         a \in h.granted => Asked(n, a, h.service[a].cmpUnits, h.service[a].offloadGnb),
         \/ \A x \in Gnbs : reports'[x] = reports[x]
         \/ \E m \in StatusOf(n) : SpokeOf(n, a, m) /\ SentReport(n, m)
  PROVE  UInv'
<1>1. PICK m \in StatusOf(n) :
         /\ SpokeOf(n, a, m)
         /\ \A x \in Gnbs : \A M : Has(reports'[x], M) => Has(reports[x], M) \/ (x = n /\ m \in M)
  <2>1. ASSUME NEW m \in StatusOf(n), SpokeOf(n, a, m), SentReport(n, m)
        PROVE  \A x \in Gnbs : \A M : Has(reports'[x], M) =>
                  Has(reports[x], M) \/ (x = n /\ m \in M)
    BY <2>1, SentReportHas DEF IInv
  <2>2. CASE \A x \in Gnbs : reports'[x] = reports[x]
    <3> DEFINE d == [type |-> "RsuFD", gnb |-> n, veh |-> NoUe, bytePerBand |-> 0, availBand |-> 0,
                     freeCmpUnits |-> server[n].cmpUnitFree]
    <3>1. server[n].cmpUnitFree \in Int
      BY UnitsTyped DEF IInv, Sound
    <3>2. d \in RsuFD /\ d \in StatusOf(n) /\ d.freeCmpUnits = server[n].cmpUnitFree
      BY <3>1 DEF RsuFD, StatusOf
    <3> HIDE DEF d
    <3> QED BY <2>2, <3>2 DEF SpokeOf
  <2> QED BY <2>1, <2>2
<1>2. \A x \in Gnbs : Used(x)'
  BY UsedStays
<1>3. \A x \in Gnbs : Budgeted(x)'
  BY BudgetStays
<1>4. \A x \in Gnbs : \A b \in Apps : Awaited(x, b)'
  BY <1>1, AwaitedStays
<1>5. Planning'
  BY <1>1, PlanningStays
<1>6. Held(sched') /\ Known(sched')
  BY DEF UInv
<1> QED BY <1>2, <1>3, <1>4, <1>5, <1>6 DEF UInv

\* a start is accepted with the units it asks for, or refused; a stop takes none
LEMMA ReceiveSrvGrantUnits ==
  ASSUME IInv, UInv, NEW n \in Gnbs, ReceiveSrvGrant(n)
  PROVE  UInv'
<1> DEFINE h == HandleSrvGrant(server[n], Head(commands[n]), hasScheduler[n])
           v == server[n]
<1>1. /\ commands[n] # <<>> /\ commands' = [commands EXCEPT ![n] = Tail(@)]
      /\ PerformServer(n, h) /\ UNCHANGED <<sched, hasScheduler, carried, fromMac>>
  BY DEF ReceiveSrvGrant
<1>2. PICK grant : grant = Head(commands[n])
  OBVIOUS
<1>3. /\ Sound /\ Stops /\ grant \in CommandTo(n) /\ grant.app \in Apps
      /\ Fine(v, n) /\ v.out = <<>>
      /\ \A x \in Gnbs : \A M : Has(commands'[x], M) => Has(commands[x], M)
      /\ \A M : grant \in M => Has(commands[n], M)
      /\ v.cmpUnitFree \in Int /\ \A a \in Apps : v.service[a].cmpUnits \in Nat
  <2>1. Sound /\ Stops
    BY DEF IInv
  <2>2. Fine(v, n) /\ v.out = <<>>
    BY <2>1 DEF Sound
  <2>3. /\ grant \in CommandTo(n)
        /\ \A x \in Gnbs : \A M : Has(commands[x], M) <=>
              Has(commands'[x], M) \/ (x = n /\ grant \in M)
    BY <2>1, <1>1, <1>2, CommandTaken
  <2> HIDE DEF v
  <2> QED BY <2>1, <2>2, <2>3, CommandKinds, UnitsTyped
<1> DEFINE a == grant.app
<1>4. CASE grant.start /\ a \notin v.granted /\ hasScheduler[n]
  <2> DEFINE k == InitializeService(v, grant)
  <2>1. h = k
    BY <1>2, <1>4 DEF HandleSrvGrant
  <2>2. /\ Fine(k, n) /\ SameBut(v, k, a) /\ k.cmpUnitFree = v.cmpUnitFree
        /\ a \notin k.appsWaitMacInitFb
        /\ \/ /\ k.out = <<>> /\ a \in InitializingIn(k)
              /\ k.service[a].offloadGnb = grant.offloadGnb
              /\ k.service[a].cmpUnits = grant.cmpUnits
           \/ /\ a \notin k.granted
              /\ Answers(k, n, a, grant.offloadGnb, FALSE)
    BY <1>3, <1>4, InitializeServiceFine, ZenonT(120)
  <2> HIDE DEF k, h
  <2>3. Turned(n, k)
    BY <2>1, <2>2, <1>1, <1>3, PerformTurns
  <2>4. UnitsIn(v)[a] = 0 /\ UnitsIn(k)[a] = 0
    BY <2>2, <1>3, <1>4 DEF UnitsIn, RunningIn, InitializingIn
  <2>5. grant \in Start(a) /\ Has(commands[n], {grant})
    BY <1>3, <1>4, CommandKinds
  <2>6. Asked(n, a, grant.cmpUnits, grant.offloadGnb)
    BY <2>5 DEF Asked
  <2>7. CASE /\ k.out = <<>> /\ k.service[a].offloadGnb = grant.offloadGnb
             /\ k.service[a].cmpUnits = grant.cmpUnits
    <3>1. SentNothing
      BY <2>1, <2>7, <1>1, <1>3, PerformSends
    <3> HIDE DEF a, v
    <3> QED BY <3>1, <2>2, <2>3, <2>4, <2>6, <2>7, <1>1, <1>3, ServerUnits DEF a, v, SentNothing
  <2>8. CASE a \notin k.granted /\ Answers(k, n, a, grant.offloadGnb, FALSE)
    <3>1. PICK m \in Say(a) \cap StatusOf(n) : k.out = <<m>> /\ m.offloadGnb = grant.offloadGnb
      BY <2>8 DEF Answers
    <3>2. SentReport(n, m) /\ SpokeOf(n, a, m)
      BY <3>1, <2>1, <2>6, <1>1, <1>3, PerformSends DEF SpokeOf
    <3> HIDE DEF a, v
    <3> QED BY <3>1, <3>2, <2>2, <2>3, <2>4, <2>8, <1>1, <1>3, ServerUnits DEF a, v
  <2> QED BY <2>2, <2>7, <2>8
<1>5. CASE ~grant.start /\ a \in v.granted
  <2> DEFINE k == StopService(v, a)
             o == v.service[a].offloadGnb
  <2>1. a \in RunningIn(v)
    <3>1. v.srvInInitVector = <<>>
      BY <1>3, <1>5, CommandKinds DEF Stops
    <3>2. a \notin InitializingIn(v)
      BY <3>1, <1>3, HasEmpty, ZenonT(60) DEF Fine, QueueOk
    <3> QED BY <3>2, <1>5 DEF RunningIn, InitializingIn
  <2>2. h = k
    BY <1>2, <1>5 DEF HandleSrvGrant
  <2>3. o \in Gnbs /\ Fine(k, n) /\ ButOut(v, k) /\ Asks(k, n, a, o, TRUE)
    BY <2>1, <1>3, StopServiceFine
  <2> HIDE DEF k, h
  <2>4. PICK m \in GrantTo(o) : k.out = <<m>>
    BY <2>3 DEF Asks
  <2>5. Turned(n, k) /\ SentToMac(o, m)
    BY <2>2, <2>3, <2>4, <1>1, <1>3, PerformTurns, PerformSends
  <2>6. SameBut(v, k, a) /\ k.cmpUnitFree + UnitsIn(k)[a] = v.cmpUnitFree + UnitsIn(v)[a]
    BY <2>3 DEF ButOut, SameBut, UnitsIn, RunningIn
  <2>7. Asked(n, a, k.service[a].cmpUnits, k.service[a].offloadGnb)
    BY <2>3, <1>5, SMTT(60) DEF ButOut, Asked
  <2>8. \A x \in Gnbs : reports'[x] = reports[x]
    BY <2>5, Zenon DEF SentToMac
  <2> HIDE DEF a, v, o
  <2> QED BY <2>5, <2>6, <2>7, <2>8, <1>1, <1>3, ServerUnits DEF a, v
<1>6. CASE IF grant.start THEN ~hasScheduler[n] \/ a \in v.granted ELSE a \notin v.granted
  <2>1. h = v
    BY <1>2, <1>6 DEF HandleSrvGrant
  <2>2. Turned(n, v) /\ SentNothing
    BY <2>1, <1>1, <1>3, PerformSame
  <2>3. SameBut(v, v, a) /\ (a \in v.granted => Asked(n, a, v.service[a].cmpUnits, v.service[a].offloadGnb))
    BY DEF SameBut, Asked
  <2> HIDE DEF a, v
  <2> QED BY <2>2, <2>3, <1>1, <1>3, ServerUnits DEF a, v, SentNothing
<1> QED BY <1>4, <1>5, <1>6

\* a service that is initialized takes its units when the gNB accepts it
LEMMA ServiceInitCompleteUnits ==
  ASSUME IInv, UInv, NEW n \in Gnbs, ServiceInitComplete(n)
  PROVE  UInv'
<1> DEFINE v == server[n]
           h == HandleServiceInitComplete(v)
           a == Head(v.srvInInitVector)
           o == v.service[a].offloadGnb
<1>1. /\ v.timer = 0 /\ PerformServer(n, h)
      /\ UNCHANGED <<sched, hasScheduler, carried, commands, fromMac>>
  BY DEF ServiceInitComplete
<1>2. Sound /\ Fine(v, n) /\ v.out = <<>>
  BY DEF IInv, Sound
<1>3. v.srvInInitVector # <<>>
  BY <1>1, <1>2 DEF Fine, QueueOk, NoTimer
<1>4. /\ a \in InitializingIn(v) /\ o \in Gnbs
      /\ Fine(h, n) /\ SameBut(v, h, a) /\ h.cmpUnitFree = v.cmpUnitFree
      /\ a \in h.appsWaitMacInitFb /\ h.service[a].offloadGnb = o
      /\ h.service[a].cmpUnits = v.service[a].cmpUnits
      /\ Asks(h, n, a, o, FALSE)
  BY <1>2, <1>3, InitCompleteFine
<1> HIDE DEF h
<1>5. PICK m \in GrantTo(o) : h.out = <<m>>
  BY <1>4 DEF Asks
<1>6. Turned(n, h) /\ SentToMac(o, m)
  BY <1>1, <1>2, <1>4, <1>5, PerformTurns, PerformSends, SMTT(60)
<1>7. a \in Apps /\ a \in v.granted
  BY <1>2, <1>4, SMTT(60) DEF Fine, ServerRecord, InitializingIn
<1>8. UnitsIn(v)[a] = 0 /\ UnitsIn(h)[a] = 0
  BY <1>4, <1>7, ZenonT(60) DEF UnitsIn, RunningIn, InitializingIn
<1>9. Asked(n, a, h.service[a].cmpUnits, h.service[a].offloadGnb)
  BY <1>4, <1>7, ZenonT(60) DEF Asked
<1>10. (\A x \in Gnbs : reports'[x] = reports[x]) /\ commands' = commands
  BY <1>1, <1>6, Zenon DEF SentToMac
<1> HIDE DEF a, v, o
<1> QED BY <1>1, <1>4, <1>6, <1>7, <1>8, <1>9, <1>10, ServerUnits DEF v

\* a gNB that accepts a service makes it take its units, one that ends it gives them back
LEMMA ReceiveSrvFDUnits ==
  ASSUME IInv, UInv, NEW n \in Gnbs, NEW o \in Gnbs, ReceiveSrvFD(n, o)
  PROVE  UInv'
<1> DEFINE v == server[n]
<1>1. /\ fromMac[o][n] # <<>> /\ fromMac' = [fromMac EXCEPT ![o][n] = Tail(@)]
      /\ PerformServer(n, IF hasScheduler[n] THEN HandleServiceFeedback(v, Head(fromMac[o][n]))
                          ELSE v)
      /\ UNCHANGED <<sched, hasScheduler, carried, commands>>
  BY DEF ReceiveSrvFD
<1>2. Sound /\ Fine(v, n) /\ v.out = <<>>
  BY DEF IInv, Sound
<1>3. PICK fd : fd = Head(fromMac[o][n])
  OBVIOUS
<1> DEFINE a == fd.app
<1>4. /\ fd \in ReportTo(o, n) /\ Has(fromMac[o][n], Tell(a)) /\ a \in Apps
      /\ fd.success \in BOOLEAN
  <2>1. /\ fd \in ReportTo(o, n)
        /\ \A M : Has(fromMac[o][n], M) <=> fd \in M \/ Has(fromMac'[o][n], M)
    BY <1>1, <1>2, <1>3, ReportTaken
  <2> QED BY <2>1, ReportKinds
<1>5. CASE ~hasScheduler[n]
  <2>1. PerformServer(n, v)
    BY <1>1, <1>5
  <2>2. Turned(n, v) /\ SentNothing
    BY <2>1, <1>2, PerformSame
  <2>3. SameBut(v, v, a) /\ (a \in v.granted => Asked(n, a, v.service[a].cmpUnits, v.service[a].offloadGnb))
    BY DEF SameBut, Asked
  <2> HIDE DEF a, v
  <2> QED BY <2>2, <2>3, <1>1, <1>4, ServerUnits DEF v, SentNothing
<1>6. CASE hasScheduler[n]
  <2> DEFINE h == HandleServiceFeedback(v, fd)
             units == v.service[a].cmpUnits
  <2>1. a \in RunningIn(v) /\ v.service[a].offloadGnb = o
    BY <1>4, <1>6, ReportIsOld
  <2>2. /\ Fine(h, n) /\ SameBut(v, h, a)
        /\ a \notin h.appsWaitMacInitFb /\ Answers(h, n, a, o, fd.success)
        /\ fd.success => /\ a \in RunningIn(h) /\ h.service[a].cmpUnits = units
                         /\ h.service[a].offloadGnb = o
                         /\ h.cmpUnitFree = v.cmpUnitFree
                               - (IF a \in v.appsWaitMacInitFb THEN units ELSE 0)
        /\ ~fd.success => /\ a \notin h.granted
                          /\ h.cmpUnitFree = v.cmpUnitFree
                                + (IF a \in v.appsWaitMacInitFb THEN 0 ELSE units)
    BY <2>1, <1>2, <1>4, ServiceFeedbackFine
  <2>3. PerformServer(n, h)
    BY <1>1, <1>3, <1>6
  <2> HIDE DEF h
  <2>4. PICK m \in Say(a) \cap StatusOf(n) : h.out = <<m>> /\ m.offloadGnb = o
    BY <2>2 DEF Answers
  <2>5. Turned(n, h) /\ SentReport(n, m)
    BY <1>2, <2>2, <2>3, <2>4, PerformTurns, PerformSends
  <2>6. Asked(n, a, units, o)
    BY <2>1 DEF Asked, RunningIn
  <2>7. SpokeOf(n, a, m)
    BY <2>4, <2>6 DEF SpokeOf
  <2>8. h.cmpUnitFree + UnitsIn(h)[a] = v.cmpUnitFree + UnitsIn(v)[a]
    <3>1. v.cmpUnitFree \in Int /\ units \in Nat
      BY <1>2, <1>4, UnitsTyped
    <3>2. UnitsIn(v)[a] = IF a \in v.appsWaitMacInitFb THEN 0 ELSE units
      BY <2>1, <1>4 DEF UnitsIn
    <3>3. UnitsIn(h)[a] = IF fd.success THEN units ELSE 0
      BY <2>2, <1>4 DEF UnitsIn, RunningIn
    <3> HIDE DEF v, a, units
    <3> QED BY <2>2, <3>1, <3>2, <3>3
  <2>9. a \in h.granted => Asked(n, a, h.service[a].cmpUnits, h.service[a].offloadGnb)
    BY <2>2, <2>6, <1>4
  <2> HIDE DEF a, v, units
  <2> QED BY <1>1, <1>4, <2>2, <2>4, <2>5, <2>7, <2>8, <2>9, ServerUnits DEF v
<1> QED BY <1>5, <1>6


-----------------------------------------------------------------------------
(* The MACs, the loss of a scheduler and the election of the next.          *)

\* a MAC changes no units
LEMMA MacUnits ==
  ASSUME UInv, UNCHANGED <<sched, server, commands, reports>>
  PROVE  UInv'
  BY DEF UInv, Used, Budgeted, Within, Awaited, Planning

\* no server has more services or starts than it had
FewerServices ==
    \A n \in Gnbs : /\ \A a \in Apps : /\ a \in server'[n].granted => a \in server[n].granted
                                       /\ a \in server'[n].granted =>
                                             server'[n].service[a] = server[n].service[a]
                    /\ \A a \in Apps : \A M : M \subseteq Start(a) /\ Has(commands'[n], M)
                                                => Has(commands[n], M)

\* then their budgets are kept
LEMMA BudgetsKept ==
  ASSUME UInv, FewerServices
  PROVE  \A n \in Gnbs : Budgeted(n)'
<1> SUFFICES ASSUME NEW n \in Gnbs PROVE Budgeted(n)'
  OBVIOUS
<1>1. PICK f \in [Apps -> Nat] :
         SumOver(f, Apps) <= CmpUnitTotal /\ \A a \in Apps : Within(n, a, f)
  BY DEF UInv, Budgeted
<1>2. ASSUME NEW a \in Apps PROVE Within(n, a, f)'
  <2>1. Within(n, a, f)
    BY <1>1
  <2>2. StartAbove(a, f[a]) \subseteq Start(a)
    BY DEF StartAbove
  <2> QED BY <2>1, <2>2 DEF Within, FewerServices
<1> QED BY <1>1, <1>2 DEF Budgeted

\* the scheduler waits for fewer starts, and no server has said more
FewerWaits ==
    /\ \A a \in Apps : a \in sched'.appsWaitInitFb =>
          /\ a \in sched.appsWaitInitFb
          /\ sched'.srvInInitiating[a] = sched.srvInInitiating[a]
    /\ \A n \in Gnbs : \A a \in Apps : \A M : M \subseteq Say(a) /\ Has(reports'[n], M)
                                                => Has(reports[n], M)

\* then what it waits for is where it was
LEMMA AwaitsKept ==
  ASSUME UInv, FewerServices, FewerWaits
  PROVE  \A n \in Gnbs : \A a \in Apps : Awaited(n, a)'
<1> SUFFICES ASSUME NEW n \in Gnbs, NEW a \in Apps, a \in sched'.appsWaitInitFb
             PROVE  Awaited(n, a)'
  BY DEF Awaited
<1> DEFINE srv == sched.srvInInitiating[a]
<1>1. Awaited(n, a) /\ a \in sched.appsWaitInitFb /\ sched'.srvInInitiating[a] = srv
  BY DEF UInv, FewerWaits
<1>2. \A o : StartBut(a, o) \subseteq Start(a) /\ SayBut(a, o) \subseteq Say(a)
  BY DEF StartBut, SayBut
<1>3. \A M : M \subseteq Start(a) /\ Has(commands'[n], M) => Has(commands[n], M)
  BY DEF FewerServices
<1>4. \A M : M \subseteq Say(a) /\ Has(reports'[n], M) => Has(reports[n], M)
  BY DEF FewerWaits
<1>5. a \in server'[n].granted =>
         a \in server[n].granted /\ server'[n].service[a] = server[n].service[a]
  BY DEF FewerServices
<1>6. /\ Has(commands[n], Start(a)) =>
            n = srv.processGnb /\ ~Has(commands[n], StartBut(a, srv.offloadGnb))
      /\ a \in server[n].granted =>
            n = srv.processGnb /\ server[n].service[a].offloadGnb = srv.offloadGnb
      /\ Has(reports[n], Say(a)) =>
            n = srv.processGnb /\ ~Has(reports[n], SayBut(a, srv.offloadGnb))
  BY <1>1 DEF Awaited
<1> HIDE DEF srv
<1> QED BY <1>1, <1>2, <1>3, <1>4, <1>5, <1>6 DEF Awaited

\* the status of a server
LEMMA ReportStatusUnits ==
  ASSUME IInv, UInv, NEW n \in Gnbs, NEW u \in Ues \cup {NoUe}, ReportStatus(n, u)
  PROVE  UInv'
<1> DEFINE v == server[n]
           h == HandleRsuFeedback(v, [gnb |-> n, veh |-> u, bytePerBand |-> 1, availBand |-> 1])
<1>1. /\ PerformServer(n, h)
      /\ UNCHANGED <<sched, hasScheduler, carried, commands, fromMac>>
  BY DEF ReportStatus
<1>2. Sound /\ Fine(v, n) /\ v.out = <<>>
  BY DEF IInv, Sound
<1>3. Fine(h, n) /\ ButOut(v, h) /\ Tells(h, n)
  BY <1>2, RsuFeedbackFine
<1> HIDE DEF h
<1>4. PICK m \in RsuFD : h.out = <<m>> /\ m.gnb = n /\ m.freeCmpUnits = h.cmpUnitFree
  BY <1>3 DEF Tells
<1>5. m \in StatusOf(n) /\ m.freeCmpUnits = v.cmpUnitFree
  BY <1>3, <1>4 DEF StatusOf, ButOut
<1>6. Turned(n, h) /\ SentReport(n, m)
  BY <1>1, <1>2, <1>3, <1>4, <1>5, PerformTurns, PerformSends
<1>7. /\ \A x \in Gnbs : x # n => server'[x] = server[x]
      /\ server'[n].granted = v.granted /\ server'[n].service = v.service
      /\ server'[n].cmpUnitFree = v.cmpUnitFree /\ UnitsIn(server'[n]) = UnitsIn(v)
  BY <1>3, <1>6 DEF Turned, ButOut, UnitsIn, RunningIn
<1>8. \A x \in Gnbs : \A M : Has(reports'[x], M) => Has(reports[x], M) \/ (x = n /\ m \in M)
  BY <1>2, <1>5, <1>6, SentReportHas
<1>9. \A x \in Gnbs : Used(x)'
  BY <1>7 DEF UInv, Used
<1>10. FewerServices
  BY <1>1, <1>7 DEF FewerServices
<1>11. FewerWaits
  <2>1. \A a : m \notin Say(a)
    BY <1>4 DEF Say, SrvFD, Refusal, Answer, RsuFD
  <2> QED BY <1>1, <1>8, <2>1 DEF FewerWaits
<1>12. Planning'
  <2> SUFFICES ASSUME sched.schedComplete PROVE \A x \in Gnbs : ~Has(reports'[x], NotFull(x))
    BY <1>1 DEF UInv, Planning
  <2>1. \A x \in Gnbs : ~Has(reports[x], NotFull(x))
    BY DEF UInv, Planning
  <2>2. m \notin NotFull(n)
    BY <1>4, <1>5, PlanningVacant DEF NotFull, Full
  <2> QED BY <1>8, <2>1, <2>2
<1> QED BY <1>1, <1>9, <1>10, <1>11, <1>12, BudgetsKept, AwaitsKept DEF UInv

\* the sum of no holds
LEMMA HeldNone ==
  ASSUME NEW s, s.appsWaitInitFb = {}
  PROVE  \A g : SumOver(HoldCu(s, g), Apps) = 0 /\ SumOver(HoldRb(s, g), Apps) = 0
<1> SUFFICES ASSUME NEW g
             PROVE  SumOver(HoldCu(s, g), Apps) = 0 /\ SumOver(HoldRb(s, g), Apps) = 0
  OBVIOUS
<1> DEFINE w == HoldCu(s, g)
           v == HoldRb(s, g)
<1>1. w \in [Apps -> Nat] /\ v \in [Apps -> Nat] /\ \A a \in Apps : w[a] = 0 /\ v[a] = 0
  BY DEF HoldCu, HoldRb
<1> HIDE DEF w, v
<1>2. SumOver(w, Apps) = 0 /\ SumOver(v, Apps) = 0
  BY <1>1, AppsFinite, SumOverTyped
<1> QED BY <1>2 DEF w, v

\* a scheduler that is reset holds nothing and plans nothing
LEMMA ResetHolds ==
  ASSUME NEW s, NEW h, h = GlobalSchedulerReset(s) \/ h = GlobalSchedulerInit(s)
  PROVE  /\ h.appsWaitInitFb = {} /\ h.schedComplete = FALSE /\ h.rsuStatus = {}
         /\ Held(h) /\ Known(h)
<1> DEFINE z == InitialScheduler
<1>1. /\ h.appsWaitInitFb = z.appsWaitInitFb /\ h.schedComplete = z.schedComplete
      /\ h.rsuStatus = z.rsuStatus
      /\ h.rsuOnholdCus = z.rsuOnholdCus /\ h.rsuOnholdRbs = z.rsuOnholdRbs
  BY ZenonT(60) DEF GlobalSchedulerReset, GlobalSchedulerInit, InitialScheduler
<1>2. /\ z.appsWaitInitFb = {} /\ z.schedComplete = FALSE /\ z.rsuStatus = {}
      /\ z.rsuOnholdCus = [g \in Gnbs |-> 0] /\ z.rsuOnholdRbs = [g \in Gnbs |-> 0]
  BY DEF InitialScheduler
<1>3. h.appsWaitInitFb = {} /\ h.schedComplete = FALSE /\ h.rsuStatus = {}
      /\ \A g \in Gnbs : h.rsuOnholdCus[g] = 0 /\ h.rsuOnholdRbs[g] = 0
  BY <1>1, <1>2
<1>4. Held(h)
  BY <1>3, HeldNone DEF Held
<1>5. Known(h)
  BY <1>3 DEF Known
<1> QED BY <1>3, <1>4, <1>5

\* a node that loses the scheduler gets all its units back
LEMMA LoseSchedulerUnits ==
  ASSUME IInv, UInv, NEW n \in Gnbs, LoseScheduler(n)
  PROVE  UInv'
<1>1. /\ server' = [server EXCEPT ![n] = ReleaseServerResources(@)]
      /\ sched' = IF n = Host THEN GlobalSchedulerReset(sched) ELSE sched
      /\ UNCHANGED <<commands, reports>>
      /\ DOMAIN server = Gnbs
  BY DEF LoseScheduler, IInv, Sound
<1> DEFINE v == InitialServer(n)
           k == server'[n]
<1>2. /\ \A m \in Gnbs : m # n => server'[m] = server[m]
      /\ k = ReleaseServerResources(server[n])
  BY <1>1
<1>3. k = v
  <2>1. server[n].gnbId = n /\ server[n].out = <<>>
    BY DEF IInv, Sound, Fine, ServerRecord
  <2>2. v \in ServerRecord(n) /\ v.out = <<>>
    BY InitialServerFine DEF Fine
  <2>3. [v EXCEPT !.out = <<>>] = v
    <3> HIDE DEF v
    <3> QED BY <2>2 DEF ServerRecord
  <2> QED BY <1>2, <2>1, <2>3 DEF ReleaseServerResources
<1>4. Fine(v, n) /\ v.granted = {} /\ v.cmpUnitFree = CmpUnitTotal
  BY InitialServerFine
<1> HIDE DEF v
<1>5. \A m \in Gnbs : Used(m)'
  <2>1. SumOver(UnitsIn(v), Apps) = 0
    BY <1>4, NothingUsed
  <2>2. Used(n)'
    BY <1>3, <1>4, <2>1, ServerHandlersAssumption DEF Used
  <2>3. \A m \in Gnbs : m # n => Used(m)'
    BY <1>2 DEF UInv, Used
  <2> QED BY <2>2, <2>3
<1>6. FewerServices
  BY <1>1, <1>2, <1>3, <1>4 DEF FewerServices
<1>7. CASE n = Host
  <2>1. /\ sched'.appsWaitInitFb = {} /\ sched'.schedComplete = FALSE
        /\ Held(sched') /\ Known(sched')
    BY <1>1, <1>7, ResetHolds
  <2>2. FewerWaits
    BY <1>1, <2>1 DEF FewerWaits
  <2>3. Planning'
    BY <2>1 DEF Planning
  <2> QED BY <1>5, <1>6, <2>1, <2>2, <2>3, BudgetsKept, AwaitsKept DEF UInv
<1>8. CASE n # Host
  <2>1. sched' = sched /\ FewerWaits
    BY <1>1, <1>8 DEF FewerWaits
  <2>2. Planning'
    BY <1>1, <2>1 DEF UInv, Planning
  <2> QED BY <1>5, <1>6, <2>1, <2>2, BudgetsKept, AwaitsKept DEF UInv
<1> QED BY <1>7, <1>8

\* an election changes no units
LEMMA ElectUnits ==
  ASSUME IInv, UInv, Elect
  PROVE  UInv'
<1>1. /\ sched' = GlobalSchedulerInit(sched) /\ UNCHANGED <<server, commands>>
  BY DEF Elect
<1>2. /\ sched'.appsWaitInitFb = {} /\ sched'.schedComplete = FALSE
      /\ Held(sched') /\ Known(sched')
  BY <1>1, ResetHolds
<1>3. Planning' /\ \A n \in Gnbs : \A a \in Apps : Awaited(n, a)'
  BY <1>2 DEF Planning, Awaited
<1>4. \A n \in Gnbs : Used(n)'
  BY <1>1 DEF UInv, Used
<1>5. FewerServices
  BY <1>1 DEF FewerServices
<1> QED BY <1>2, <1>3, <1>4, <1>5, BudgetsKept DEF UInv

-----------------------------------------------------------------------------
(* The scheduler.                                                          *)

\* scheduler h holds and plans what s does
SameHolds(s, h) ==
    /\ h.appsWaitInitFb = s.appsWaitInitFb /\ h.srvInInitiating = s.srvInInitiating
    /\ h.rsuOnholdCus = s.rsuOnholdCus /\ h.rsuOnholdRbs = s.rsuOnholdRbs
    /\ h.rsuStatus = s.rsuStatus
    /\ h.schedComplete = s.schedComplete /\ h.vecSchedule = s.vecSchedule
    /\ h.cmpUnits = s.cmpUnits

\* then that matches as well
LEMMA HoldsKept ==
  ASSUME NEW s, NEW h, SameHolds(s, h), Held(s), Known(s)
  PROVE  Held(h) /\ Known(h)
<1>1. \A g : HoldCu(h, g) = HoldCu(s, g) /\ HoldRb(h, g) = HoldRb(s, g)
  BY DEF SameHolds, HoldCu, HoldRb
<1> QED BY <1>1 DEF SameHolds, Held, Known

\* PerformScheduler keeps the holds of the handler
LEMMA PerformHolds ==
  ASSUME NEW h \in SchedRecord, PerformScheduler(h)
  PROVE  SameHolds(h, sched')
  BY DEF PerformScheduler, SchedRecord, SameHolds

\* a step of the scheduler that starts nothing
LEMMA SchedulerUnits ==
  ASSUME IInv, UInv, NEW h, SchedOk(h), PerformScheduler(h), UNCHANGED server,
         \A n \in Gnbs : h.out[n] \in Seq(CommandTo(n)) /\ ~Has(h.out[n], AllStarts),
         \A a \in Apps : a \in h.appsWaitInitFb =>
            /\ a \in sched.appsWaitInitFb
            /\ h.srvInInitiating[a] = sched.srvInInitiating[a],
         \A n \in Gnbs : \A M : Has(reports'[n], M) => Has(reports[n], M),
         Held(h), Known(h),
         h.schedComplete => \A n \in Gnbs : /\ ~Has(reports[n], NotFull(n))
                                            /\ AskedCus(h.vecSchedule, n) <= h.cmpUnits[n]
                                            /\ h.cmpUnits[n] <= CmpUnitTotal
  PROVE  UInv'
<1>1. SameHolds(h, sched')
  BY PerformHolds DEF SchedOk
<1>2. Held(sched') /\ Known(sched')
  BY <1>1, HoldsKept
<1>3. FewerWaits
  BY <1>1 DEF FewerWaits, SameHolds
<1>4. ASSUME NEW n \in Gnbs, NEW a \in Apps, NEW M, M \subseteq Start(a), Has(commands'[n], M)
      PROVE  Has(commands[n], M)
  <2>1. commands[n] \in Seq(CommandTo(n)) /\ commands'[n] = commands[n] \o h.out[n]
    BY SchedPerforms DEF IInv, Sound, SchedTurned
  <2>2. Has(commands[n], M) \/ Has(h.out[n], M)
    BY <1>4, <2>1, HasConcat
  <2>3. ~Has(h.out[n], M)
    <3>1. M \subseteq AllStarts
      BY <1>4 DEF Start, AllStarts
    <3> QED BY <3>1 DEF Has
  <2> QED BY <2>2, <2>3
<1>5. FewerServices
  BY <1>4 DEF FewerServices
<1>6. \A n \in Gnbs : Used(n)'
  BY DEF UInv, Used
<1>7. Planning'
  BY <1>1 DEF Planning, SameHolds
<1> QED BY <1>2, <1>3, <1>5, <1>6, <1>7, BudgetsKept, AwaitsKept DEF UInv

\* handler h sends nothing
LEMMA SendsNothing ==
  ASSUME NEW h, h.out = NothingSent
  PROVE  \A n \in Gnbs : h.out[n] \in Seq(CommandTo(n)) /\ \A M : ~Has(h.out[n], M)
<1> SUFFICES ASSUME NEW n \in Gnbs
             PROVE  h.out[n] \in Seq(CommandTo(n)) /\ \A M : ~Has(h.out[n], M)
  OBVIOUS
<1>1. h.out[n] = <<>>
  BY DEF NothingSent
<1> DEFINE S == CommandTo(n)
<1> HIDE DEF S
<1>2. <<>> \in Seq(S)
  OBVIOUS
<1> QED BY <1>1, <1>2, HasEmpty DEF S

\* a request changes no units
LEMMA ReceiveRequestUnits ==
  ASSUME IInv, UInv, NEW a \in Apps, ReceiveRequest(a)
  PROVE  UInv'
<1> DEFINE h == RecordVehRequest(sched, a)
<1>1. SchedOk(sched) /\ sched.out = NothingSent
  BY DEF IInv, Sound
<1>2. SchedOk(h) /\ h.out = NothingSent
  BY <1>1, RequestFields
<1>3. PerformScheduler(h) /\ UNCHANGED <<server, reports>>
  BY DEF ReceiveRequest
<1>4. SameHolds(sched, h)
  BY DEF RecordVehRequest, SameHolds
<1> HIDE DEF h
<1>5. Held(h) /\ Known(h)
  BY <1>4, HoldsKept DEF UInv
<1>6. h.schedComplete => \A n \in Gnbs : /\ ~Has(reports[n], NotFull(n))
                                         /\ AskedCus(h.vecSchedule, n) <= h.cmpUnits[n]
                                         /\ h.cmpUnits[n] <= CmpUnitTotal
  BY <1>4 DEF UInv, Planning, SameHolds
<1>7. \A b \in Apps : b \in h.appsWaitInitFb =>
         b \in sched.appsWaitInitFb /\ h.srvInInitiating[b] = sched.srvInInitiating[b]
  BY <1>4 DEF SameHolds
<1>8. \A n \in Gnbs : h.out[n] \in Seq(CommandTo(n)) /\ ~Has(h.out[n], AllStarts)
  BY <1>2, SendsNothing
<1> QED BY <1>2, <1>3, <1>5, <1>6, <1>7, <1>8, SchedulerUnits

-----------------------------------------------------------------------------
(* The units a schedule asks for.                                          *)

\* the recursive function of AskedCus
AsksOf(f, q, g, N) ==
    f = [i \in 0 .. N |->
            IF i = 0 THEN 0
            ELSE f[i - 1] + IF q[i].processGnb = g THEN q[i].cmpUnits ELSE 0]

\* it exists, by the argument for the grants
LEMMA AsksExist ==
  ASSUME NEW q, NEW g
  PROVE  \A N \in Nat : \E f : AsksOf(f, q, g, N)
<1> DEFINE Bad == {N \in Nat : ~\E f : AsksOf(f, q, g, N)}
           more(i) == IF q[i].processGnb = g THEN q[i].cmpUnits ELSE 0
<1> SUFFICES ASSUME Bad # {} PROVE FALSE
  OBVIOUS
<1>1. PICK N \in Bad : \A k \in Bad : N <= k
  BY LeastNatural
<1>2. CASE N = 0
  <2>1. AsksOf([i \in 0 .. 0 |-> 0], q, g, 0)
    BY DEF AsksOf
  <2> QED BY <2>1, <1>1, <1>2
<1>3. CASE N # 0
  <2>1. N - 1 \in Nat /\ N - 1 \notin Bad
    BY <1>1, <1>3
  <2>2. PICK f : AsksOf(f, q, g, N - 1)
    BY <2>1
  <2> DEFINE last == f[N - 1] + more(N)
             h == [i \in 0 .. N |-> IF i = N THEN last ELSE f[i]]
  <2>3. ASSUME NEW i \in 0 .. N
        PROVE  h[i] = IF i = 0 THEN 0 ELSE h[i - 1] + more(i)
    <3>0. \A k \in 0 .. N - 1 : f[k] = IF k = 0 THEN 0 ELSE f[k - 1] + more(k)
      BY <2>2 DEF AsksOf
    <3> HIDE DEF last, more
    <3>1. CASE i = N
      <4>1. h[i] = last /\ h[i - 1] = f[N - 1] /\ i # 0
        BY <3>1, <2>1, <1>3
      <4> QED BY <3>1, <4>1 DEF last
    <3>2. CASE i # N
      <4>1. i \in 0 .. N - 1 /\ h[i] = f[i]
        BY <3>2, <2>1
      <4>2. i # 0 => h[i - 1] = f[i - 1]
        BY <3>2, <2>1
      <4> QED BY <3>0, <4>1, <4>2
    <3> QED BY <3>1, <3>2
  <2>4. AsksOf(h, q, g, N)
    <3> HIDE DEF last
    <3> QED BY <2>3 DEF AsksOf
  <2> QED BY <2>4, <1>1
<1> QED BY <1>2, <1>3

\* AskedCus adds up the units, instance by instance
LEMMA AskedSteps ==
  ASSUME NEW q \in Seq(ServiceInstance), NEW g
  PROVE  LET N == Len(q)
         IN  \E f : /\ AskedCus(q, g) = f[N] /\ f \in [0 .. N -> Nat] /\ f[0] = 0
                    /\ \A i \in 1 .. N :
                          f[i] = f[i - 1] + IF q[i].processGnb = g THEN q[i].cmpUnits ELSE 0
                    /\ \A i \in 0 .. N : f[i] <= f[N]
<1> DEFINE N == Len(q)
           more(i) == IF q[i].processGnb = g THEN q[i].cmpUnits ELSE 0
           sum[i \in 0 .. Len(q)] == IF i = 0 THEN 0 ELSE sum[i - 1] + more(i)
<1>1. N \in Nat /\ \A i \in 1 .. N : more(i) \in Nat
  <2> DEFINE S == ServiceInstance
  <2>1. q \in Seq(S)
    OBVIOUS
  <2>2. \A x \in S : x.cmpUnits \in Nat
    BY DEF ServiceInstance
  <2> HIDE DEF S
  <2> QED BY <2>1, <2>2
<1>2. PICK f : AsksOf(f, q, g, N)
  BY <1>1, AsksExist
<1>3. AsksOf(sum, q, g, N)
  BY <1>2 DEF AsksOf
<1>4. AskedCus(q, g) = sum[N]
  BY DEF AskedCus
<1> HIDE DEF sum, more
<1>5. /\ sum[0] = 0 /\ \A i \in 1 .. N : sum[i] = sum[i - 1] + more(i)
      /\ sum = [i \in 0 .. N |-> sum[i]]
  <2> HIDE DEF N
  <2>1. 0 \in 0 .. N /\ \A i \in 1 .. N : i \in 0 .. N /\ i # 0
    BY <1>1
  <2> QED BY <1>3, <2>1 DEF AsksOf, more
<1> HIDE DEF N
<1>6. \A i \in 0 .. N : sum[i] \in Nat
  <2> DEFINE S == {i \in 0 .. N : sum[i] \in Nat}
  <2>1. 0 \in S
    BY <1>1, <1>5
  <2>2. ASSUME NEW i \in 0 .. N, i # N, i \in S
        PROVE  i + 1 \in S
    <3>1. i + 1 \in 1 .. N /\ i + 1 \in 0 .. N /\ (i + 1) - 1 = i
      BY <1>1, <2>2
    <3>2. sum[i + 1] = sum[i] + more(i + 1)
      BY <1>5, <3>1
    <3>3. sum[i] \in Nat /\ more(i + 1) \in Nat
      BY <1>1, <2>2, <3>1
    <3>4. sum[i + 1] \in Nat
      BY <3>2, <3>3
    <3> QED BY <3>1, <3>4
  <2>3. \A i \in 0 .. N : i \in S
    <3> HIDE DEF S
    <3> QED BY <1>1, <2>1, <2>2, UpTo
  <2> QED BY <2>3
<1>7. \A i \in 0 .. N : sum[i] <= sum[N]
  <2> DEFINE S == {i \in 0 .. N : sum[N - i] <= sum[N]}
  <2>1. 0 \in S
    BY <1>1, <1>6
  <2>2. ASSUME NEW i \in 0 .. N, i # N, i \in S
        PROVE  i + 1 \in S
    <3>1. i + 1 \in 0 .. N /\ N - i \in 1 .. N /\ N - (i + 1) \in 0 .. N
          /\ (N - i) - 1 = N - (i + 1) /\ N \in 0 .. N /\ N - i \in 0 .. N
      BY <1>1, <2>2
    <3>2. sum[N - i] = sum[N - (i + 1)] + more(N - i)
      BY <1>5, <3>1
    <3>3. /\ sum[N - i] \in Nat /\ sum[N - (i + 1)] \in Nat /\ sum[N] \in Nat
          /\ more(N - i) \in Nat
      BY <1>1, <1>6, <3>1
    <3>4. sum[N - i] <= sum[N]
      BY <2>2
    <3>5. \A x, y, z, w \in Int : x <= w /\ x = y + z /\ z >= 0 => y <= w
      OBVIOUS
    <3>6. sum[N - (i + 1)] <= sum[N]
      BY <3>2, <3>3, <3>4, <3>5
    <3> QED BY <3>1, <3>6
  <2>3. \A i \in 0 .. N : i \in S
    <3> HIDE DEF S
    <3> QED BY <1>1, <2>1, <2>2, UpTo
  <2>4. ASSUME NEW i \in 0 .. N PROVE sum[i] <= sum[N]
    <3>1. N - i \in 0 .. N /\ N - (N - i) = i
      BY <1>1
    <3> QED BY <2>3, <3>1
  <2> QED BY <2>4
<1>8. sum \in [0 .. N -> Nat]
  BY <1>5, <1>6
<1> QED BY <1>4, <1>5, <1>7, <1>8 DEF N, more

\* the sum is a number
LEMMA AskedTyped ==
  ASSUME NEW q \in Seq(ServiceInstance), NEW g
  PROVE  AskedCus(q, g) \in Nat
<1>1. PICK f : AskedCus(q, g) = f[Len(q)] /\ f \in [0 .. Len(q) -> Nat]
  BY AskedSteps
<1>2. Len(q) \in 0 .. Len(q)
  OBVIOUS
<1> QED BY <1>1, <1>2

\* what the holds of a scheduler add up to
LEMMA HoldsTyped ==
  ASSUME NEW s \in SchedRecord,
         \A a \in s.appsWaitInitFb : s.srvInInitiating[a] \in ServiceInstance
  PROVE  \A g : HoldCu(s, g) \in [Apps -> Nat] /\ HoldRb(s, g) \in [Apps -> Nat]
<1>1. \A a \in s.appsWaitInitFb :
         s.srvInInitiating[a].cmpUnits \in Nat /\ s.srvInInitiating[a].bands \in Nat
  BY DEF ServiceInstance
<1> QED BY <1>1 DEF HoldCu, HoldRb

\* the first status of a gNB clears no hold: no start names the gNB
LEMMA RsuStatusHolds ==
  ASSUME NEW s, SchedOk(s), NEW fd \in RsuFD, fd.gnb \in Gnbs, Held(s), Known(s)
  PROVE  LET h == RecordRsuStatus(s, fd)
         IN  /\ h.appsWaitInitFb = s.appsWaitInitFb /\ h.srvInInitiating = s.srvInInitiating
             /\ h.rsuOnholdCus = s.rsuOnholdCus /\ h.rsuOnholdRbs = s.rsuOnholdRbs
             /\ h.rsuStatus = s.rsuStatus \cup {fd.gnb}
             /\ h.schedComplete = s.schedComplete /\ h.vecSchedule = s.vecSchedule
             /\ h.cmpUnits = [s.cmpUnits EXCEPT ![fd.gnb] = fd.freeCmpUnits]
<1> DEFINE g == fd.gnb
           first == [s EXCEPT !.rsuStatus = @ \cup {g},
                              !.rsuOnholdRbs[g] = 0, !.rsuOnholdCus[g] = 0]
           known == IF g \in s.rsuStatus THEN s ELSE first
           h == RecordRsuStatus(s, fd)
<1>1. s \in SchedRecord
  BY DEF SchedOk
<1>2. /\ h.appsWaitInitFb = known.appsWaitInitFb /\ h.srvInInitiating = known.srvInInitiating
      /\ h.rsuOnholdCus = known.rsuOnholdCus /\ h.rsuOnholdRbs = known.rsuOnholdRbs
      /\ h.rsuStatus = known.rsuStatus
      /\ h.schedComplete = known.schedComplete /\ h.vecSchedule = known.vecSchedule
      /\ h.cmpUnits = [known.cmpUnits EXCEPT ![g] = fd.freeCmpUnits]
  <2>1. known \in SchedRecord
    <3>1. s.rsuOnholdRbs \in [Gnbs -> Nat] /\ s.rsuOnholdCus \in [Gnbs -> Nat]
      BY <1>1 DEF SchedRecord
    <3>2. [s.rsuOnholdRbs EXCEPT ![g] = 0] \in [Gnbs -> Nat]
          /\ [s.rsuOnholdCus EXCEPT ![g] = 0] \in [Gnbs -> Nat]
      BY <3>1
    <3> QED BY <1>1, <3>2, ZenonT(60) DEF SchedRecord
  <2> DEFINE dated == [known EXCEPT !.cmpUnits[g] = fd.freeCmpUnits]
  <2> HIDE DEF known
  <2>2. h = IF fd.veh = NoUe THEN dated
            ELSE [dated EXCEPT !.vehAccessRsu[fd.veh] = @ \cup {g}]
    BY DEF RecordRsuStatus, known
  <2>3. /\ dated.appsWaitInitFb = known.appsWaitInitFb
        /\ dated.srvInInitiating = known.srvInInitiating
        /\ dated.rsuOnholdCus = known.rsuOnholdCus /\ dated.rsuOnholdRbs = known.rsuOnholdRbs
        /\ dated.rsuStatus = known.rsuStatus
        /\ dated.schedComplete = known.schedComplete /\ dated.vecSchedule = known.vecSchedule
        /\ dated.cmpUnits = [known.cmpUnits EXCEPT ![g] = fd.freeCmpUnits]
        /\ \A acc : LET k == [dated EXCEPT !.vehAccessRsu = acc]
                    IN  /\ k.appsWaitInitFb = dated.appsWaitInitFb
                        /\ k.srvInInitiating = dated.srvInInitiating
                        /\ k.rsuOnholdCus = dated.rsuOnholdCus
                        /\ k.rsuOnholdRbs = dated.rsuOnholdRbs
                        /\ k.rsuStatus = dated.rsuStatus /\ k.schedComplete = dated.schedComplete
                        /\ k.vecSchedule = dated.vecSchedule /\ k.cmpUnits = dated.cmpUnits
    BY <2>1 DEF SchedRecord
  <2>4. CASE fd.veh = NoUe
    <3>1. h = dated
      BY <2>2, <2>4
    <3> HIDE DEF dated, h
    <3> QED BY <2>3, <3>1
  <2>5. CASE fd.veh # NoUe
    <3> DEFINE acc == [dated.vehAccessRsu EXCEPT ![fd.veh] = @ \cup {g}]
    <3>1. h = [dated EXCEPT !.vehAccessRsu = acc]
      BY <2>2, <2>5
    <3> HIDE DEF dated, h, acc, known
    <3>2. PICK k : k = [dated EXCEPT !.vehAccessRsu = acc]
      OBVIOUS
    <3>3. /\ k.appsWaitInitFb = dated.appsWaitInitFb
          /\ k.srvInInitiating = dated.srvInInitiating
          /\ k.rsuOnholdCus = dated.rsuOnholdCus /\ k.rsuOnholdRbs = dated.rsuOnholdRbs
          /\ k.rsuStatus = dated.rsuStatus /\ k.schedComplete = dated.schedComplete
          /\ k.vecSchedule = dated.vecSchedule /\ k.cmpUnits = dated.cmpUnits
      BY <2>3, <3>2
    <3>4. h = k
      BY <3>1, <3>2
    <3> QED BY <2>3, <3>3, <3>4
  <2> QED BY <2>4, <2>5
<1> HIDE DEF h
<1>3. CASE g \in s.rsuStatus
  <2>1. known = s /\ s.rsuStatus = s.rsuStatus \cup {g}
    BY <1>3
  <2> HIDE DEF known, g
  <2> QED BY <1>2, <2>1 DEF h, g
<1>4. CASE g \notin s.rsuStatus
  <2>1. \A a \in s.appsWaitInitFb : s.srvInInitiating[a].processGnb # g
                                    /\ s.srvInInitiating[a].offloadGnb # g
    BY <1>4 DEF Known
  <2>2. SumOver(HoldCu(s, g), Apps) = 0 /\ SumOver(HoldRb(s, g), Apps) = 0
    <3> DEFINE w == HoldCu(s, g)
               v == HoldRb(s, g)
    <3>1. w \in [Apps -> Nat] /\ v \in [Apps -> Nat] /\ \A a \in Apps : w[a] = 0 /\ v[a] = 0
      BY <2>1 DEF HoldCu, HoldRb
    <3> HIDE DEF w, v
    <3>2. SumOver(w, Apps) = 0 /\ SumOver(v, Apps) = 0
      BY <3>1, AppsFinite, SumOverTyped
    <3> QED BY <3>2 DEF w, v
  <2>3. s.rsuOnholdCus[g] = 0 /\ s.rsuOnholdRbs[g] = 0
    BY <2>2 DEF Held
  <2>4. /\ [s.rsuOnholdRbs EXCEPT ![g] = 0] = s.rsuOnholdRbs
        /\ [s.rsuOnholdCus EXCEPT ![g] = 0] = s.rsuOnholdCus
    <3>1. s.rsuOnholdRbs \in [Gnbs -> Nat] /\ s.rsuOnholdCus \in [Gnbs -> Nat]
      BY <1>1 DEF SchedRecord
    <3> QED BY <2>3, <3>1
  <2>5. /\ known.appsWaitInitFb = s.appsWaitInitFb /\ known.srvInInitiating = s.srvInInitiating
        /\ known.rsuOnholdCus = s.rsuOnholdCus /\ known.rsuOnholdRbs = s.rsuOnholdRbs
        /\ known.rsuStatus = s.rsuStatus \cup {g}
        /\ known.schedComplete = s.schedComplete /\ known.vecSchedule = s.vecSchedule
        /\ known.cmpUnits = s.cmpUnits
    BY <1>1, <1>4, <2>4 DEF SchedRecord
  <2> HIDE DEF known, g
  <2> QED BY <1>2, <2>5 DEF h, g
<1> QED BY <1>3, <1>4

\* the scheduler hears the status of a gNB
LEMMA StatusUnits ==
  ASSUME IInv, UInv, NEW n \in Gnbs, NEW msg, msg = Head(reports[n]), msg.type = "RsuFD",
         ReceiveReport(n)
  PROVE  UInv'
<1> DEFINE h == RecordRsuStatus(sched, msg)
<1>1. Sound /\ SchedOk(sched) /\ sched.out = NothingSent
  BY DEF IInv, Sound
<1>2. /\ reports[n] # <<>> /\ reports' = [reports EXCEPT ![n] = Tail(@)] /\ PerformScheduler(h)
      /\ UNCHANGED server
  BY DEF ReceiveReport
<1>3. /\ msg \in StatusOf(n)
      /\ \A x \in Gnbs : \A M : Has(reports[x], M) <=> Has(reports'[x], M) \/ (x = n /\ msg \in M)
  BY <1>1, <1>2, StatusTaken
<1>4. msg \in RsuFD /\ msg.gnb = n /\ msg.gnb \in Gnbs /\ msg.freeCmpUnits \in Int
  BY <1>3, AnswerKinds
<1>5. SchedOk(h) /\ h.out = NothingSent
  <2>1. SchedOk(h) /\ h.out = sched.out
    BY <1>1, <1>4, RsuStatusFields, Zenon
  <2> HIDE DEF h
  <2> QED BY <1>1, <2>1
<1>6. /\ h.appsWaitInitFb = sched.appsWaitInitFb /\ h.srvInInitiating = sched.srvInInitiating
      /\ h.rsuOnholdCus = sched.rsuOnholdCus /\ h.rsuOnholdRbs = sched.rsuOnholdRbs
      /\ h.rsuStatus = sched.rsuStatus \cup {n}
      /\ h.schedComplete = sched.schedComplete /\ h.vecSchedule = sched.vecSchedule
      /\ h.cmpUnits = [sched.cmpUnits EXCEPT ![n] = msg.freeCmpUnits]
  BY <1>1, <1>4, RsuStatusHolds DEF UInv
<1> HIDE DEF h
<1>7. Held(h)
  <2>1. \A g : HoldCu(h, g) = HoldCu(sched, g) /\ HoldRb(h, g) = HoldRb(sched, g)
    BY <1>6 DEF HoldCu, HoldRb
  <2> QED BY <1>6, <2>1 DEF UInv, Held
<1>8. Known(h)
  BY <1>6 DEF UInv, Known
<1>9. ASSUME h.schedComplete, NEW m \in Gnbs
      PROVE  /\ ~Has(reports[m], NotFull(m))
             /\ AskedCus(h.vecSchedule, m) <= h.cmpUnits[m]
             /\ h.cmpUnits[m] <= CmpUnitTotal
  <2>1. /\ ~Has(reports[m], NotFull(m))
        /\ AskedCus(sched.vecSchedule, m) <= sched.cmpUnits[m]
        /\ sched.cmpUnits[m] <= CmpUnitTotal
    BY <1>6, <1>9 DEF UInv, Planning
  <2>2. sched.cmpUnits \in [Gnbs -> Int]
    BY <1>1 DEF SchedOk, SchedRecord
  <2>3. CASE m = n
    <3>1. msg \notin NotFull(n)
      BY <1>3, <2>1, <2>3
    <3>2. msg.freeCmpUnits = CmpUnitTotal /\ h.cmpUnits[n] = CmpUnitTotal
      BY <1>3, <1>6, <2>2, <3>1 DEF NotFull, Full
    <3>3. SchedOk(sched) /\ sched.vecSchedule \in Seq(ServiceInstance)
      BY <1>1 DEF SchedOk, SchedRecord
    <3>4. \A x, y, z \in Int : x <= y /\ y <= z => x <= z
      OBVIOUS
    <3>5. AskedCus(sched.vecSchedule, n) \in Int
      BY <3>3, AskedTyped
    <3> QED BY <1>6, <2>1, <2>2, <2>3, <3>2, <3>4, <3>5, ServerHandlersAssumption
  <2>4. CASE m # n
    BY <1>6, <2>1, <2>2, <2>4
  <2> QED BY <2>3, <2>4
<1>10. \A b \in Apps : b \in h.appsWaitInitFb =>
          b \in sched.appsWaitInitFb /\ h.srvInInitiating[b] = sched.srvInInitiating[b]
  BY <1>6
<1>11. \A x \in Gnbs : h.out[x] \in Seq(CommandTo(x)) /\ ~Has(h.out[x], AllStarts)
  BY <1>5, SendsNothing
<1>12. \A x \in Gnbs : \A M : Has(reports'[x], M) => Has(reports[x], M)
  BY <1>3
<1> QED BY <1>2, <1>5, <1>7, <1>8, <1>9, <1>10, <1>11, <1>12, SchedulerUnits

\* the holds after the answer to a start, by the gNBs it names
LEMMA HoldsReleased ==
  ASSUME NEW s \in SchedRecord, NEW h \in SchedRecord, NEW fd, Settled(s, h, fd),
         fd.app \in s.appsWaitInitFb, Held(s),
         \A b \in s.appsWaitInitFb : s.srvInInitiating[b] \in ServiceInstance,
         fd.processGnb = s.srvInInitiating[fd.app].processGnb,
         fd.offloadGnb = s.srvInInitiating[fd.app].offloadGnb
  PROVE  Held(h)
<1> DEFINE a == fd.app
           p == fd.processGnb
           q == fd.offloadGnb
<1>1. /\ a \in s.appsWaitInitFb /\ h.appsWaitInitFb = s.appsWaitInitFb \ {a}
      /\ \A b \in Apps : b # a => h.srvInInitiating[b] = s.srvInInitiating[b]
      /\ h.rsuOnholdRbs = [s.rsuOnholdRbs EXCEPT
                             ![q] = Greatest(@ - s.srvInInitiating[a].bands, 0)]
      /\ h.rsuOnholdCus = [s.rsuOnholdCus EXCEPT
                             ![p] = Greatest(@ - s.srvInInitiating[a].cmpUnits, 0)]
  BY DEF Settled
<1>2. p = s.srvInInitiating[a].processGnb /\ q = s.srvInInitiating[a].offloadGnb
  OBVIOUS
<1> HIDE DEF a, p, q
<1>3. /\ a \in Apps /\ s.srvInInitiating[a].cmpUnits \in Nat /\ s.srvInInitiating[a].bands \in Nat
      /\ s.rsuOnholdRbs \in [Gnbs -> Nat] /\ s.rsuOnholdCus \in [Gnbs -> Nat]
      /\ s.appsWaitInitFb \subseteq Apps
  BY <1>1 DEF SchedRecord, ServiceInstance
<1> SUFFICES ASSUME NEW g \in Gnbs
             PROVE  /\ h.rsuOnholdCus[g] = SumOver(HoldCu(h, g), Apps)
                    /\ h.rsuOnholdRbs[g] = SumOver(HoldRb(h, g), Apps)
  BY DEF Held
<1>4. /\ HoldCu(s, g) \in [Apps -> Nat] /\ HoldRb(s, g) \in [Apps -> Nat]
      /\ HoldCu(h, g) \in [Apps -> Nat] /\ HoldRb(h, g) \in [Apps -> Nat]
  <2>1. \A b \in h.appsWaitInitFb : h.srvInInitiating[b] \in ServiceInstance
    BY <1>3, <1>1
  <2> QED BY <2>1, HoldsTyped
<1>5. \A b \in Apps : b # a => /\ HoldCu(h, g)[b] = HoldCu(s, g)[b]
                               /\ HoldRb(h, g)[b] = HoldRb(s, g)[b]
  BY <1>1 DEF HoldCu, HoldRb
<1>6. HoldCu(h, g)[a] = 0 /\ HoldRb(h, g)[a] = 0
  BY <1>3, <1>1, <1>2 DEF HoldCu, HoldRb
<1>7. /\ HoldCu(s, g)[a] = IF p = g THEN s.srvInInitiating[a].cmpUnits ELSE 0
      /\ HoldRb(s, g)[a] = IF q = g THEN s.srvInInitiating[a].bands ELSE 0
  BY <1>3, <1>1, <1>2 DEF HoldCu, HoldRb
<1> DEFINE cs == HoldCu(s, g)
           ch == HoldCu(h, g)
           rs == HoldRb(s, g)
           rh == HoldRb(h, g)
<1>8. s.rsuOnholdCus[g] = SumOver(cs, Apps) /\ s.rsuOnholdRbs[g] = SumOver(rs, Apps)
  BY DEF Held
<1>9. /\ cs \in [Apps -> Nat] /\ rs \in [Apps -> Nat] /\ ch \in [Apps -> Nat] /\ rh \in [Apps -> Nat]
      /\ \A b \in Apps : b # a => ch[b] = cs[b] /\ rh[b] = rs[b]
      /\ ch[a] = 0 /\ rh[a] = 0
      /\ cs[a] = IF p = g THEN s.srvInInitiating[a].cmpUnits ELSE 0
      /\ rs[a] = IF q = g THEN s.srvInInitiating[a].bands ELSE 0
  BY <1>4, <1>5, <1>6, <1>7
<1> HIDE DEF cs, ch, rs, rh
<1>10. SumOver(ch, Apps) - 0 = SumOver(cs, Apps) - cs[a]
  BY <1>3, <1>9, AppsFinite, SumOverChanges
<1>11. SumOver(rh, Apps) - 0 = SumOver(rs, Apps) - rs[a]
  BY <1>3, <1>9, AppsFinite, SumOverChanges
<1>12. /\ SumOver(ch, Apps) \in Nat /\ SumOver(cs, Apps) \in Nat
       /\ SumOver(rh, Apps) \in Nat /\ SumOver(rs, Apps) \in Nat
  BY <1>9, AppsFinite, SumOverTyped
<1>13. \A x, y, z \in Nat : x - 0 = y - z => x = Greatest(y - z, 0) /\ (z = 0 => x = y)
  BY DEF Greatest
<1>14. h.rsuOnholdCus[g] = SumOver(ch, Apps)
  <2>1. CASE p = g
    <3>1. h.rsuOnholdCus[g] = Greatest(SumOver(cs, Apps) - cs[a], 0)
      BY <1>3, <1>8, <1>9, <1>1, <2>1
    <3>2. cs[a] \in Nat
      BY <1>3, <1>9
    <3>3. SumOver(cs, Apps) - cs[a] = SumOver(ch, Apps)
      BY <1>10, <1>12, <3>2
    <3>4. Greatest(SumOver(ch, Apps), 0) = SumOver(ch, Apps)
      BY <1>12 DEF Greatest
    <3> QED BY <3>1, <3>3, <3>4
  <2>2. CASE p # g
    <3>1. h.rsuOnholdCus[g] = SumOver(cs, Apps) /\ cs[a] = 0
      BY <1>3, <1>8, <1>9, <1>1, <2>2
    <3> QED BY <3>1, <1>10, <1>12, <1>13
  <2> QED BY <2>1, <2>2
<1>15. h.rsuOnholdRbs[g] = SumOver(rh, Apps)
  <2>1. CASE q = g
    <3>1. h.rsuOnholdRbs[g] = Greatest(SumOver(rs, Apps) - rs[a], 0)
      BY <1>3, <1>8, <1>9, <1>1, <2>1
    <3>2. rs[a] \in Nat
      BY <1>3, <1>9
    <3>3. SumOver(rs, Apps) - rs[a] = SumOver(rh, Apps)
      BY <1>11, <1>12, <3>2
    <3>4. Greatest(SumOver(rh, Apps), 0) = SumOver(rh, Apps)
      BY <1>12 DEF Greatest
    <3> QED BY <3>1, <3>3, <3>4
  <2>2. CASE q # g
    <3>1. h.rsuOnholdRbs[g] = SumOver(rs, Apps) /\ rs[a] = 0
      BY <1>3, <1>8, <1>9, <1>1, <2>2
    <3> QED BY <3>1, <1>11, <1>12, <1>13
  <2> QED BY <2>1, <2>2
<1> QED BY <1>14, <1>15 DEF ch, rh

\* the scheduler hears of a service it started or runs
LEMMA AnswerUnits ==
  ASSUME IInv, UInv, NEW n \in Gnbs, NEW fd, fd = Head(reports[n]), fd.type = "SrvFD",
         ReceiveReport(n)
  PROVE  UInv'
<1> DEFINE h == UpdateRsuSrvStatusFeedback(sched, fd)
           a == fd.app
<1>1. Sound /\ SchedOk(sched) /\ sched.out = NothingSent /\ sched \in SchedRecord
  BY DEF IInv, Sound, SchedOk
<1>2. /\ reports[n] # <<>> /\ reports' = [reports EXCEPT ![n] = Tail(@)] /\ PerformScheduler(h)
      /\ UNCHANGED server
  BY DEF ReceiveReport
<1>3. /\ fd \in StatusOf(n)
      /\ \A x \in Gnbs : \A M : Has(reports[x], M) <=> Has(reports'[x], M) \/ (x = n /\ fd \in M)
  BY <1>1, <1>2, StatusTaken
<1>4. /\ fd \in SrvFD /\ a \in Apps /\ fd.processGnb = n /\ fd.dated /\ fd \in Say(a)
      /\ \A o : fd \in SayBut(a, o) <=> fd.offloadGnb # o
      /\ fd.success => fd.grantedBand = 0
  BY <1>3, AnswerKinds, ZenonT(60)
<1>5. /\ a \notin Served(sched) => h = sched
      /\ a \in Served(sched) => SchedOk(h) /\ Settled(sched, h, fd) /\ SameRequests(sched, h)
  BY <1>1, <1>4, FeedbackFields
<1> HIDE DEF h
<1>6. ~sched.schedComplete
  <2>1. fd \in NotFull(n)
    BY <1>3, <1>4 DEF NotFull, Full, RsuFD, SrvFD, Refusal, Answer
  <2> QED BY <1>3, <2>1 DEF UInv, Planning
<1>7. /\ SchedOk(h) /\ h.out = NothingSent /\ h.schedComplete = sched.schedComplete
  BY <1>1, <1>5 DEF SameRequests
<1>8. \A b \in Apps : b \in h.appsWaitInitFb =>
         b \in sched.appsWaitInitFb /\ h.srvInInitiating[b] = sched.srvInInitiating[b]
  BY <1>5 DEF Settled
<1>9. CASE a \notin Served(sched)
  <2>1. Held(h) /\ Known(h)
    BY <1>5, <1>9 DEF UInv
  <2> HIDE DEF a
  <2>2. \A x \in Gnbs : h.out[x] \in Seq(CommandTo(x)) /\ ~Has(h.out[x], AllStarts)
    BY <1>7, SendsNothing
  <2>3. \A x \in Gnbs : \A M : Has(reports'[x], M) => Has(reports[x], M)
    BY <1>3
  <2> QED BY <1>2, <1>6, <1>7, <1>8, <2>1, <2>2, <2>3, SchedulerUnits
<1>10. CASE a \in Served(sched)
  <2>1. Settled(sched, h, fd) /\ SameRequests(sched, h) /\ h \in SchedRecord
    BY <1>5, <1>10 DEF SchedOk
  <2>2. \A b \in sched.appsWaitInitFb : sched.srvInInitiating[b] \in ServiceInstance
    BY <1>1 DEF SchedOk, Served, Instance
  <2>3. Held(h)
    <3>1. CASE a \in sched.appsWaitInitFb
      <4>1. Awaited(n, a) /\ Has(reports[n], Say(a))
        BY <1>3, <1>4 DEF UInv
      <4>2. n = sched.srvInInitiating[a].processGnb
            /\ fd.offloadGnb = sched.srvInInitiating[a].offloadGnb
        BY <1>3, <1>4, <3>1, <4>1 DEF Awaited
      <4>3. Held(sched)
        BY DEF UInv
      <4> QED BY <1>1, <1>4, <2>1, <2>2, <3>1, <4>2, <4>3, HoldsReleased, Zenon
    <3>2. CASE a \notin sched.appsWaitInitFb
      <4>1. /\ h.appsWaitInitFb = sched.appsWaitInitFb
            /\ h.srvInInitiating = sched.srvInInitiating
            /\ h.rsuOnholdRbs = sched.rsuOnholdRbs /\ h.rsuOnholdCus = sched.rsuOnholdCus
        BY <2>1, <3>2 DEF Settled
      <4>2. \A g : HoldCu(h, g) = HoldCu(sched, g) /\ HoldRb(h, g) = HoldRb(sched, g)
        BY <4>1 DEF HoldCu, HoldRb
      <4> QED BY <4>1, <4>2 DEF UInv, Held
    <3> QED BY <3>1, <3>2, SMTT(60)
  <2>4. Known(h)
    <3>1. h.rsuStatus = sched.rsuStatus /\ h.appsWaitInitFb \subseteq Apps
      BY <2>1 DEF Settled, SchedRecord
    <3> QED BY <1>6, <1>7, <1>8, <3>1 DEF UInv, Known
  <2> HIDE DEF a
  <2>5. \A x \in Gnbs : h.out[x] \in Seq(CommandTo(x)) /\ ~Has(h.out[x], AllStarts)
    BY <1>7, SendsNothing
  <2>6. \A x \in Gnbs : \A M : Has(reports'[x], M) => Has(reports[x], M)
    BY <1>3
  <2> QED BY <1>2, <1>6, <1>7, <1>8, <2>3, <2>4, <2>5, <2>6, SchedulerUnits
<1> QED BY <1>9, <1>10

\* services are told to stop when nothing is held
LEMMA PreScheduleCheckUnits ==
  ASSUME IInv, UInv, Prompt, RescheduleAll, NEW expired, PreScheduleCheck(expired)
  PROVE  UInv'
<1> DEFINE fired == [sched EXCEPT !.preSchedCheck = FALSE]
           A == sched.allocatedApps
           h == StopAll(fired, A)
<1>1. Sound /\ SchedOk(sched) /\ sched.out = NothingSent /\ sched \in SchedRecord
  BY DEF IInv, Sound, SchedOk
<1>2. /\ Quiet /\ AllFound /\ sched.preSchedCheck /\ ~sched.schedComplete
      /\ PerformScheduler(HandlePreSchedulingCheck(sched, expired))
      /\ UNCHANGED <<server, reports>>
  BY DEF PreScheduleCheck, TimersMayFire
<1>3. sched.appsWaitInitFb = {} /\ sched.appsWaitStopFb = {}
  BY <1>2, QuietBooks DEF IInv, Phase
<1>4. HandlePreSchedulingCheck(sched, expired) = h
  BY <1>3, StopNone DEF HandlePreSchedulingCheck
<1> HIDE DEF h
<1>5. /\ fired \in SchedRecord /\ fired.out = NothingSent
      /\ fired.appInfo = sched.appInfo /\ fired.blank = sched.blank
      /\ fired.vehApps = sched.vehApps
      /\ fired.unscheduledApps = sched.unscheduledApps
      /\ fired.appsWaitInitFb = {}
      /\ fired.appsWaitStopFb = {} /\ fired.allocatedApps = A
      /\ fired.srvInInitiating = sched.srvInInitiating
      /\ fired.runningService = sched.runningService
      /\ fired.preSchedCheck = FALSE /\ fired.schedComplete = FALSE
      /\ fired.rsuStatus = sched.rsuStatus
      /\ fired.rsuOnholdRbs = sched.rsuOnholdRbs /\ fired.rsuOnholdCus = sched.rsuOnholdCus
  BY <1>1, <1>2, <1>3 DEF SchedRecord
<1> HIDE DEF fired
<1>6. /\ OnePlace(sched)
      /\ \A a \in A : sched.runningService[a] \in ServiceInstance /\ sched.runningService[a].app = a
  BY <1>1, <1>3 DEF SchedOk, Served, Instance
<1>7. Stoppable(fired)
  BY <1>5, <1>6 DEF Stoppable, OnePlace
<1>8. Stopped(fired, h, A)
  BY <1>5, <1>7, AllStopped DEF h
<1>9. SchedOk(h)
  BY <1>1, <1>3, <1>5, <1>8 DEF Stopped, SchedOk, OnePlace, Planned, Served, Instance
<1>10. /\ h.appsWaitInitFb = {} /\ h.schedComplete = FALSE
       /\ h.rsuOnholdRbs = sched.rsuOnholdRbs /\ h.rsuOnholdCus = sched.rsuOnholdCus
       /\ \A g \in Gnbs : h.out[g] \in Seq(CommandTo(g)) /\ ~Has(h.out[g], AllStarts)
  BY <1>5, <1>8 DEF Stopped
<1>11. Held(h)
  <2>1. \A g : HoldCu(h, g) = HoldCu(sched, g) /\ HoldRb(h, g) = HoldRb(sched, g)
    BY <1>3, <1>10 DEF HoldCu, HoldRb
  <2> QED BY <1>10, <2>1 DEF UInv, Held
<1>12. Known(h)
  BY <1>10 DEF Known
<1>13. PerformScheduler(h)
  BY <1>2, <1>4
<1>14. \A x \in Gnbs : \A M : Has(reports'[x], M) => Has(reports[x], M)
  BY <1>2
<1> QED BY <1>2, <1>9, <1>10, <1>11, <1>12, <1>13, <1>14, SchedulerUnits

\* a schedule asks for units that are free
LEMMA ScheduleStartUnits ==
  ASSUME IInv, UInv, Prompt, NEW gone \in SUBSET Apps, NEW links \in SUBSET (Ues \X Gnbs),
         NEW stale \in SUBSET Gnbs, NEW inTime, ScheduleStart(gone, links, stale, inTime)
  PROVE  UInv'
<1> DEFINE begun == BeginScheduling(sched, gone, links, stale)
<1>1. Sound /\ SchedOk(sched) /\ sched.out = NothingSent
  BY DEF IInv, Sound
<1>2. /\ Quiet /\ AllFound /\ ~sched.preSchedCheck /\ ~sched.schedComplete
      /\ UNCHANGED <<server, reports>>
  BY DEF ScheduleStart, TimersMayFire
<1>3. PICK schedule : /\ IsSchedule(begun, schedule)
                      /\ PerformScheduler(FinishScheduling(begun, schedule, inTime))
  BY DEF ScheduleStart
<1>4. Served(sched) = {} /\ \A a \in Apps : Vacant(a)
  BY <1>2, NothingServed
<1>5. Begun(sched, begun)
  BY <1>1, <1>2, <1>4, BeginFields
<1> HIDE DEF begun
<1>6. Served(begun) = {} /\ SchedOk(begun) /\ begun.preSchedCheck /\ ~begun.schedComplete
  BY <1>5 DEF Begun, Served
<1> DEFINE h == FinishScheduling(begun, schedule, inTime)
<1>7. /\ SchedOk(h) /\ h.out = begun.out
      /\ h.appsWaitInitFb = begun.appsWaitInitFb /\ h.cmpUnits = begun.cmpUnits
      /\ h.rsuOnholdRbs = begun.rsuOnholdRbs /\ h.rsuOnholdCus = begun.rsuOnholdCus
      /\ h.rsuStatus = begun.rsuStatus /\ (h.schedComplete => h.vecSchedule = schedule)
  BY <1>3, <1>6, FinishFields
<1> HIDE DEF h
<1>8. sched.appsWaitInitFb = {} /\ h.appsWaitInitFb = {} /\ h.out = NothingSent
  BY <1>1, <1>4, <1>5, <1>7 DEF Served, Begun
<1>9. Held(h)
  <2>1. \A g : HoldCu(h, g) = HoldCu(sched, g) /\ HoldRb(h, g) = HoldRb(sched, g)
    BY <1>8 DEF HoldCu, HoldRb
  <2> QED BY <1>5, <1>7, <2>1 DEF UInv, Held, Begun
<1>10. Known(h)
  BY <1>3, <1>7, <1>8 DEF Known, IsSchedule
<1>11. ASSUME NEW n \in Gnbs
       PROVE  server[n].cmpUnitFree = CmpUnitTotal
  <2>1. Fine(server[n], n) /\ Used(n)
    BY <1>1 DEF Sound, UInv
  <2>2. server[n].granted = {}
    BY <1>4, <2>1 DEF Fine, ServerRecord, Vacant
  <2> QED BY <2>1, <2>2, NothingUsed, UnitsTyped, ServerHandlersAssumption DEF Used
<1>12. ASSUME h.schedComplete, NEW n \in Gnbs
       PROVE  /\ ~Has(reports[n], NotFull(n))
              /\ AskedCus(h.vecSchedule, n) <= h.cmpUnits[n]
              /\ h.cmpUnits[n] <= CmpUnitTotal
  <2>1. Counts(n) /\ reports[n] \in Seq(StatusOf(n)) /\ sched.cmpUnits \in [Gnbs -> Int]
    BY <1>1 DEF IInv, Sound, SchedOk, SchedRecord
  <2>2. \A i \in DOMAIN reports[n] : reports[n][i].type = "RsuFD"
    BY <1>2 DEF Quiet
  <2>3. ~Has(reports[n], NotFull(n))
    <3> SUFFICES ASSUME NEW i \in DOMAIN reports[n], reports[n][i] \in NotFull(n) PROVE FALSE
      BY DEF Has
    <3>1. reports[n][i] \in StatusOf(n) /\ reports[n][i].type = "RsuFD"
      BY <2>2 DEF NotFull
    <3>2. reports[n][i] \in RsuFD
      BY <3>1, AnswerKinds
    <3>3. NoAnswerBehind(reports[n], i)
      BY <2>2 DEF NoAnswerBehind
    <3>4. reports[n][i].freeCmpUnits = CmpUnitTotal
      BY <1>2, <1>11, <2>1, <3>1, <3>3 DEF Counts, Counted, Units
    <3> QED BY <3>2, <3>4 DEF NotFull, Full
  <2>4. sched.cmpUnits[n] \in {0, CmpUnitTotal}
    <3>1. NoAnswerBehind(reports[n], 0)
      BY <2>2 DEF NoAnswerBehind
    <3> QED BY <1>2, <1>11, <2>1, <3>1 DEF Counts
  <2>5. h.cmpUnits[n] \in {0, CmpUnitTotal}
    BY <1>5, <1>7, <2>4 DEF Begun
  <2>6. h.vecSchedule = schedule
    BY <1>7, <1>12
  <2>7. begun.rsuOnholdCus[n] = 0
    BY <1>5, <1>8, HeldNone DEF Begun, UInv, Held
  <2>8. AskedCus(schedule, n) <= Greatest(begun.cmpUnits[n] - begun.rsuOnholdCus[n], 0)
    BY <1>3 DEF IsSchedule, AvailableCus
  <2>9. CmpUnitTotal \in Nat
    BY ServerHandlersAssumption
  <2>10. Greatest(begun.cmpUnits[n] - 0, 0) = begun.cmpUnits[n] /\ begun.cmpUnits[n] <= CmpUnitTotal
    BY <1>7, <2>5, <2>9 DEF Greatest
  <2> QED BY <1>7, <2>3, <2>6, <2>7, <2>8, <2>10
<1>13. \A x \in Gnbs : h.out[x] \in Seq(CommandTo(x)) /\ ~Has(h.out[x], AllStarts)
  BY <1>8, SendsNothing
<1>14. PerformScheduler(h) /\ \A x \in Gnbs : \A M : Has(reports'[x], M) => Has(reports[x], M)
  BY <1>2, <1>3 DEF h
<1> QED BY <1>2, <1>7, <1>8, <1>9, <1>10, <1>12, <1>13, <1>14, SchedulerUnits

-----------------------------------------------------------------------------
(* The grants of a schedule.                                               *)

\* what scheduler h holds of gNB g is what its starts take, at most limit,
\* and it has asked server g for no more
Fits(h, g, limit) ==
    /\ h.rsuOnholdCus[g] = SumOver(HoldCu(h, g), Apps)
    /\ h.rsuOnholdRbs[g] = SumOver(HoldRb(h, g), Apps)
    /\ SumOver(HoldCu(h, g), Apps) <= limit
    /\ \A a \in Apps : ~Has(h.out[g], StartAbove(a, HoldCu(h, g)[a]))

\* one more grant fits if there are units for it, so none are cut off
LEMMA GrantFits ==
  ASSUME NEW s, NEW i \in Nat, NEW h, Sent(s, h, i), NEW srv \in ServiceInstance,
         srv.app \in s.appInfo, srv.app \notin h.appsWaitInitFb,
         NEW g \in Gnbs, NEW limit \in Nat, NEW more \in Nat, Fits(h, g, limit),
         more = IF srv.processGnb = g THEN srv.cmpUnits ELSE 0,
         limit + more <= h.cmpUnits[g]
  PROVE  Fits(GrantInstance(h, srv), g, limit + more)
<1> DEFINE a == srv.app
           p == srv.processGnb
           q == srv.offloadGnb
           w == GrantInstance(h, srv)
<1>1. /\ a \in Apps /\ p \in Gnbs /\ q \in Gnbs /\ a \in h.appInfo
      /\ srv.cmpUnits \in Nat /\ srv.bands \in Nat
      /\ h \in SchedRecord
      /\ \A b \in h.appsWaitInitFb : h.srvInInitiating[b] \in ServiceInstance
      /\ h.out[g] \in Seq(CommandTo(g))
      /\ \A b \in Apps : Has(h.out[g], Start(b)) => b \in h.appsWaitInitFb
  BY DEF Sent, ServiceInstance
<1>2. /\ h.cmpUnits \in [Gnbs -> Int] /\ h.appsWaitInitFb \subseteq Apps
      /\ h.rsuOnholdCus \in [Gnbs -> Nat] /\ h.rsuOnholdRbs \in [Gnbs -> Nat]
  BY <1>1 DEF SchedRecord
<1> DEFINE ch == HoldCu(h, g)
           rh == HoldRb(h, g)
<1>3. /\ ch \in [Apps -> Nat] /\ rh \in [Apps -> Nat] /\ ch[a] = 0 /\ rh[a] = 0
      /\ h.rsuOnholdCus[g] = SumOver(ch, Apps) /\ h.rsuOnholdRbs[g] = SumOver(rh, Apps)
      /\ SumOver(ch, Apps) <= limit
      /\ \A b \in Apps : ~Has(h.out[g], StartAbove(b, ch[b]))
      /\ SumOver(ch, Apps) \in Nat /\ SumOver(rh, Apps) \in Nat
  <2>1. ch \in [Apps -> Nat] /\ rh \in [Apps -> Nat]
    BY <1>1, HoldsTyped
  <2>2. ch[a] = 0 /\ rh[a] = 0
    BY <1>1 DEF HoldCu, HoldRb
  <2>3. /\ h.rsuOnholdCus[g] = SumOver(ch, Apps) /\ h.rsuOnholdRbs[g] = SumOver(rh, Apps)
        /\ SumOver(ch, Apps) <= limit
        /\ \A b \in Apps : ~Has(h.out[g], StartAbove(b, ch[b]))
    BY DEF Fits
  <2> HIDE DEF ch, rh
  <2>4. SumOver(ch, Apps) \in Nat /\ SumOver(rh, Apps) \in Nat
    BY <2>1, AppsFinite, SumOverTyped
  <2> QED BY <2>1, <2>2, <2>3, <2>4
<1>4. CASE h.cmpUnits[p] < srv.cmpUnits
  <2>1. w = h
    BY <1>4 DEF GrantInstance
  <2>2. SumOver(ch, Apps) <= limit + more
    <3> HIDE DEF ch
    <3> QED BY <1>3
  <2> QED BY <2>1, <2>2 DEF Fits
<1>5. CASE ~(h.cmpUnits[p] < srv.cmpUnits)
  <2>1. Granted(h, w, srv)
    BY <1>1, <1>5, GrantFields
  <2> HIDE DEF w
  <2>2. /\ w \in SchedRecord /\ w.appsWaitInitFb = h.appsWaitInitFb \cup {a}
        /\ w.srvInInitiating[a] = srv
        /\ \A b \in Apps : b # a => w.srvInInitiating[b] = h.srvInInitiating[b]
        /\ w.rsuOnholdRbs = [h.rsuOnholdRbs EXCEPT ![q] = @ + srv.bands]
        /\ w.rsuOnholdCus = [h.rsuOnholdCus EXCEPT ![p] = Least(@ + srv.cmpUnits, h.cmpUnits[p])]
    BY <2>1 DEF Granted
  <2>3. PICK m \in CommandTo(p) :
           /\ m.app = a /\ m.start = TRUE /\ m.cmpUnits = srv.cmpUnits
           /\ \A x \in Gnbs : w.out[x] = IF x = p THEN Append(h.out[x], m) ELSE h.out[x]
    BY <2>1 DEF Granted
  <2> DEFINE cw == HoldCu(w, g)
             rw == HoldRb(w, g)
             band == IF q = g THEN srv.bands ELSE 0
  <2>4. /\ cw \in [Apps -> Nat] /\ rw \in [Apps -> Nat]
        /\ cw[a] = more /\ rw[a] = band /\ band \in Nat
        /\ \A b \in Apps : b # a => cw[b] = ch[b] /\ rw[b] = rh[b]
    <3>1. \A b \in w.appsWaitInitFb : w.srvInInitiating[b] \in ServiceInstance
      BY <1>1, <1>2, <2>2
    <3>2. cw \in [Apps -> Nat] /\ rw \in [Apps -> Nat]
      BY <2>2, <3>1, HoldsTyped
    <3>3. cw[a] = more /\ rw[a] = band /\ band \in Nat
      BY <1>1, <2>2 DEF HoldCu, HoldRb
    <3>4. \A b \in Apps : b # a => cw[b] = ch[b] /\ rw[b] = rh[b]
      BY <2>2 DEF HoldCu, HoldRb
    <3> QED BY <3>2, <3>3, <3>4
  <2> HIDE DEF ch, rh, cw, rw, band
  <2>5. SumOver(cw, Apps) \in Nat /\ SumOver(rw, Apps) \in Nat
    BY <2>4, AppsFinite, SumOverTyped
  <2>6. SumOver(cw, Apps) = SumOver(ch, Apps) + more
    <3>1. SumOver(cw, Apps) - cw[a] = SumOver(ch, Apps) - ch[a]
      <4> HIDE DEF a
      <4>1. a \in Apps /\ ch \in [Apps -> Nat] /\ rh \in [Apps -> Nat]
        BY <1>1, <1>3
      <4> QED BY <2>4, <4>1, AppsFinite, SumOverChanges
    <3>2. SumOver(cw, Apps) - more = SumOver(ch, Apps) - 0
      BY <1>3, <2>4, <3>1
    <3> QED BY <1>3, <2>5, <3>2
  <2>7. SumOver(rw, Apps) = SumOver(rh, Apps) + band
    <3>1. SumOver(rw, Apps) - rw[a] = SumOver(rh, Apps) - rh[a]
      <4> HIDE DEF a
      <4>1. a \in Apps /\ ch \in [Apps -> Nat] /\ rh \in [Apps -> Nat]
        BY <1>1, <1>3
      <4> QED BY <2>4, <4>1, AppsFinite, SumOverChanges
    <3>2. SumOver(rw, Apps) - band = SumOver(rh, Apps) - 0
      BY <1>3, <2>4, <3>1
    <3> QED BY <1>3, <2>4, <2>5, <3>2
  <2>8. SumOver(cw, Apps) <= limit + more
    BY <1>3, <2>5, <2>6
  <2>9. w.rsuOnholdCus[g] = SumOver(cw, Apps)
    <3>1. CASE p = g
      <4>1. w.rsuOnholdCus[g] = Least(SumOver(ch, Apps) + more, h.cmpUnits[g])
        BY <1>1, <1>2, <1>3, <2>2, <3>1
      <4>2. SumOver(cw, Apps) <= h.cmpUnits[g] /\ h.cmpUnits[g] \in Int
        BY <1>2, <2>5, <2>8
      <4>3. \A x, y \in Int : x <= y => Least(x, y) = x
        BY DEF Least
      <4> QED BY <2>5, <2>6, <4>1, <4>2, <4>3
    <3>2. CASE p # g
      <4>1. w.rsuOnholdCus[g] = SumOver(ch, Apps) /\ more = 0
        BY <1>1, <1>2, <1>3, <2>2, <3>2
      <4> QED BY <1>3, <2>6, <4>1
    <3> QED BY <3>1, <3>2
  <2>10. w.rsuOnholdRbs[g] = SumOver(rw, Apps)
    <3>1. CASE q = g
      <4>1. w.rsuOnholdRbs[g] = SumOver(rh, Apps) + srv.bands /\ band = srv.bands
        BY <1>1, <1>2, <1>3, <2>2, <3>1 DEF band
      <4> QED BY <2>7, <4>1
    <3>2. CASE q # g
      <4>1. w.rsuOnholdRbs[g] = SumOver(rh, Apps) /\ band = 0
        BY <1>1, <1>2, <1>3, <2>2, <3>2 DEF band
      <4> QED BY <1>3, <2>7, <4>1
    <3> QED BY <3>1, <3>2
  <2>11. ASSUME NEW b \in Apps
         PROVE  ~Has(w.out[g], StartAbove(b, cw[b]))
    <3>1. ~Has(h.out[g], StartAbove(b, cw[b]))
      <4>1. CASE b = a
        <5>1. ~Has(h.out[g], Start(a))
          BY <1>1
        <5> QED BY <4>1, <5>1 DEF Has, StartAbove
      <4>2. CASE b # a
        BY <1>3, <2>4, <4>2
      <4> QED BY <4>1, <4>2
    <3>2. g = p => m \notin StartAbove(b, cw[b])
      <4> SUFFICES ASSUME g = p, m \in StartAbove(b, cw[b]) PROVE FALSE
        OBVIOUS
      <4>1. b = a /\ m.cmpUnits > cw[a]
        BY <2>3 DEF StartAbove, Start
      <4>2. m.cmpUnits = cw[a] /\ cw[a] \in Nat
        BY <2>3, <2>4
      <4> QED BY <4>1, <4>2
    <3>3. CASE g = p
      <4>1. w.out[g] = Append(h.out[g], m) /\ m \in CommandTo(g)
        BY <2>3, <3>3
      <4> QED BY <1>1, <3>1, <3>2, <3>3, <4>1, HasAppend
    <3>4. CASE g # p
      BY <2>3, <3>1, <3>4
    <3> QED BY <3>3, <3>4
  <2> QED BY <2>8, <2>9, <2>10, <2>11 DEF Fits, cw, rw, w
<1> QED BY <1>4, <1>5

\* a whole schedule fits
LEMMA ScheduleFits ==
  ASSUME NEW s, SchedOk(s), Served(s) = {}, s.schedComplete, s.out = NothingSent, Held(s),
         NEW g \in Gnbs, AskedCus(s.vecSchedule, g) <= s.cmpUnits[g]
  PROVE  Fits(SendGrant(s), g, AskedCus(s.vecSchedule, g))
<1> DEFINE N == Len(s.vecSchedule)
           all == AskedCus(s.vecSchedule, g)
           more(i) == IF s.vecSchedule[i].processGnb = g THEN s.vecSchedule[i].cmpUnits ELSE 0
<1>1. /\ s \in SchedRecord /\ s.appsWaitInitFb = {} /\ s.cmpUnits[g] \in Int
      /\ \A i \in DOMAIN s.vecSchedule : s.vecSchedule[i].app \in s.appInfo
      /\ \A i, j \in DOMAIN s.vecSchedule : s.vecSchedule[i].app = s.vecSchedule[j].app => i = j
      /\ s.vecSchedule \in Seq(ServiceInstance)
  BY DEF SchedOk, SchedRecord, Served, Planned
<1>2. /\ N \in Nat /\ DOMAIN s.vecSchedule = 1 .. N
      /\ \A i \in 1 .. N : s.vecSchedule[i] \in ServiceInstance
  <2> DEFINE S == ServiceInstance
  <2>1. s.vecSchedule \in Seq(S)
    BY <1>1
  <2> HIDE DEF S
  <2>2. N \in Nat /\ DOMAIN s.vecSchedule = 1 .. N /\ \A i \in 1 .. N : s.vecSchedule[i] \in S
    BY <2>1
  <2> QED BY <2>2 DEF S
<1>3. PICK f : /\ SendGrant(s) = [f[N] EXCEPT !.vecSchedule = <<>>]
               /\ f[0] = [s EXCEPT !.schedComplete = FALSE]
               /\ \A i \in 1 .. N : f[i] = GrantInstance(f[i - 1], s.vecSchedule[i])
               /\ \A i \in 0 .. N : Sent(s, f[i], i)
  BY SentSteps
<1>4. PICK asks : /\ all = asks[N] /\ asks \in [0 .. N -> Nat] /\ asks[0] = 0
                  /\ \A i \in 1 .. N : asks[i] = asks[i - 1] + more(i)
                  /\ \A i \in 0 .. N : asks[i] <= asks[N]
  <2>1. s.vecSchedule \in Seq(ServiceInstance)
    BY <1>1
  <2> QED BY <2>1, AskedSteps
<1>5. \A i \in 1 .. N : more(i) \in Nat
  BY <1>2 DEF ServiceInstance
<1> DEFINE S == {i \in 0 .. N : Fits(f[i], g, asks[i])}
<1> HIDE DEF N, more, all
<1>6. 0 \in S
  <2> DEFINE z == [s EXCEPT !.schedComplete = FALSE]
  <2>1. /\ z.appsWaitInitFb = {} /\ z.out = s.out
        /\ z.rsuOnholdCus = s.rsuOnholdCus /\ z.rsuOnholdRbs = s.rsuOnholdRbs
    BY <1>1 DEF SchedRecord
  <2>2. f[0] = z
    BY <1>3
  <2> HIDE DEF z
  <2>3. /\ SumOver(HoldCu(z, g), Apps) = 0 /\ SumOver(HoldRb(z, g), Apps) = 0
        /\ SumOver(HoldCu(s, g), Apps) = 0 /\ SumOver(HoldRb(s, g), Apps) = 0
    BY <1>1, <2>1, HeldNone
  <2>4. z.out[g] = <<>>
    BY <2>1 DEF NothingSent
  <2>5. Fits(z, g, 0)
    BY <2>1, <2>3, <2>4, HasEmpty DEF Fits, Held
  <2> QED BY <1>2, <1>4, <2>2, <2>5
<1>7. ASSUME NEW i \in 0 .. N, i # N, i \in S
      PROVE  i + 1 \in S
  <2>1. i + 1 \in 1 .. N /\ i + 1 \in 0 .. N /\ (i + 1) - 1 = i /\ i \in Nat
    BY <1>2, <1>7
  <2> DEFINE srv == s.vecSchedule[i + 1]
             h == f[i]
  <2>2. f[i + 1] = GrantInstance(h, srv) /\ Sent(s, h, i) /\ Fits(h, g, asks[i])
    BY <1>3, <1>7, <2>1
  <2>3. srv \in ServiceInstance /\ srv.app \in s.appInfo
    BY <1>1, <1>2, <2>1
  <2>4. srv.app \notin h.appsWaitInitFb
    <3> SUFFICES ASSUME srv.app \in h.appsWaitInitFb PROVE FALSE
      OBVIOUS
    <3>1. PICK j \in 1 .. i : h.srvInInitiating[srv.app] = s.vecSchedule[j]
      BY <2>2 DEF Sent
    <3>2. h.srvInInitiating[srv.app].app = srv.app
      BY <2>2 DEF Sent
    <3>3. j \in 1 .. N /\ j # i + 1
      BY <1>2, <2>1
    <3> QED BY <1>1, <1>2, <2>1, <3>1, <3>2, <3>3
  <2>5. /\ asks[i + 1] = asks[i] + more(i + 1) /\ more(i + 1) \in Nat /\ asks[i] \in Nat
        /\ more(i + 1) = IF srv.processGnb = g THEN srv.cmpUnits ELSE 0
        /\ asks[i + 1] <= all /\ asks[i + 1] \in Nat
    BY <1>4, <1>5, <2>1 DEF more
  <2>6. asks[i + 1] <= h.cmpUnits[g]
    <3>1. h.cmpUnits = s.cmpUnits
      BY <2>2 DEF Sent
    <3>2. all \in Nat /\ all <= s.cmpUnits[g]
      BY <1>2, <1>4 DEF all
    <3>3. \A x, y, z \in Int : x <= y /\ y <= z => x <= z
      OBVIOUS
    <3> QED BY <1>1, <2>5, <3>1, <3>2, <3>3
  <2> HIDE DEF srv, h
  <2>7. Fits(GrantInstance(h, srv), g, asks[i] + more(i + 1))
    <3>1. PICK e : e = more(i + 1)
      OBVIOUS
    <3>2. PICK l : l = asks[i]
      OBVIOUS
    <3>3. l \in Nat /\ e \in Nat /\ e = (IF srv.processGnb = g THEN srv.cmpUnits ELSE 0)
          /\ l + e <= h.cmpUnits[g] /\ Fits(h, g, l)
      BY <2>2, <2>5, <2>6, <3>1, <3>2
    <3>4. Fits(GrantInstance(h, srv), g, l + e)
      BY <2>1, <2>2, <2>3, <2>4, <3>3, GrantFits
    <3> QED BY <3>1, <3>2, <3>4
  <2> QED BY <2>1, <2>2, <2>5, <2>7
<1>8. N \in S
  <2>1. N \in Nat /\ N \in 0 .. N
    BY <1>2
  <2> HIDE DEF S
  <2>2. \A i \in 0 .. N : i \in S
    BY <1>2, <1>6, <1>7, UpTo
  <2> QED BY <2>1, <2>2
<1> DEFINE h == f[N]
           w == [h EXCEPT !.vecSchedule = <<>>]
<1>9. Fits(h, g, all) /\ SendGrant(s) = w /\ Sent(s, h, N)
  <2>1. N \in 0 .. N
    BY <1>2
  <2> QED BY <1>3, <1>4, <1>8, <2>1
<1> HIDE DEF h
<1>10. h \in SchedRecord
  BY <1>9 DEF Sent
<1>11. /\ w.appsWaitInitFb = h.appsWaitInitFb /\ w.srvInInitiating = h.srvInInitiating
       /\ w.rsuOnholdCus = h.rsuOnholdCus /\ w.rsuOnholdRbs = h.rsuOnholdRbs /\ w.out = h.out
  BY <1>10 DEF SchedRecord
<1> HIDE DEF w
<1>12. HoldCu(w, g) = HoldCu(h, g) /\ HoldRb(w, g) = HoldRb(h, g)
  BY <1>11 DEF HoldCu, HoldRb
<1> QED BY <1>9, <1>11, <1>12 DEF Fits, all

\* the starts of a schedule fit, and are waited for
LEMMA ScheduleCompleteUnits ==
  ASSUME IInv, UInv, ScheduleComplete
  PROVE  UInv'
<1> DEFINE h == SendGrant(sched)
           all(g) == AskedCus(sched.vecSchedule, g)
<1>1. Sound /\ SchedOk(sched) /\ sched.out = NothingSent /\ sched \in SchedRecord
  BY DEF IInv, Sound, SchedOk
<1>2. sched.schedComplete /\ PerformScheduler(h) /\ UNCHANGED <<server, reports>>
  BY DEF ScheduleComplete
<1>3. Served(sched) = {}
  <2>1. \A a \in Apps : a \notin Served(sched)
    BY <1>2 DEF IInv, Life
  <2>2. Served(sched) \subseteq Apps
    BY <1>1 DEF SchedRecord, Served
  <2> QED BY <2>1, <2>2
<1>4. Sent(sched, h, Len(sched.vecSchedule)) /\ SchedOk(h)
  BY <1>1, <1>2, <1>3, AllSent
<1>5. Held(sched) /\ Known(sched) /\ \A g \in Gnbs : /\ ~Has(reports[g], NotFull(g))
                                                    /\ all(g) <= sched.cmpUnits[g]
                                                    /\ sched.cmpUnits[g] <= CmpUnitTotal
  BY <1>2 DEF UInv, Planning
<1>6. \A g \in Gnbs : Fits(h, g, all(g))
  BY <1>1, <1>2, <1>3, <1>5, ScheduleFits
<1>7. \A g \in Gnbs : all(g) \in Nat /\ sched.cmpUnits[g] \in Int
  BY <1>1, AskedTyped DEF SchedRecord
<1> HIDE DEF h, all
<1>8. /\ h \in SchedRecord /\ h.schedComplete = FALSE /\ h.rsuStatus = sched.rsuStatus
      /\ \A a \in h.appsWaitInitFb :
            /\ \E j \in 1 .. Len(sched.vecSchedule) : h.srvInInitiating[a] = sched.vecSchedule[j]
            /\ h.srvInInitiating[a] \in ServiceInstance
      /\ \A g \in Gnbs : h.out[g] \in Seq(CommandTo(g))
      /\ \A g \in Gnbs : \A a \in Apps :
            Has(h.out[g], Start(a)) => /\ h.srvInInitiating[a].processGnb = g
                                       /\ ~Has(h.out[g], StartBut(a, h.srvInInitiating[a].offloadGnb))
  BY <1>4 DEF Sent
<1>9. SameHolds(h, sched')
  BY <1>2, <1>8, PerformHolds
<1>10. Held(h)
  BY <1>6 DEF Fits, Held
<1>11. Known(h)
  <2>1. DOMAIN sched.vecSchedule = 1 .. Len(sched.vecSchedule)
    <3> DEFINE R == ServiceInstance
    <3>1. sched.vecSchedule \in Seq(R)
      BY <1>1 DEF SchedRecord
    <3> HIDE DEF R
    <3> QED BY <3>1
  <2> QED BY <1>2, <1>5, <1>8, <2>1 DEF Known
<1>12. Held(sched') /\ Known(sched')
  BY <1>9, <1>10, <1>11, HoldsKept
<1>13. Planning'
  BY <1>8, <1>9 DEF Planning, SameHolds
<1>14. \A n \in Gnbs : Used(n)'
  BY <1>2 DEF UInv, Used
<1>15. ASSUME NEW n \in Gnbs
       PROVE  /\ server'[n].granted = {}
              /\ \A a \in Apps : \A M : M \subseteq Start(a) /\ Has(commands'[n], M)
                                           => Has(h.out[n], M)
  <2>1. server[n].granted = {} /\ \A a \in Apps : ~Has(commands[n], Start(a))
    BY <1>2, PlanningVacant
  <2>2. commands[n] \in Seq(CommandTo(n)) /\ commands'[n] = commands[n] \o h.out[n]
    BY <1>1, <1>2, <1>4, SchedPerforms DEF Sound, SchedTurned
  <2>3. \A M : Has(commands'[n], M) => Has(commands[n], M) \/ Has(h.out[n], M)
    BY <1>8, <2>2, HasConcat
  <2>4. \A a \in Apps : \A M : M \subseteq Start(a) => ~Has(commands[n], M)
    BY <2>1 DEF Has
  <2> QED BY <1>2, <2>1, <2>3, <2>4
<1>16. ASSUME NEW n \in Gnbs PROVE Budgeted(n)'
  <2>0. PICK f : f = HoldCu(h, n)
    OBVIOUS
  <2>1. f \in [Apps -> Nat]
    BY <1>8, <2>0, HoldsTyped
  <2>2. Fits(h, n, all(n))
    BY <1>6
  <2>3. SumOver(f, Apps) \in Nat
    <3> QED BY <2>1, AppsFinite, SumOverTyped
  <2>4. SumOver(f, Apps) <= CmpUnitTotal
    <3>1. SumOver(f, Apps) <= all(n) /\ all(n) <= sched.cmpUnits[n]
          /\ sched.cmpUnits[n] <= CmpUnitTotal
      BY <1>5, <2>0, <2>2 DEF Fits
    <3>2. \A w, x, y, z \in Int : w <= x /\ x <= y /\ y <= z => w <= z
      OBVIOUS
    <3> QED BY <1>7, <2>3, <3>1, <3>2, ServerHandlersAssumption
  <2>5. ASSUME NEW a \in Apps PROVE Within(n, a, f)'
    <3>1. ~Has(h.out[n], StartAbove(a, f[a]))
      BY <2>0, <2>2 DEF Fits
    <3>2. StartAbove(a, f[a]) \subseteq Start(a)
      BY DEF StartAbove
    <3>3. ~Has(commands'[n], StartAbove(a, f[a])) /\ a \notin server'[n].granted
      BY <1>15, <3>1, <3>2
    <3> QED BY <3>3 DEF Within
  <2> QED BY <2>1, <2>4, <2>5 DEF Budgeted
<1>17. ASSUME NEW n \in Gnbs, NEW a \in Apps PROVE Awaited(n, a)'
  <2> DEFINE srv == sched'.srvInInitiating[a]
  <2>1. srv = h.srvInInitiating[a]
    BY <1>9 DEF SameHolds
  <2>2. StartBut(a, srv.offloadGnb) \subseteq Start(a)
    BY DEF StartBut
  <2> HIDE DEF srv
  <2>3. ASSUME Has(commands'[n], Start(a))
        PROVE  n = srv.processGnb /\ ~Has(commands'[n], StartBut(a, srv.offloadGnb))
    <3>1. \A M : M \subseteq Start(a) /\ Has(commands'[n], M) => Has(h.out[n], M)
      BY <1>15
    <3>2. Has(h.out[n], Start(a))
      BY <2>3, <3>1
    <3>3. /\ h.srvInInitiating[a].processGnb = n
          /\ ~Has(h.out[n], StartBut(a, h.srvInInitiating[a].offloadGnb))
      BY <1>8, <3>2
    <3> QED BY <2>1, <2>2, <3>1, <3>3
  <2>4. ~Has(reports'[n], Say(a))
    <3> SUFFICES ASSUME NEW i \in DOMAIN reports[n], reports[n][i] \in Say(a) PROVE FALSE
      BY <1>2 DEF Has
    <3>1. reports[n][i] \in StatusOf(n)
      <4> DEFINE S == StatusOf(n)
      <4>1. reports[n] \in Seq(S)
        BY <1>1 DEF Sound
      <4> HIDE DEF S
      <4>2. reports[n][i] \in S
        BY <4>1
      <4> QED BY <4>2 DEF S
    <3>2. reports[n][i] \notin RsuFD
      BY DEF Say, SrvFD, Refusal, Answer, RsuFD
    <3> QED BY <1>5, <3>1, <3>2 DEF Has, NotFull, Full
  <2> QED BY <1>15, <2>3, <2>4 DEF Awaited, srv
<1> QED BY <1>12, <1>13, <1>14, <1>16, <1>17 DEF UInv

-----------------------------------------------------------------------------
(* All steps.                                                              *)

\* it holds initially
LEMMA InitUInv ==
  ASSUME Init
  PROVE  UInv
<1>1. /\ sched = InitialScheduler /\ reports = [n \in Gnbs |-> <<>>]
      /\ server = [n \in Gnbs |-> InitialServer(n)] /\ commands = [n \in Gnbs |-> <<>>]
  BY DEF Init
<1>2. /\ sched.appsWaitInitFb = {} /\ sched.schedComplete = FALSE
      /\ sched.rsuOnholdCus = [g \in Gnbs |-> 0] /\ sched.rsuOnholdRbs = [g \in Gnbs |-> 0]
  BY <1>1 DEF InitialScheduler
<1>3. ASSUME NEW n \in Gnbs
      PROVE  /\ Fine(server[n], n) /\ server[n].granted = {}
             /\ server[n].cmpUnitFree = CmpUnitTotal /\ \A M : ~Has(commands[n], M)
  <2>1. server[n] = InitialServer(n) /\ commands[n] = <<>>
    BY <1>1
  <2> QED BY <2>1, InitialServerFine, HasEmpty
<1>4. ASSUME NEW n \in Gnbs PROVE Used(n)
  <2>1. SumOver(UnitsIn(server[n]), Apps) = 0
    BY <1>3, NothingUsed
  <2> QED BY <1>3, <2>1, ServerHandlersAssumption DEF Used
<1>5. ASSUME NEW n \in Gnbs PROVE Budgeted(n)
  <2> DEFINE f == [a \in Apps |-> 0]
  <2>1. f \in [Apps -> Nat] /\ \A a \in Apps : f[a] = 0
    OBVIOUS
  <2>2. \A a \in Apps : Within(n, a, f)
    BY <1>3 DEF Within
  <2> HIDE DEF f
  <2>3. SumOver(f, Apps) = 0
    BY <2>1, AppsFinite, SumOverTyped
  <2> QED BY <2>1, <2>2, <2>3, ServerHandlersAssumption DEF Budgeted
<1>6. \A n \in Gnbs : \A a \in Apps : Awaited(n, a)
  BY <1>2 DEF Awaited
<1>7. Held(sched) /\ Known(sched) /\ Planning
  BY <1>2, HeldNone DEF Held, Known, Planning
<1> QED BY <1>4, <1>5, <1>6, <1>7 DEF UInv

\* and every step of the specification keeps it
LEMMA NextUInv ==
  ASSUME Prompt, RescheduleAll, IInv, UInv, [Next]_vars
  PROVE  UInv'
<1>1. CASE UNCHANGED vars
  BY <1>1 DEF vars, UInv, Used, Budgeted, Within, Awaited, Planning
<1>2. ASSUME NEW a \in Apps, ReceiveRequest(a) PROVE UInv'
  BY <1>2, ReceiveRequestUnits
<1>3. ASSUME NEW n \in Gnbs, ReceiveReport(n) PROVE UInv'
  <2>1. PICK msg : msg = Head(reports[n])
    OBVIOUS
  <2>2. reports[n] # <<>> /\ reports' = [reports EXCEPT ![n] = Tail(@)]
    BY <1>3 DEF ReceiveReport
  <2>3. msg \in StatusOf(n)
    BY <2>1, <2>2, StatusTaken DEF IInv
  <2>4. msg.type = "SrvFD" \/ msg.type = "RsuFD"
    BY <2>3, AnswerKinds
  <2> QED BY <1>3, <2>1, <2>4, StatusUnits, AnswerUnits
<1>4. ASSUME NEW expired \in SUBSET Apps, PreScheduleCheck(expired) PROVE UInv'
  BY <1>4, PreScheduleCheckUnits
<1>5. ASSUME NEW gone \in SUBSET Apps, NEW links \in SUBSET (Ues \X Gnbs),
             NEW stale \in SUBSET Gnbs, NEW inTime \in BOOLEAN,
             ScheduleStart(gone, links, stale, inTime)
      PROVE  UInv'
  BY <1>5, ScheduleStartUnits
<1>6. ASSUME ScheduleComplete PROVE UInv'
  BY <1>6, ScheduleCompleteUnits
<1>7. ASSUME NEW n \in Gnbs, ReceiveSrvGrant(n) PROVE UInv'
  BY <1>7, ReceiveSrvGrantUnits
<1>8. ASSUME NEW n \in Gnbs, ServiceInitComplete(n) PROVE UInv'
  BY <1>8, ServiceInitCompleteUnits
<1>9. ASSUME NEW n \in Gnbs, NEW o \in Gnbs, ReceiveSrvFD(n, o) PROVE UInv'
  BY <1>9, ReceiveSrvFDUnits
<1>10. ASSUME NEW n \in Gnbs, NEW u \in Ues \cup {NoUe}, ReportStatus(n, u) PROVE UInv'
  BY <1>10, ReportStatusUnits
<1>11. ASSUME NEW o \in Gnbs, NEW i \in DOMAIN toMac[o], TakeGrant(o, i) PROVE UInv'
  BY <1>11, MacUnits DEF TakeGrant
<1>12. ASSUME NEW o \in Gnbs, NEW a \in Apps, Terminate(o, a) \/ Adjust(o, a) PROVE UInv'
  BY <1>12, MacUnits DEF Terminate, Adjust
<1>13. ASSUME NEW n \in Gnbs, LoseScheduler(n) PROVE UInv'
  BY <1>13, LoseSchedulerUnits
<1>14. ASSUME Elect PROVE UInv'
  BY <1>14, ElectUnits
<1> QED BY <1>1, <1>2, <1>3, <1>4, <1>5, <1>6, <1>7, <1>8, <1>9, <1>10, <1>11, <1>12, <1>13,
           <1>14 DEF Next

\* no server gives out more units than it has: what the scheduler counts when
\* it plans is what the servers have, although a start that is under way, an
\* initializing service and a report on its way are counted by neither
THEOREM UnitsSuffice ==
  ASSUME Prompt, RescheduleAll
  PROVE  Spec => []UnitsNeverOvercommitted
<1>1. Init => UInv
  BY InitUInv
<1>2. IInv /\ UInv /\ [Next]_vars => UInv'
  BY NextUInv
<1>3. IInv /\ UInv => UnitsNeverOvercommitted
  <2> SUFFICES ASSUME IInv, UInv, NEW n \in Gnbs PROVE server[n].cmpUnitFree >= 0
    BY DEF UnitsNeverOvercommitted
  <2> DEFINE w == UnitsIn(server[n])
  <2>1. Fine(server[n], n) /\ Used(n)
    BY DEF IInv, Sound, UInv
  <2>2. PICK f \in [Apps -> Nat] :
           SumOver(f, Apps) <= CmpUnitTotal /\ \A a \in Apps : Within(n, a, f)
    BY DEF UInv, Budgeted
  <2>3. w \in [Apps -> Nat] /\ server[n].cmpUnitFree \in Int /\ SumOver(w, Apps) \in Nat
    BY <2>1, UnitsTyped
  <2>4. \A a \in Apps : w[a] <= f[a]
    <3> SUFFICES ASSUME NEW a \in Apps PROVE w[a] <= f[a]
      OBVIOUS
    <3>1. a \in RunningIn(server[n]) => server[n].service[a].cmpUnits <= f[a]
      BY <2>2 DEF Within, RunningIn
    <3>2. f[a] \in Nat
      OBVIOUS
    <3> QED BY <3>1, <3>2 DEF UnitsIn
  <2>5. server[n].cmpUnitFree + SumOver(w, Apps) = CmpUnitTotal
    BY <2>1 DEF Used
  <2> HIDE DEF w
  <2>6. SumOver(w, Apps) <= SumOver(f, Apps) /\ SumOver(f, Apps) \in Nat
    BY <2>2, <2>3, <2>4, AppsFinite, SumOverOrdered, SumOverTyped
  <2> QED BY <2>2, <2>3, <2>5, <2>6, ServerHandlersAssumption
<1> QED BY <1>1, <1>2, <1>3, InductiveInvariant, PTL DEF Spec

\* what the starts of scheduler s for server g ask for, added up
CusOfStarts(s, g) == MapThenSumSet(LAMBDA a : s.srvInInitiating[a].cmpUnits,
                   {a \in s.appsWaitInitFb : s.srvInInitiating[a].processGnb = g})

LEMMA CusAdded ==
  ASSUME NEW s \in SchedRecord, NEW g,
         \A a \in s.appsWaitInitFb : s.srvInInitiating[a] \in ServiceInstance
  PROVE  CusOfStarts(s, g) = SumOver(HoldCu(s, g), Apps)
<1> DEFINE T == {a \in s.appsWaitInitFb : s.srvInInitiating[a].processGnb = g}
           w == HoldCu(s, g)
           v == [a \in T |-> w[a]]
           sum[R \in SUBSET T] ==
             IF R = {} THEN 0
             ELSE LET x == CHOOSE x \in R : TRUE IN s.srvInInitiating[x].cmpUnits + sum[R \ {x}]
<1>1. /\ T \subseteq Apps /\ w \in [Apps -> Nat] /\ v \in [T -> Nat]
      /\ \A a \in T : v[a] = s.srvInInitiating[a].cmpUnits
      /\ \A a \in Apps \ T : w[a] = 0
  <2>1. w \in [Apps -> Nat]
    BY HoldsTyped
  <2>2. s.appsWaitInitFb \subseteq Apps
    BY DEF SchedRecord
  <2>3. \A a \in Apps : w[a] = IF a \in T THEN s.srvInInitiating[a].cmpUnits ELSE 0
    BY DEF HoldCu
  <2>4. T \subseteq Apps
    BY <2>2
  <2> HIDE DEF T, w
  <2> QED BY <2>1, <2>3, <2>4
<1>2. CusOfStarts(s, g) = sum[T]
  BY DEF CusOfStarts, MapThenSumSet, MapThenFoldSet
<1> HIDE DEF T, w
<1>3. IsFiniteSet(T)
  BY <1>1, AppsFinite, FS_Subset
<1>4. SumOver(w, Apps) = SumOver(v, T)
  BY <1>1, AppsFinite, SumOverPart
<1> HIDE DEF v
<1>5. PICK f : SumsUp(f, T, v) /\ SumOver(v, T) = f[T]
  <2> HIDE DEF sum
  <2> QED BY <1>1, <1>3, SumOverIs
<1>6. f = [R \in SUBSET T |->
             IF R = {} THEN 0
             ELSE LET x == CHOOSE x \in R : TRUE IN s.srvInInitiating[x].cmpUnits + f[R \ {x}]]
  <2> HIDE DEF sum
  <2>1. \A R \in SUBSET T : R # {} =>
           v[CHOOSE x \in R : TRUE] = s.srvInInitiating[CHOOSE x \in R : TRUE].cmpUnits
    BY <1>1
  <2> QED BY <1>5, <2>1 DEF SumsUp
<1>7. sum = [R \in SUBSET T |->
               IF R = {} THEN 0
               ELSE LET x == CHOOSE x \in R : TRUE IN s.srvInInitiating[x].cmpUnits + sum[R \ {x}]]
  BY <1>6, Zenon
<1> HIDE DEF sum
<1>8. SumsUp(sum, T, v)
  <2>1. \A R \in SUBSET T : R # {} =>
           v[CHOOSE x \in R : TRUE] = s.srvInInitiating[CHOOSE x \in R : TRUE].cmpUnits
    BY <1>1
  <2> QED BY <1>7, <2>1 DEF SumsUp
<1>9. sum[T] = f[T]
  BY <1>1, <1>3, <1>5, <1>8, SumsAgree
<1> QED BY <1>2, <1>4, <1>5, <1>9 DEF w

\* what the starts of scheduler s for gNB g ask for, added up
RbsOfStarts(s, g) == MapThenSumSet(LAMBDA a : s.srvInInitiating[a].bands,
                   {a \in s.appsWaitInitFb : s.srvInInitiating[a].offloadGnb = g})

LEMMA RbsAdded ==
  ASSUME NEW s \in SchedRecord, NEW g,
         \A a \in s.appsWaitInitFb : s.srvInInitiating[a] \in ServiceInstance
  PROVE  RbsOfStarts(s, g) = SumOver(HoldRb(s, g), Apps)
<1> DEFINE T == {a \in s.appsWaitInitFb : s.srvInInitiating[a].offloadGnb = g}
           w == HoldRb(s, g)
           v == [a \in T |-> w[a]]
           sum[R \in SUBSET T] ==
             IF R = {} THEN 0
             ELSE LET x == CHOOSE x \in R : TRUE IN s.srvInInitiating[x].bands + sum[R \ {x}]
<1>1. /\ T \subseteq Apps /\ w \in [Apps -> Nat] /\ v \in [T -> Nat]
      /\ \A a \in T : v[a] = s.srvInInitiating[a].bands
      /\ \A a \in Apps \ T : w[a] = 0
  <2>1. w \in [Apps -> Nat]
    BY HoldsTyped
  <2>2. s.appsWaitInitFb \subseteq Apps
    BY DEF SchedRecord
  <2>3. \A a \in Apps : w[a] = IF a \in T THEN s.srvInInitiating[a].bands ELSE 0
    BY DEF HoldRb
  <2>4. T \subseteq Apps
    BY <2>2
  <2> HIDE DEF T, w
  <2> QED BY <2>1, <2>3, <2>4
<1>2. RbsOfStarts(s, g) = sum[T]
  BY DEF RbsOfStarts, MapThenSumSet, MapThenFoldSet
<1> HIDE DEF T, w
<1>3. IsFiniteSet(T)
  BY <1>1, AppsFinite, FS_Subset
<1>4. SumOver(w, Apps) = SumOver(v, T)
  BY <1>1, AppsFinite, SumOverPart
<1> HIDE DEF v
<1>5. PICK f : SumsUp(f, T, v) /\ SumOver(v, T) = f[T]
  <2> HIDE DEF sum
  <2> QED BY <1>1, <1>3, SumOverIs
<1>6. f = [R \in SUBSET T |->
             IF R = {} THEN 0
             ELSE LET x == CHOOSE x \in R : TRUE IN s.srvInInitiating[x].bands + f[R \ {x}]]
  <2> HIDE DEF sum
  <2>1. \A R \in SUBSET T : R # {} =>
           v[CHOOSE x \in R : TRUE] = s.srvInInitiating[CHOOSE x \in R : TRUE].bands
    BY <1>1
  <2> QED BY <1>5, <2>1 DEF SumsUp
<1>7. sum = [R \in SUBSET T |->
               IF R = {} THEN 0
               ELSE LET x == CHOOSE x \in R : TRUE IN s.srvInInitiating[x].bands + sum[R \ {x}]]
  BY <1>6, Zenon
<1> HIDE DEF sum
<1>8. SumsUp(sum, T, v)
  <2>1. \A R \in SUBSET T : R # {} =>
           v[CHOOSE x \in R : TRUE] = s.srvInInitiating[CHOOSE x \in R : TRUE].bands
    BY <1>1
  <2> QED BY <1>7, <2>1 DEF SumsUp
<1>9. sum[T] = f[T]
  BY <1>1, <1>3, <1>5, <1>8, SumsAgree
<1> QED BY <1>2, <1>4, <1>5, <1>9 DEF w

\* what the scheduler holds back is what its unanswered starts ask for, so
\* nothing is held for ever: an answer gives back what its start took, and the
\* first status of a gNB, which clears its holds, finds none of a start
THEOREM HoldsAreStarts ==
  ASSUME Prompt, RescheduleAll
  PROVE  Spec => []HoldsMatchStarts
<1>1. Init => UInv
  BY InitUInv
<1>2. IInv /\ UInv /\ [Next]_vars => UInv'
  BY NextUInv
<1>3. IInv /\ UInv => HoldsMatchStarts
  <2> SUFFICES ASSUME IInv, UInv PROVE HoldsMatchStarts
    OBVIOUS
  <2>1. sched \in SchedRecord /\ Held(sched)
        /\ \A a \in sched.appsWaitInitFb : sched.srvInInitiating[a] \in ServiceInstance
    BY DEF UInv, IInv, Sound, SchedOk, OnePlace, Served, Instance
  <2>2. \A g \in Gnbs : /\ sched.rsuOnholdCus[g] = CusOfStarts(sched, g)
                        /\ sched.rsuOnholdRbs[g] = RbsOfStarts(sched, g)
    BY <2>1, CusAdded, RbsAdded DEF Held
  <2> QED BY <2>2 DEF HoldsMatchStarts, CusOfStarts, RbsOfStarts
<1> QED BY <1>1, <1>2, <1>3, InductiveInvariant, PTL DEF Spec

=============================================================================
