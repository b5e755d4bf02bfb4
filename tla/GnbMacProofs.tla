---------------------------- MODULE GnbMacProofs ----------------------------
(***************************************************************************)
(* Proofs about module GnbMac, for every number of gNBs, vehicles,         *)
(* applications and bands.                                                 *)
(*                                                                         *)
(* The argument: a MAC record is Good when it is well-typed, its bands are *)
(* partitioned and its lists agree with its grants.  Every method of       *)
(* RbManagerUl preserves Good (one lemma per method, from the fields the   *)
(* method changes), hence every loop body does, hence every loop (an       *)
(* induction on the application the loop has reached), hence every         *)
(* handler, hence every action.                                            *)
(***************************************************************************)
EXTENDS GnbMac, TLAPS, FiniteSetTheorems, WellFoundedInduction

\* the messages a MAC sends
Message ==
    [type : {"VehGrant"}, app : Apps, kind : {"new", "update", "stop", "pause"},
     processGnb : Gnbs \cup {NoGnb}, offloadGnb : Gnbs, bytePerTti : Nat, blocks : SUBSET Bands]
    \cup [type : {"SrvFD"}, app : Apps, success : BOOLEAN, offloadGnb : Gnbs,
          processGnb : Gnbs \cup {NoGnb}, usedBand : Nat, availBand : Nat]
    \cup [type : {"RsuFD"}, gnb : Gnbs, veh : Ues \cup {NoUe}, bytePerBand : Nat, availBand : Nat]

\* a MAC in the middle of a handler
MacRecord ==
    [nodeId : Gnbs, disableNic : BOOLEAN, grantList : Seq(NicGrant),
     scheduledApp : SUBSET Apps, pausedApp : SUBSET Apps,
     appToBeInitialized : SUBSET Apps, vehDataRate : [Ues -> Nat],
     appGrantedRb : [Apps -> SUBSET Bands], appTempRb : [Apps -> SUBSET Bands],
     flexibleBands : SUBSET Bands, appGrantInfos : [Apps -> AppGrantInfo],
     known : SUBSET Apps, out : Seq(Message), failed : BOOLEAN]

BandsOk(m) ==
    /\ BandsPartitioned(m)
    /\ \A a \in Apps : /\ m.appGrantInfos[a].grantedBandSet \subseteq m.appGrantedRb[a]
                       /\ m.appGrantInfos[a].tempBands \subseteq m.appTempRb[a]

ListsOk(m) ==
    /\ \A a \in Apps : Held(m, a) # {} => a \in m.scheduledApp \cup m.pausedApp
    /\ m.scheduledApp \cup m.pausedApp \cup m.appToBeInitialized \subseteq m.known
    /\ \A a \in m.known : m.appGrantInfos[a].processGnb \in Gnbs

Good(m) == m \in MacRecord /\ BandsOk(m) /\ ListsOk(m)

\* what a method called for a leaves alone: all but the bands and a's own place
Frame(m, n, a) ==
    /\ n.nodeId = m.nodeId /\ n.disableNic = m.disableNic
    /\ n.grantList = m.grantList /\ n.failed = m.failed
    /\ n.scheduledApp \ {a} = m.scheduledApp \ {a}
    /\ n.pausedApp \ {a} = m.pausedApp \ {a}
    /\ n.appToBeInitialized \ {a} = m.appToBeInitialized \ {a}
    /\ n.known \ {a} = m.known \ {a}

-----------------------------------------------------------------------------
(* Bands.  Four ways of moving them, told by the fields alone.              *)

\* the bands an iterator visits are bands of the set it walks
LEMMA FirstBandsSubset == ASSUME NEW S, NEW n PROVE FirstBands(S, n) \subseteq S
  BY DEF FirstBands

\* a set of bands has a number of bands
LEMMA BandsFinite == ASSUME NEW S, S \subseteq Bands PROVE Cardinality(S) \in Nat
<1>1. IsFiniteSet(Bands)
  BY FS_Interval, RbManagerUlAssumption DEF Bands
<1> QED BY <1>1, FS_Subset, FS_CardinalityType

\* free bands go to the grant of one application
LEMMA TakeGrantedBands ==
  ASSUME NEW m \in MacRecord, NEW n \in MacRecord, NEW a \in Apps, BandsPartitioned(m),
         NEW F, F \subseteq m.flexibleBands,
         n.flexibleBands = m.flexibleBands \ F,
         n.appGrantedRb = [m.appGrantedRb EXCEPT ![a] = @ \cup F],
         n.appTempRb = m.appTempRb
  PROVE  BandsPartitioned(n)
<1>1. \A b \in Apps : n.appGrantedRb[b] = IF b = a THEN m.appGrantedRb[a] \cup F ELSE m.appGrantedRb[b]
  BY DEF MacRecord
<1> QED BY <1>1 DEF BandsPartitioned, Held, ReadAppRbOccupation

\* free bands are lent to one application
LEMMA TakeTempBands ==
  ASSUME NEW m \in MacRecord, NEW n \in MacRecord, NEW a \in Apps, BandsPartitioned(m),
         NEW F, F \subseteq m.flexibleBands,
         n.flexibleBands = m.flexibleBands \ F,
         n.appTempRb = [m.appTempRb EXCEPT ![a] = @ \cup F],
         n.appGrantedRb = m.appGrantedRb
  PROVE  BandsPartitioned(n)
<1>1. \A b \in Apps : n.appTempRb[b] = IF b = a THEN m.appTempRb[a] \cup F ELSE m.appTempRb[b]
  BY DEF MacRecord
<1> QED BY <1>1 DEF BandsPartitioned, Held, ReadAppRbOccupation

\* an application gives back the bands it was lent, and those it was granted or none
LEMMA GiveBands ==
  ASSUME NEW m \in MacRecord, NEW n \in MacRecord, NEW a \in Apps, BandsPartitioned(m),
         NEW F \in {{}, m.appGrantedRb[a]},
         n.flexibleBands = m.flexibleBands \cup (F \cup m.appTempRb[a]),
         n.appGrantedRb = [m.appGrantedRb EXCEPT ![a] = @ \ F],
         n.appTempRb = [m.appTempRb EXCEPT ![a] = {}]
  PROVE  BandsPartitioned(n)
<1>1. \A b \in Apps : n.appGrantedRb[b] = IF b = a THEN m.appGrantedRb[a] \ F ELSE m.appGrantedRb[b]
  BY DEF MacRecord
<1>2. \A b \in Apps : n.appTempRb[b] = IF b = a THEN {} ELSE m.appTempRb[b]
  BY DEF MacRecord
<1> QED BY <1>1, <1>2 DEF BandsPartitioned, Held, ReadAppRbOccupation

-----------------------------------------------------------------------------
(* The methods of RbManagerUl: what each leaves in the fields it changes,   *)
(* then that it preserves Good.                                             *)

\* reading a grant that exists through operator[] changes nothing
LEMMA TouchGood ==
  ASSUME NEW m, Good(m), NEW a \in Apps, a \in m.known
  PROVE  Touch(m, a) = m
<1>1. m.known \cup {a} = m.known
  OBVIOUS
<1> QED BY <1>1 DEF Touch, Good, MacRecord

\* releaseTempBands, field by field
LEMMA ReleaseTempBandsFields ==
  ASSUME NEW m \in MacRecord, NEW a \in Apps, a \in m.known
  PROVE  LET n == ReleaseTempBands(m, a)
         IN  /\ n \in MacRecord
             /\ n.flexibleBands = m.flexibleBands \cup m.appTempRb[a]
             /\ n.appTempRb = [m.appTempRb EXCEPT ![a] = {}]
             /\ n.appGrantInfos = [m.appGrantInfos EXCEPT ![a].tempBands = {}]
             /\ n.appGrantedRb = m.appGrantedRb /\ n.scheduledApp = m.scheduledApp
             /\ n.pausedApp = m.pausedApp /\ n.appToBeInitialized = m.appToBeInitialized
             /\ n.known = m.known /\ n.nodeId = m.nodeId /\ n.disableNic = m.disableNic
             /\ n.grantList = m.grantList /\ n.failed = m.failed /\ n.out = m.out
             /\ n.vehDataRate = m.vehDataRate
<1> DEFINE infos == [m.appGrantInfos EXCEPT ![a].tempBands = {}]
           rbs   == [m.appTempRb EXCEPT ![a] = {}]
           flex  == m.flexibleBands \cup m.appTempRb[a]
           n     == ReleaseTempBands(m, a)
<1>1. /\ infos \in [Apps -> AppGrantInfo] /\ rbs \in [Apps -> SUBSET Bands]
      /\ flex \in SUBSET Bands
  <2>1. /\ m.appGrantInfos \in [Apps -> AppGrantInfo] /\ m.flexibleBands \in SUBSET Bands
        /\ m.appTempRb \in [Apps -> SUBSET Bands]
    BY DEF MacRecord
  <2>2. infos \in [Apps -> AppGrantInfo]
    BY <2>1 DEF AppGrantInfo
  <2> QED BY <2>1, <2>2
<1>2. Touch(m, a) = m
  <2>1. m.known \cup {a} = m.known
    OBVIOUS
  <2> QED BY <2>1 DEF Touch, MacRecord
<1>3. n = [m EXCEPT !.flexibleBands = flex, !.appTempRb = rbs, !.appGrantInfos = infos]
  BY <1>2 DEF ReleaseTempBands, MacRecord
<1> HIDE DEF infos, rbs, flex, n
<1>4. /\ n \in MacRecord
      /\ n.flexibleBands = flex /\ n.appTempRb = rbs /\ n.appGrantInfos = infos
      /\ n.appGrantedRb = m.appGrantedRb /\ n.scheduledApp = m.scheduledApp
      /\ n.pausedApp = m.pausedApp /\ n.appToBeInitialized = m.appToBeInitialized
      /\ n.known = m.known /\ n.nodeId = m.nodeId /\ n.disableNic = m.disableNic
      /\ n.grantList = m.grantList /\ n.failed = m.failed /\ n.out = m.out
      /\ n.vehDataRate = m.vehDataRate
  BY <1>1, <1>3 DEF MacRecord
<1> QED BY <1>4 DEF infos, rbs, flex, n

\* releaseTempBands moves bands of one application only, from its map to the free ones
LEMMA ReleaseTempBandsGood ==
  ASSUME NEW m, Good(m), NEW a \in Apps, a \in m.known
  PROVE  Good(ReleaseTempBands(m, a)) /\ Frame(m, ReleaseTempBands(m, a), a)
<1> DEFINE n == ReleaseTempBands(m, a)
<1>1. m \in MacRecord /\ n \in MacRecord
  BY ReleaseTempBandsFields DEF Good
<1>2. /\ n.flexibleBands = m.flexibleBands \cup m.appTempRb[a]
      /\ n.appTempRb = [m.appTempRb EXCEPT ![a] = {}]
      /\ n.appGrantInfos = [m.appGrantInfos EXCEPT ![a].tempBands = {}]
      /\ n.appGrantedRb = m.appGrantedRb
  BY <1>1, ReleaseTempBandsFields
<1>3. /\ n.scheduledApp = m.scheduledApp /\ n.pausedApp = m.pausedApp
      /\ n.appToBeInitialized = m.appToBeInitialized /\ n.known = m.known
      /\ n.nodeId = m.nodeId /\ n.disableNic = m.disableNic
      /\ n.grantList = m.grantList /\ n.failed = m.failed
  BY <1>1, ReleaseTempBandsFields
<1> HIDE DEF n
<1>4. BandsPartitioned(n)
  <2>1. m.appGrantedRb = [m.appGrantedRb EXCEPT ![a] = @ \ {}]
    BY <1>1 DEF MacRecord
  <2> QED BY <1>1, <1>2, <2>1, GiveBands DEF Good, BandsOk
<1>5. \A b \in Apps : /\ n.appGrantInfos[b].grantedBandSet = m.appGrantInfos[b].grantedBandSet
                      /\ n.appGrantInfos[b].processGnb = m.appGrantInfos[b].processGnb
                      /\ n.appGrantInfos[b].tempBands \subseteq n.appTempRb[b]
                      /\ Held(n, b) \subseteq Held(m, b)
  BY <1>1, <1>2 DEF Good, BandsOk, MacRecord, AppGrantInfo, Held, ReadAppRbOccupation
<1>6. BandsOk(n)
  BY <1>2, <1>4, <1>5 DEF Good, BandsOk
<1>7. ListsOk(n)
  <2>1. n.known \subseteq Apps
    BY <1>1 DEF MacRecord
  <2> QED BY <1>3, <1>5, <2>1 DEF Good, ListsOk
<1>8. Frame(m, n, a)
  BY <1>3 DEF Frame
<1> QED BY <1>1, <1>6, <1>7, <1>8 DEF Good, n

\* scheduleGrantedApp takes the bands it grants from the free ones
LEMMA ScheduleGrantedAppGood ==
  ASSUME NEW m, Good(m), NEW a \in Apps, a \in m.known
  PROVE  LET n == ScheduleGrantedApp(m, a)
         IN  /\ Good(n) /\ Frame(m, n, a)
             /\ n.pausedApp = m.pausedApp
             /\ CanScheduleGranted(m, a) => n.scheduledApp = m.scheduledApp \cup {a}
<1> DEFINE n     == ScheduleGrantedApp(m, a)
           first == FirstBands(m.flexibleBands, m.appGrantInfos[a].numGrantedBands)
           set   == m.appGrantInfos[a].grantedBandSet \cup first
           infos == [m.appGrantInfos EXCEPT ![a].grantedBandSet = set]
           rbs   == [m.appGrantedRb EXCEPT ![a] = @ \cup first]
           flex  == m.flexibleBands \ set
           sched == m.scheduledApp \cup {a}
           init  == m.appToBeInitialized \ {a}
<1>1. m \in MacRecord /\ Touch(m, a) = m
  BY TouchGood DEF Good
<1>2. CASE ~CanScheduleGranted(m, a)
  BY <1>1, <1>2 DEF ScheduleGrantedApp, Frame
<1>3. CASE CanScheduleGranted(m, a)
  <2>1. n = [m EXCEPT !.appGrantInfos = infos, !.appGrantedRb = rbs, !.flexibleBands = flex,
                      !.appToBeInitialized = init, !.scheduledApp = sched]
    BY <1>1, <1>3 DEF ScheduleGrantedApp, MacRecord
  <2>2. first \subseteq m.flexibleBands
    BY FirstBandsSubset
  <2> HIDE DEF first
  <2>3. /\ infos \in [Apps -> AppGrantInfo] /\ rbs \in [Apps -> SUBSET Bands]
        /\ flex \in SUBSET Bands /\ sched \in SUBSET Apps /\ init \in SUBSET Apps
    <3>1. /\ m.appGrantInfos \in [Apps -> AppGrantInfo] /\ m.flexibleBands \in SUBSET Bands
          /\ m.appGrantedRb \in [Apps -> SUBSET Bands]
          /\ m.scheduledApp \in SUBSET Apps /\ m.appToBeInitialized \in SUBSET Apps
      BY <1>1 DEF MacRecord
    <3>2. infos \in [Apps -> AppGrantInfo]
      BY <2>2, <3>1 DEF AppGrantInfo
    <3> QED BY <2>2, <3>1, <3>2
  <2> HIDE DEF infos, rbs, flex, sched, init, n, set
  <2>4. /\ n \in MacRecord
        /\ n.appGrantInfos = infos /\ n.appGrantedRb = rbs /\ n.flexibleBands = flex
        /\ n.appToBeInitialized = init /\ n.scheduledApp = sched
        /\ n.appTempRb = m.appTempRb /\ n.pausedApp = m.pausedApp /\ n.known = m.known
        /\ n.nodeId = m.nodeId /\ n.disableNic = m.disableNic
        /\ n.grantList = m.grantList /\ n.failed = m.failed
    BY <1>1, <2>1, <2>3 DEF MacRecord
  <2>5. BandsPartitioned(n)
    <3>1. m.appGrantInfos[a].grantedBandSet \cap m.flexibleBands = {}
      BY DEF Good, BandsOk, BandsPartitioned, Held, ReadAppRbOccupation
    <3>2. n.flexibleBands = m.flexibleBands \ first
      BY <2>4, <3>1 DEF flex, set
    <3>3. n.appGrantedRb = [m.appGrantedRb EXCEPT ![a] = @ \cup first] /\ BandsPartitioned(m)
      BY <2>4 DEF Good, BandsOk, rbs
    <3> QED BY <1>1, <2>2, <2>4, <3>2, <3>3, TakeGrantedBands
  <2>6. \A b \in Apps : /\ n.appGrantInfos[b].grantedBandSet \subseteq n.appGrantedRb[b]
                        /\ n.appGrantInfos[b].processGnb = m.appGrantInfos[b].processGnb
                        /\ n.appGrantInfos[b].tempBands = m.appGrantInfos[b].tempBands
                        /\ b # a => Held(n, b) = Held(m, b)
    BY <1>1, <2>4 DEF Good, BandsOk, MacRecord, AppGrantInfo, Held, ReadAppRbOccupation,
                      infos, rbs, set
  <2>7. BandsOk(n)
    BY <2>4, <2>5, <2>6 DEF Good, BandsOk
  <2>8. ListsOk(n)
    <3>1. n.known \subseteq Apps
      BY <2>4 DEF MacRecord
    <3> QED BY <2>4, <2>6, <3>1 DEF Good, ListsOk, sched, init
  <2>9. Frame(m, n, a)
    BY <2>4 DEF Frame, sched, init
  <2> QED BY <1>3, <2>4, <2>7, <2>8, <2>9 DEF Good, n, sched
<1> QED BY <1>2, <1>3

\* scheduleActiveApp finds its application scheduled, and leaves it scheduled or paused
LEMMA ScheduleActiveAppGood ==
  ASSUME NEW m, Good(m), NEW a \in Apps, a \in m.scheduledApp
  PROVE  LET n == ScheduleActiveApp(m, a)
         IN  /\ Good(n) /\ Frame(m, n, a)
             /\ a \in n.scheduledApp \cup n.pausedApp
<1> DEFINE r == ReleaseTempBands(m, a)
           n == [r EXCEPT !.pausedApp = @ \cup {a}, !.scheduledApp = @ \ {a}]
<1>1. a \in m.known
  BY DEF Good, ListsOk
<1>2. Good(r) /\ Frame(m, r, a) /\ r.scheduledApp = m.scheduledApp
  BY <1>1, ReleaseTempBandsGood, ReleaseTempBandsFields DEF Good
<1>3. CASE IsGrantEnough(r, a)
  BY <1>2, <1>3 DEF ScheduleActiveApp
<1>4. CASE ~IsGrantEnough(r, a)
  <2>1. ScheduleActiveApp(m, a) = n
    BY <1>4 DEF ScheduleActiveApp
  <2> HIDE DEF r
  <2>2. /\ n \in MacRecord
        /\ n.pausedApp = r.pausedApp \cup {a} /\ n.scheduledApp = r.scheduledApp \ {a}
        /\ n.appGrantInfos = r.appGrantInfos /\ n.appGrantedRb = r.appGrantedRb
        /\ n.flexibleBands = r.flexibleBands /\ n.appTempRb = r.appTempRb
        /\ n.appToBeInitialized = r.appToBeInitialized /\ n.known = r.known
        /\ n.nodeId = r.nodeId /\ n.disableNic = r.disableNic
        /\ n.grantList = r.grantList /\ n.failed = r.failed
    BY <1>2 DEF Good, MacRecord
  <2> HIDE DEF n
  <2>3. BandsOk(n)
    BY <1>2, <2>2 DEF Good, BandsOk, BandsPartitioned, Held, ReadAppRbOccupation
  <2>4. ListsOk(n)
    BY <1>1, <1>2, <2>2 DEF Good, ListsOk, Held, ReadAppRbOccupation, Frame
  <2>5. Frame(m, n, a)
    BY <1>2, <2>2 DEF Frame
  <2> QED BY <2>1, <2>2, <2>3, <2>4, <2>5 DEF Good
<1> QED BY <1>3, <1>4

\* an application that leaves pausedApp_ enters scheduledApp_
LEMMA ResumeGood ==
  ASSUME NEW m, Good(m), NEW a \in Apps, a \in m.pausedApp
  PROVE  LET n == Resume(m, a)
         IN  /\ Good(n) /\ Frame(m, n, a)
             /\ n.scheduledApp = m.scheduledApp \cup {a} /\ n.pausedApp = m.pausedApp \ {a}
             /\ n.appGrantInfos = m.appGrantInfos /\ n.appGrantedRb = m.appGrantedRb
             /\ n.appTempRb = m.appTempRb /\ n.flexibleBands = m.flexibleBands
<1> DEFINE n == Resume(m, a)
<1>1. a \in m.known /\ m \in MacRecord
  BY DEF Good, ListsOk
<1>2. Touch(m, a) = m
  BY <1>1, TouchGood
<1>3. /\ n \in MacRecord
      /\ n.scheduledApp = m.scheduledApp \cup {a} /\ n.pausedApp = m.pausedApp \ {a}
      /\ n.appGrantInfos = m.appGrantInfos /\ n.appGrantedRb = m.appGrantedRb
      /\ n.appTempRb = m.appTempRb /\ n.flexibleBands = m.flexibleBands
      /\ n.appToBeInitialized = m.appToBeInitialized /\ n.known = m.known
      /\ n.nodeId = m.nodeId /\ n.disableNic = m.disableNic
      /\ n.grantList = m.grantList /\ n.failed = m.failed
  BY <1>1, <1>2 DEF Resume, MacRecord
<1> HIDE DEF n
<1>4. BandsOk(n)
  BY <1>3 DEF Good, BandsOk, BandsPartitioned, Held, ReadAppRbOccupation
<1>5. ListsOk(n)
  BY <1>1, <1>3 DEF Good, ListsOk, Held, ReadAppRbOccupation
<1>6. Frame(m, n, a)
  BY <1>3 DEF Frame
<1> QED BY <1>3, <1>4, <1>5, <1>6 DEF Good, n

\* schedulePausedApp finds its application paused, and leaves it scheduled or paused
LEMMA SchedulePausedAppGood ==
  ASSUME NEW m, Good(m), NEW a \in Apps, a \in m.pausedApp
  PROVE  LET n == SchedulePausedApp(m, a)
         IN  Good(n) /\ Frame(m, n, a)
<1> DEFINE n     == SchedulePausedApp(m, a)
           r     == Resume(m, a)
           first == FirstBands(m.flexibleBands, ExtraBandDemand(m, a))
           temp  == m.appGrantInfos[a].tempBands \cup first
           infos == [r.appGrantInfos EXCEPT ![a].tempBands = temp]
           rbs   == [r.appTempRb EXCEPT ![a] = @ \cup first]
           flex  == r.flexibleBands \ temp
           taken == [r EXCEPT !.appTempRb[a] = @ \cup first,
                              !.appGrantInfos[a].tempBands = temp,
                              !.flexibleBands = @ \ temp]
<1>1. m \in MacRecord /\ Touch(m, a) = m /\ a \in m.known
  BY TouchGood DEF Good, ListsOk
<1>2. /\ Good(r) /\ Frame(m, r, a)
      /\ r.scheduledApp = m.scheduledApp \cup {a} /\ r.pausedApp = m.pausedApp \ {a}
      /\ r.appGrantInfos = m.appGrantInfos /\ r.appGrantedRb = m.appGrantedRb
      /\ r.appTempRb = m.appTempRb /\ r.flexibleBands = m.flexibleBands
  BY ResumeGood
<1>3. n = r \/ n = m \/ n = taken
  <2>1. n = IF IsGrantEnough(m, a) THEN r
            ELSE IF \/ GetVehDataRate(m, a) = 0
                    \/ ExtraBandDemand(m, a) > GetAvailableBands(m)
                 THEN Touch(m, a)
            ELSE taken
    BY Zenon DEF SchedulePausedApp
  <2> HIDE DEF n, r, taken
  <2> QED BY <1>1, <2>1
<1>4. first \subseteq r.flexibleBands
  BY <1>2, FirstBandsSubset
<1> HIDE DEF r, first, n
<1>5. Good(taken) /\ Frame(m, taken, a)
  <2>1. taken = [r EXCEPT !.appTempRb = rbs, !.appGrantInfos = infos, !.flexibleBands = flex]
    BY <1>2 DEF Good, MacRecord
  <2>2. /\ infos \in [Apps -> AppGrantInfo] /\ rbs \in [Apps -> SUBSET Bands]
        /\ flex \in SUBSET Bands
    <3>1. /\ r.appGrantInfos \in [Apps -> AppGrantInfo] /\ r.appTempRb \in [Apps -> SUBSET Bands]
          /\ r.flexibleBands \in SUBSET Bands
      BY <1>2 DEF Good, MacRecord
    <3>2. temp \in SUBSET Bands /\ first \in SUBSET Bands
      BY <1>2, <1>4, <3>1 DEF AppGrantInfo
    <3> HIDE DEF temp
    <3> QED BY <3>1, <3>2 DEF AppGrantInfo
  <2> HIDE DEF infos, rbs, flex, taken, temp
  <2>3. /\ taken \in MacRecord
        /\ taken.appGrantInfos = infos /\ taken.appTempRb = rbs /\ taken.flexibleBands = flex
        /\ taken.appGrantedRb = r.appGrantedRb /\ taken.scheduledApp = r.scheduledApp
        /\ taken.pausedApp = r.pausedApp /\ taken.known = r.known
        /\ taken.appToBeInitialized = r.appToBeInitialized
        /\ taken.nodeId = r.nodeId /\ taken.disableNic = r.disableNic
        /\ taken.grantList = r.grantList /\ taken.failed = r.failed
    BY <1>2, <2>1, <2>2 DEF Good, MacRecord
  <2>4. BandsPartitioned(taken)
    <3>1. m.appGrantInfos[a].tempBands \cap r.flexibleBands = {}
      BY <1>2 DEF Good, BandsOk, BandsPartitioned, Held, ReadAppRbOccupation
    <3>2. taken.flexibleBands = r.flexibleBands \ first
      BY <2>3, <3>1 DEF flex, temp
    <3>3. taken.appTempRb = [r.appTempRb EXCEPT ![a] = @ \cup first] /\ BandsPartitioned(r)
      BY <1>2, <2>3 DEF Good, BandsOk, rbs
    <3>4. r \in MacRecord
      BY <1>2 DEF Good
    <3> QED BY <1>4, <2>3, <3>2, <3>3, <3>4, TakeTempBands
  <2>5. \A b \in Apps :
          /\ taken.appGrantInfos[b].tempBands \subseteq taken.appTempRb[b]
          /\ taken.appGrantInfos[b].processGnb = r.appGrantInfos[b].processGnb
          /\ taken.appGrantInfos[b].grantedBandSet = r.appGrantInfos[b].grantedBandSet
          /\ b # a => Held(taken, b) = Held(r, b)
    BY <1>2, <2>3 DEF Good, BandsOk, MacRecord, AppGrantInfo, Held, ReadAppRbOccupation,
                      infos, rbs, temp
  <2>6. BandsOk(taken)
    BY <1>2, <2>3, <2>4, <2>5 DEF Good, BandsOk
  <2>7. ListsOk(taken)
    <3>1. taken.known \subseteq Apps
      BY <2>3 DEF MacRecord
    <3> QED BY <1>2, <2>3, <2>5, <3>1 DEF Good, ListsOk
  <2>8. Frame(m, taken, a)
    BY <1>2, <2>3 DEF Frame
  <2> QED BY <2>3, <2>6, <2>7, <2>8 DEF Good
<1>6. Frame(m, m, a)
  BY DEF Frame
<1> QED BY <1>2, <1>3, <1>5, <1>6 DEF n

\* terminateAppService leaves the application in no list and with no band
LEMMA TerminateAppServiceGood ==
  ASSUME NEW m, Good(m), NEW a \in Apps, a \in m.known
  PROVE  LET n == TerminateAppService(m, a)
         IN  /\ Good(n) /\ Frame(m, n, a) /\ n.known = m.known
             /\ a \notin n.scheduledApp \cup n.pausedApp \cup n.appToBeInitialized
             /\ Held(n, a) = {}
<1> DEFINE infos == [m.appGrantInfos EXCEPT ![a].grantedBandSet = {}]
           rbs   == [m.appGrantedRb EXCEPT ![a] = {}]
           flex  == m.flexibleBands \cup m.appGrantedRb[a]
           sched == m.scheduledApp \ {a}
           pause == m.pausedApp \ {a}
           init  == m.appToBeInitialized \ {a}
           r     == [m EXCEPT !.scheduledApp = @ \ {a}, !.pausedApp = @ \ {a},
                              !.appToBeInitialized = @ \ {a},
                              !.flexibleBands = @ \cup m.appGrantedRb[a],
                              !.appGrantedRb[a] = {},
                              !.appGrantInfos[a].grantedBandSet = {}]
           n     == TerminateAppService(m, a)
<1>1. m \in MacRecord
  BY DEF Good
<1>2. n = ReleaseTempBands(r, a)
  BY Zenon DEF TerminateAppService
<1>3. r = [m EXCEPT !.scheduledApp = sched, !.pausedApp = pause, !.appToBeInitialized = init,
                    !.flexibleBands = flex, !.appGrantedRb = rbs, !.appGrantInfos = infos]
  BY <1>1 DEF MacRecord
<1>4. /\ infos \in [Apps -> AppGrantInfo] /\ rbs \in [Apps -> SUBSET Bands]
      /\ flex \in SUBSET Bands /\ sched \in SUBSET Apps /\ pause \in SUBSET Apps
      /\ init \in SUBSET Apps
  <2>1. infos \in [Apps -> AppGrantInfo]
    <3>1. m.appGrantInfos \in [Apps -> AppGrantInfo]
      BY <1>1 DEF MacRecord
    <3> QED BY <3>1 DEF AppGrantInfo
  <2>2. /\ rbs \in [Apps -> SUBSET Bands] /\ flex \in SUBSET Bands
        /\ sched \in SUBSET Apps /\ pause \in SUBSET Apps /\ init \in SUBSET Apps
    BY <1>1 DEF MacRecord
  <2> QED BY <2>1, <2>2
<1> HIDE DEF infos, rbs, flex, sched, pause, init, r, n
<1>5. /\ r \in MacRecord
      /\ r.scheduledApp = sched /\ r.pausedApp = pause /\ r.appToBeInitialized = init
      /\ r.flexibleBands = flex /\ r.appGrantedRb = rbs /\ r.appGrantInfos = infos
      /\ r.appTempRb = m.appTempRb /\ r.known = m.known
      /\ r.nodeId = m.nodeId /\ r.disableNic = m.disableNic
      /\ r.grantList = m.grantList /\ r.failed = m.failed
  BY <1>1, <1>3, <1>4 DEF MacRecord
<1>6. a \in r.known
  BY <1>5
<1>7. /\ n \in MacRecord
      /\ n.flexibleBands = flex \cup m.appTempRb[a]
      /\ n.appTempRb = [m.appTempRb EXCEPT ![a] = {}]
      /\ n.appGrantInfos = [infos EXCEPT ![a].tempBands = {}]
      /\ n.appGrantedRb = rbs /\ n.scheduledApp = sched
      /\ n.pausedApp = pause /\ n.appToBeInitialized = init
      /\ n.known = m.known /\ n.nodeId = m.nodeId /\ n.disableNic = m.disableNic
      /\ n.grantList = m.grantList /\ n.failed = m.failed
  BY <1>2, <1>5, <1>6, ReleaseTempBandsFields
<1>8. BandsPartitioned(n)
  <2>1. n.flexibleBands = m.flexibleBands \cup (m.appGrantedRb[a] \cup m.appTempRb[a])
    BY <1>7 DEF flex
  <2>2. n.appGrantedRb = [m.appGrantedRb EXCEPT ![a] = @ \ m.appGrantedRb[a]]
    <3>1. m.appGrantedRb \in [Apps -> SUBSET Bands]
      BY <1>1 DEF MacRecord
    <3>2. rbs = [m.appGrantedRb EXCEPT ![a] = @ \ m.appGrantedRb[a]]
      BY <3>1 DEF rbs
    <3> QED BY <1>7, <3>2
  <2>3. BandsPartitioned(m)
    BY DEF Good, BandsOk
  <2> QED BY <1>1, <1>7, <2>1, <2>2, <2>3, GiveBands
<1>9. \A b \in Apps : /\ b # a => n.appGrantInfos[b] = m.appGrantInfos[b] /\ Held(n, b) = Held(m, b)
                      /\ n.appGrantInfos[a].grantedBandSet = {} /\ n.appGrantInfos[a].tempBands = {}
                      /\ n.appGrantInfos[a].processGnb = m.appGrantInfos[a].processGnb
                      /\ Held(n, a) = {}
  BY <1>1, <1>7 DEF MacRecord, AppGrantInfo, Held, ReadAppRbOccupation, infos, rbs
<1>10. BandsOk(n)
  <2>1. \A b \in Apps : b # a => n.appGrantedRb[b] = m.appGrantedRb[b] /\ n.appTempRb[b] = m.appTempRb[b]
    BY <1>1, <1>7 DEF MacRecord, rbs
  <2> QED BY <1>8, <1>9, <2>1 DEF Good, BandsOk
<1>11. ListsOk(n)
  <2>1. n.known \subseteq Apps
    BY <1>7 DEF MacRecord
  <2> QED BY <1>7, <1>9, <2>1 DEF Good, ListsOk, sched, pause, init
<1>12. Frame(m, n, a)
  BY <1>7 DEF Frame, sched, pause, init
<1> QED BY <1>7, <1>9, <1>10, <1>11, <1>12 DEF Good, n, sched, pause, init

\* a grant may go once its application is in no list and holds no band
LEMMA RemoveAppGrantInfoGood ==
  ASSUME NEW m, Good(m), NEW a \in Apps, Held(m, a) = {},
         a \notin m.scheduledApp \cup m.pausedApp \cup m.appToBeInitialized
  PROVE  Good(RemoveAppGrantInfo(m, a)) /\ Frame(m, RemoveAppGrantInfo(m, a), a)
<1> DEFINE infos == [m.appGrantInfos EXCEPT ![a] = DefaultInfo]
           known == m.known \ {a}
           n     == RemoveAppGrantInfo(m, a)
<1>1. m \in MacRecord
  BY DEF Good
<1>2. n = [m EXCEPT !.known = known, !.appGrantInfos = infos]
  BY <1>1 DEF RemoveAppGrantInfo, MacRecord
<1>3. infos \in [Apps -> AppGrantInfo] /\ known \in SUBSET Apps
  BY <1>1 DEF MacRecord, AppGrantInfo, DefaultInfo
<1> HIDE DEF infos, known, n
<1>4. /\ n \in MacRecord
      /\ n.known = known /\ n.appGrantInfos = infos
      /\ n.scheduledApp = m.scheduledApp /\ n.pausedApp = m.pausedApp
      /\ n.appToBeInitialized = m.appToBeInitialized /\ n.flexibleBands = m.flexibleBands
      /\ n.appGrantedRb = m.appGrantedRb /\ n.appTempRb = m.appTempRb
      /\ n.nodeId = m.nodeId /\ n.disableNic = m.disableNic
      /\ n.grantList = m.grantList /\ n.failed = m.failed
  BY <1>1, <1>2, <1>3 DEF MacRecord
<1>5. \A b \in Apps : n.appGrantInfos[b] = IF b = a THEN DefaultInfo ELSE m.appGrantInfos[b]
  BY <1>1, <1>4 DEF MacRecord, infos
<1>6. BandsOk(n)
  BY <1>4, <1>5 DEF Good, BandsOk, BandsPartitioned, Held, ReadAppRbOccupation, DefaultInfo
<1>7. ListsOk(n)
  <2>1. n.known \subseteq Apps
    BY <1>4 DEF MacRecord
  <2> QED BY <1>4, <1>5, <2>1 DEF Good, ListsOk, Held, ReadAppRbOccupation, known
<1>8. Frame(m, n, a)
  BY <1>4 DEF Frame, known
<1> QED BY <1>4, <1>6, <1>7, <1>8 DEF Good, n

\* a new grant replaces the old one, its bands aside
LEMMA SetAppGrantInfoGood ==
  ASSUME NEW m, Good(m), NEW a \in Apps, NEW info \in AppGrantInfo, info.processGnb \in Gnbs,
         info.grantedBandSet = {}, info.tempBands = {}
  PROVE  LET n == SetAppGrantInfo(m, a, info)
         IN  Good(n) /\ Frame(m, n, a) /\ n.known = m.known \cup {a}
<1> DEFINE infos == [m.appGrantInfos EXCEPT ![a] = info]
           known == m.known \cup {a}
           n     == SetAppGrantInfo(m, a, info)
<1>1. m \in MacRecord
  BY DEF Good
<1>2. n = [m EXCEPT !.known = known, !.appGrantInfos = infos]
  BY <1>1 DEF SetAppGrantInfo, Touch, MacRecord
<1>3. infos \in [Apps -> AppGrantInfo] /\ known \in SUBSET Apps
  BY <1>1 DEF MacRecord
<1> HIDE DEF infos, known, n
<1>4. /\ n \in MacRecord
      /\ n.known = known /\ n.appGrantInfos = infos
      /\ n.scheduledApp = m.scheduledApp /\ n.pausedApp = m.pausedApp
      /\ n.appToBeInitialized = m.appToBeInitialized /\ n.flexibleBands = m.flexibleBands
      /\ n.appGrantedRb = m.appGrantedRb /\ n.appTempRb = m.appTempRb
      /\ n.nodeId = m.nodeId /\ n.disableNic = m.disableNic
      /\ n.grantList = m.grantList /\ n.failed = m.failed
  BY <1>1, <1>2, <1>3 DEF MacRecord
<1>5. \A b \in Apps : n.appGrantInfos[b] = IF b = a THEN info ELSE m.appGrantInfos[b]
  BY <1>1, <1>4 DEF MacRecord, infos
<1>6. BandsOk(n)
  BY <1>4, <1>5 DEF Good, BandsOk, BandsPartitioned, Held, ReadAppRbOccupation
<1>7. ListsOk(n)
  <2>1. n.known \subseteq Apps
    BY <1>4 DEF MacRecord
  <2> QED BY <1>4, <1>5, <2>1 DEF Good, ListsOk, Held, ReadAppRbOccupation, known
<1>8. Frame(m, n, a)
  BY <1>4 DEF Frame, known
<1> QED BY <1>4, <1>6, <1>7, <1>8 DEF Good, n, known

\* a new rate moves no band
LEMMA SetVehDataRateGood ==
  ASSUME NEW m, Good(m), NEW u \in Ues, NEW r \in Nat
  PROVE  Good(SetVehDataRate(m, u, r))
<1> DEFINE v == SetVehDataRate(m, u, r)
<1>1. m \in MacRecord
  BY DEF Good
<1>2. /\ v \in MacRecord
      /\ v.scheduledApp = m.scheduledApp /\ v.pausedApp = m.pausedApp
      /\ v.appToBeInitialized = m.appToBeInitialized /\ v.known = m.known
      /\ v.flexibleBands = m.flexibleBands /\ v.appGrantedRb = m.appGrantedRb
      /\ v.appTempRb = m.appTempRb /\ v.appGrantInfos = m.appGrantInfos
  BY <1>1 DEF SetVehDataRate, MacRecord
<1> HIDE DEF v
<1>3. Good(v)
  BY <1>2 DEF Good, BandsOk, BandsPartitioned, ListsOk, Held, ReadAppRbOccupation
<1> QED BY <1>3 DEF v

\* an application with a grant may wait for its bands
LEMMA AddAppToBeInitializedGood ==
  ASSUME NEW m, Good(m), NEW a \in Apps, a \in m.known
  PROVE  LET n == AddAppToBeInitialized(m, a)
         IN  Good(n) /\ Frame(m, n, a)
<1> DEFINE n == AddAppToBeInitialized(m, a)
<1>1. m \in MacRecord
  BY DEF Good
<1>2. /\ n \in MacRecord
      /\ n.scheduledApp = m.scheduledApp /\ n.pausedApp = m.pausedApp
      /\ n.appToBeInitialized = m.appToBeInitialized \cup {a} /\ n.known = m.known
      /\ n.flexibleBands = m.flexibleBands /\ n.appGrantedRb = m.appGrantedRb
      /\ n.appTempRb = m.appTempRb /\ n.appGrantInfos = m.appGrantInfos
      /\ n.nodeId = m.nodeId /\ n.disableNic = m.disableNic
      /\ n.grantList = m.grantList /\ n.failed = m.failed
  BY <1>1 DEF AddAppToBeInitialized, MacRecord
<1> HIDE DEF n
<1>3. Good(n) /\ Frame(m, n, a)
  BY <1>2 DEF Good, BandsOk, BandsPartitioned, ListsOk, Held, ReadAppRbOccupation, Frame
<1> QED BY <1>3 DEF n

\* resetRbStatus frees every band and forgets every grant
LEMMA ResetRbStatusGood ==
  ASSUME NEW m \in MacRecord
  PROVE  LET n == ResetRbStatus(m)
         IN  /\ Good(n)
             /\ n.nodeId = m.nodeId /\ n.disableNic = m.disableNic
             /\ n.grantList = m.grantList /\ n.failed = m.failed
<1> DEFINE rates == [u \in Ues |-> 0]
           rbs   == [a \in Apps |-> {}]
           infos == [a \in Apps |-> DefaultInfo]
           n     == ResetRbStatus(m)
<1>1. n = [m EXCEPT !.scheduledApp = {}, !.pausedApp = {}, !.appToBeInitialized = {},
                    !.vehDataRate = rates, !.appGrantedRb = rbs, !.appTempRb = rbs,
                    !.flexibleBands = Bands, !.appGrantInfos = infos, !.known = {}]
  BY DEF ResetRbStatus
<1>2. /\ rates \in [Ues -> Nat] /\ rbs \in [Apps -> SUBSET Bands]
      /\ infos \in [Apps -> AppGrantInfo]
  BY DEF AppGrantInfo, DefaultInfo
<1>3. /\ \A a \in Apps : rbs[a] = {} /\ infos[a] = DefaultInfo
  OBVIOUS
<1> HIDE DEF rates, rbs, infos, n
<1>4. /\ n \in MacRecord
      /\ n.scheduledApp = {} /\ n.pausedApp = {} /\ n.appToBeInitialized = {} /\ n.known = {}
      /\ n.flexibleBands = Bands /\ n.appGrantedRb = rbs /\ n.appTempRb = rbs
      /\ n.appGrantInfos = infos
      /\ n.nodeId = m.nodeId /\ n.disableNic = m.disableNic
      /\ n.grantList = m.grantList /\ n.failed = m.failed
  BY <1>1, <1>2 DEF MacRecord
<1>5. BandsOk(n) /\ ListsOk(n)
  BY <1>3, <1>4 DEF BandsOk, BandsPartitioned, ListsOk, Held, ReadAppRbOccupation, DefaultInfo
<1> QED BY <1>4, <1>5 DEF Good, n

-----------------------------------------------------------------------------
(* Sending.                                                                 *)

\* sending a message changes nothing but what was sent
LEMMA EmitGood ==
  ASSUME NEW m, Good(m), NEW msg \in Message
  PROVE  LET n == Emit(m, msg)
         IN  /\ Good(n) /\ \A a \in Apps : Frame(m, n, a) /\ Held(n, a) = Held(m, a)
             /\ n.scheduledApp = m.scheduledApp /\ n.pausedApp = m.pausedApp
             /\ n.appToBeInitialized = m.appToBeInitialized /\ n.known = m.known
<1> DEFINE n    == Emit(m, msg)
           sent == Append(m.out, msg)
<1>1. m \in MacRecord
  BY DEF Good
<1>0. sent \in Seq(Message) /\ n = [m EXCEPT !.out = sent]
  <2>1. m.out \in Seq(Message)
    BY <1>1 DEF MacRecord
  <2> HIDE DEF sent
  <2>2. n = [m EXCEPT !.out = sent]
    BY DEF Emit, sent
  <2> QED BY <2>1, <2>2 DEF sent
<1> HIDE DEF n, sent
<1>2. /\ n \in MacRecord
      /\ n.scheduledApp = m.scheduledApp /\ n.pausedApp = m.pausedApp
      /\ n.appToBeInitialized = m.appToBeInitialized /\ n.known = m.known
      /\ n.flexibleBands = m.flexibleBands /\ n.appGrantedRb = m.appGrantedRb
      /\ n.appTempRb = m.appTempRb /\ n.appGrantInfos = m.appGrantInfos
      /\ n.nodeId = m.nodeId /\ n.disableNic = m.disableNic
      /\ n.grantList = m.grantList /\ n.failed = m.failed
  BY <1>0, <1>1 DEF MacRecord
<1>3. Good(n)
  BY <1>2 DEF Good, BandsOk, BandsPartitioned, ListsOk, Held, ReadAppRbOccupation
<1>4. \A a \in Apps : Frame(m, n, a) /\ Held(n, a) = Held(m, a)
  BY <1>2 DEF Frame, Held, ReadAppRbOccupation
<1> QED BY <1>2, <1>3, <1>4 DEF n

\* what a grant and a report say are numbers
LEMMA AllocatedBandsNat ==
  ASSUME NEW m \in MacRecord, NEW a \in Apps
  PROVE  /\ GetAppAllocatedBands(m, a) \in Nat /\ GetAvailableBands(m) \in Nat
         /\ GetVehDataRate(m, a) \in Nat
         /\ GetVehDataRate(m, a) * GetAppAllocatedBands(m, a) \in Nat
<1> DEFINE info == m.appGrantInfos[a]
<1>1. info.grantedBandSet \subseteq Bands /\ info.tempBands \subseteq Bands
  BY DEF MacRecord, AppGrantInfo
<1>2. m.flexibleBands \subseteq Bands /\ GetVehDataRate(m, a) \in Nat
  BY MecTypesAssumption DEF MacRecord, GetVehDataRate
<1>3. Cardinality(info.grantedBandSet) \in Nat /\ Cardinality(info.tempBands) \in Nat
  BY <1>1, BandsFinite
<1>4. GetAppAllocatedBands(m, a) \in Nat
  BY <1>3 DEF GetAppAllocatedBands
<1>5. GetAvailableBands(m) \in Nat
  BY <1>2, BandsFinite DEF GetAvailableBands
<1>6. \A x, y \in Nat : x * y \in Nat
  OBVIOUS
<1> QED BY <1>2, <1>4, <1>5, <1>6

\* a vehicle is told of a grant that exists
LEMMA MecSendGrantToVehGood ==
  ASSUME NEW m, Good(m), NEW a \in Apps, a \in m.known,
         NEW kind \in {"new", "update", "stop", "pause"}
  PROVE  LET n == MecSendGrantToVeh(m, a, kind)
         IN  /\ Good(n) /\ Frame(m, n, a) /\ Held(n, a) = Held(m, a)
             /\ n.scheduledApp = m.scheduledApp /\ n.pausedApp = m.pausedApp
             /\ n.appToBeInitialized = m.appToBeInitialized /\ n.known = m.known
<1> DEFINE active == kind \in {"new", "update"}
           bytes  == IF active THEN GetVehDataRate(m, a) * GetAppAllocatedBands(m, a) ELSE 0
           blocks == IF active THEN ReadAppRbOccupation(m, a) ELSE {}
           p      == m.appGrantInfos[a].processGnb
           msg    == [type |-> "VehGrant", app |-> a, kind |-> kind, processGnb |-> p,
                      offloadGnb |-> m.nodeId, bytePerTti |-> bytes, blocks |-> blocks]
<1>1. m \in MacRecord /\ Touch(m, a) = m
  BY TouchGood DEF Good
<1>2. MecSendGrantToVeh(m, a, kind) = Emit(m, msg)
  BY <1>1 DEF MecSendGrantToVeh
<1>3. bytes \in Nat
  BY <1>1, AllocatedBandsNat
<1>4. blocks \in SUBSET Bands
  BY <1>1 DEF MacRecord, ReadAppRbOccupation
<1>5. p \in Gnbs \cup {NoGnb} /\ m.nodeId \in Gnbs
  BY <1>1 DEF MacRecord, AppGrantInfo
<1> HIDE DEF bytes, blocks, p, active
<1>6. msg \in Message
  BY <1>3, <1>4, <1>5 DEF Message
<1> HIDE DEF msg
<1> QED BY <1>2, <1>6, EmitGood

\* a server is told of a grant that exists
LEMMA MecFeedbackServiceStatusGood ==
  ASSUME NEW m, Good(m), NEW a \in Apps, a \in m.known, NEW success \in BOOLEAN
  PROVE  LET n == MecFeedbackServiceStatus(m, a, success)
         IN  /\ Good(n) /\ Frame(m, n, a) /\ Held(n, a) = Held(m, a)
             /\ n.scheduledApp = m.scheduledApp /\ n.pausedApp = m.pausedApp
             /\ n.appToBeInitialized = m.appToBeInitialized /\ n.known = m.known
<1> DEFINE used  == IF success THEN GetAppAllocatedBands(m, a) ELSE 0
           avail == GetAvailableBands(m)
           p     == m.appGrantInfos[a].processGnb
           msg   == [type |-> "SrvFD", app |-> a, success |-> success, offloadGnb |-> m.nodeId,
                     processGnb |-> p, usedBand |-> used, availBand |-> avail]
<1>1. m \in MacRecord /\ Touch(m, a) = m
  BY TouchGood DEF Good
<1>2. MecFeedbackServiceStatus(m, a, success) = Emit(m, msg)
  BY <1>1 DEF MecFeedbackServiceStatus
<1>3. used \in Nat /\ avail \in Nat
  BY <1>1, AllocatedBandsNat
<1>4. p \in Gnbs \cup {NoGnb} /\ m.nodeId \in Gnbs
  BY <1>1 DEF MacRecord, AppGrantInfo
<1> HIDE DEF used, avail, p
<1>5. msg \in Message
  BY <1>3, <1>4 DEF Message
<1> HIDE DEF msg
<1> QED BY <1>2, <1>5, EmitGood

\* a report of the free bands
LEMMA RsuFdGood ==
  ASSUME NEW m, Good(m), NEW u \in Ues \cup {NoUe}, NEW rate \in Nat
  PROVE  LET n == Emit(m, [type |-> "RsuFD", gnb |-> m.nodeId, veh |-> u,
                           bytePerBand |-> rate, availBand |-> GetAvailableBands(m)])
         IN  /\ Good(n) /\ n.nodeId = m.nodeId /\ n.failed = m.failed
             /\ n.grantList = m.grantList /\ n.disableNic = m.disableNic
<1> DEFINE avail == GetAvailableBands(m)
           msg   == [type |-> "RsuFD", gnb |-> m.nodeId, veh |-> u,
                     bytePerBand |-> rate, availBand |-> avail]
<1>1. m \in MacRecord
  BY DEF Good
<1>2. avail \in Nat /\ m.nodeId \in Gnbs
  <2>1. m.flexibleBands \subseteq Bands /\ m.nodeId \in Gnbs
    BY <1>1 DEF MacRecord
  <2> QED BY <2>1, BandsFinite DEF GetAvailableBands
<1> HIDE DEF avail
<1>3. msg \in Message
  BY <1>2 DEF Message
<1> HIDE DEF msg
<1>4. Good(Emit(m, msg))
  BY <1>3, EmitGood
<1>5. /\ Emit(m, msg).nodeId = m.nodeId /\ Emit(m, msg).failed = m.failed
      /\ Emit(m, msg).grantList = m.grantList /\ Emit(m, msg).disableNic = m.disableNic
  BY <1>1 DEF Emit, MacRecord
<1> QED BY <1>4, <1>5 DEF msg, avail

-----------------------------------------------------------------------------
(* Handlers and loop bodies.                                                *)

\* two methods called for one application, one after the other
LEMMA FrameTransitive ==
  ASSUME NEW k, NEW m, NEW n, NEW a, Frame(k, m, a), Frame(m, n, a)
  PROVE  Frame(k, n, a)
  BY DEF Frame

\* terminateService ends one application and leaves the others alone
LEMMA TerminateServiceGood ==
  ASSUME NEW m, Good(m), NEW a \in Apps, a \in m.known
  PROVE  Good(TerminateService(m, a)) /\ Frame(m, TerminateService(m, a), a)
<1> DEFINE stopped  == TerminateAppService(m, a)
           reported == MecFeedbackServiceStatus(stopped, a, FALSE)
           sent     == MecSendGrantToVeh(reported, a, "stop")
<1>1. /\ Good(stopped) /\ Frame(m, stopped, a) /\ a \in stopped.known
      /\ a \notin stopped.scheduledApp \cup stopped.pausedApp \cup stopped.appToBeInitialized
      /\ Held(stopped, a) = {}
  BY TerminateAppServiceGood
<1> HIDE DEF stopped
<1>2. /\ Good(reported) /\ Frame(stopped, reported, a) /\ a \in reported.known
      /\ a \notin reported.scheduledApp \cup reported.pausedApp \cup reported.appToBeInitialized
      /\ Held(reported, a) = {}
  BY <1>1, MecFeedbackServiceStatusGood
<1> HIDE DEF reported
<1>3. /\ Good(sent) /\ Frame(reported, sent, a)
      /\ a \notin sent.scheduledApp \cup sent.pausedApp \cup sent.appToBeInitialized
      /\ Held(sent, a) = {}
  BY <1>2, MecSendGrantToVehGood
<1> HIDE DEF sent
<1>4. Good(RemoveAppGrantInfo(sent, a)) /\ Frame(sent, RemoveAppGrantInfo(sent, a), a)
  BY <1>3, RemoveAppGrantInfoGood
<1>5. TerminateService(m, a) = RemoveAppGrantInfo(sent, a)
  BY DEF TerminateService, sent, reported, stopped
<1> QED BY <1>1, <1>2, <1>3, <1>4, <1>5, FrameTransitive

\* whatever a grant does to a MAC it was sent to, the MAC stays Good
LEMMA MecHandleGrantFromRsuGood ==
  ASSUME NEW m, Good(m), NEW grant \in NicGrant, NEW has \in BOOLEAN,
         grant.offloadGnb = m.nodeId
  PROVE  LET n == MecHandleGrantFromRsu(m, grant, has)
         IN  /\ Good(n) /\ n.nodeId = m.nodeId /\ n.failed = m.failed
             /\ n.grantList = m.grantList /\ n.disableNic = m.disableNic
<1> DEFINE a       == grant.app
           info    == [DefaultInfo EXCEPT !.numGrantedBands = grant.bands,
                                          !.load = grant.load,
                                          !.processGnb = grant.processGnb]
           stored  == SetAppGrantInfo(m, a, info)
           tried   == ScheduleGrantedApp(stored, a)
           told    == MecFeedbackServiceStatus(tried, a, TRUE)
           started == MecSendGrantToVeh(told, a, "new")
           paused  == MecSendGrantToVeh(told, a, "pause")
           waits   == AddAppToBeInitialized(paused, a)
           n       == MecHandleGrantFromRsu(m, grant, has)
<1>1. a \in Apps /\ grant.bands \in Nat /\ grant.load \in Nat /\ grant.processGnb \in Gnbs
  BY DEF NicGrant
<1>2. n \in {m, TerminateService(m, a), started, waits}
      /\ (n = TerminateService(m, a) => a \in m.known \/ n \in {m, started, waits})
  BY DEF MecHandleGrantFromRsu
<1>3. /\ info \in AppGrantInfo /\ info.processGnb \in Gnbs
      /\ info.grantedBandSet = {} /\ info.tempBands = {}
  BY <1>1 DEF AppGrantInfo, DefaultInfo
<1> HIDE DEF a, info, n
<1>4. Good(stored) /\ Frame(m, stored, a) /\ a \in stored.known
  BY <1>1, <1>3, SetAppGrantInfoGood
<1> HIDE DEF stored
<1>5. Good(tried) /\ Frame(stored, tried, a) /\ a \in tried.known
  <2>1. Good(tried) /\ Frame(stored, tried, a)
    BY <1>1, <1>4, ScheduleGrantedAppGood
  <2>2. stored \in MacRecord /\ Touch(stored, a) = stored
    BY <1>1, <1>4, TouchGood DEF Good
  <2>3. tried.known = stored.known
    BY <2>2 DEF ScheduleGrantedApp, MacRecord, tried
  <2> QED BY <1>4, <2>1, <2>3
<1> HIDE DEF tried
<1>6. Good(told) /\ Frame(tried, told, a) /\ a \in told.known
  BY <1>1, <1>5, MecFeedbackServiceStatusGood
<1> HIDE DEF told
<1>7. /\ Good(started) /\ Frame(told, started, a)
      /\ Good(paused) /\ Frame(told, paused, a) /\ a \in paused.known
  BY <1>1, <1>6, MecSendGrantToVehGood
<1> HIDE DEF started, paused
<1>8. Good(waits) /\ Frame(paused, waits, a)
  BY <1>1, <1>7, AddAppToBeInitializedGood
<1> HIDE DEF waits
<1>9. Frame(m, started, a) /\ Frame(m, waits, a) /\ Frame(m, m, a)
  BY <1>4, <1>5, <1>6, <1>7, <1>8, FrameTransitive DEF Frame
<1>10. Good(n) /\ Frame(m, n, a)
  BY <1>1, <1>2, <1>7, <1>8, <1>9, TerminateServiceGood
<1> QED BY <1>10 DEF Frame, n

Keeping == {"keepOrTerminate", "keepOrTerminateNewRate", "keepOrPause", "keepOrPauseNewRate"}
Pausing == {"keepOrPause", "keepOrPauseNewRate"}
Resuming == {"resumeOrPause", "tryResume"}
Bodies == Keeping \cup Resuming \cup {"tryInitialize", "terminate", "sendStop"}

\* what a loop body relies on, the membership that put a in the loop's range
Ready(m, a, what) ==
    /\ what \in Keeping => a \in m.scheduledApp
    /\ what \in Resuming => a \in m.pausedApp
    /\ what = "tryInitialize" => a \in m.appToBeInitialized
    /\ what \in {"terminate", "sendStop"} => a \in m.known

\* a loop visits applications that have grants
LEMMA ReadyIsKnown ==
  ASSUME NEW m, Good(m), NEW a \in Apps, NEW what \in Bodies, Ready(m, a, what)
  PROVE  a \in m.known
  BY DEF Ready, Bodies, Good, ListsOk

\* a scheduled application seen by broadcast feedback
LEMMA KeepOrTerminateGood ==
  ASSUME NEW m, Good(m), NEW a \in Apps, a \in m.scheduledApp, NEW c \in BOOLEAN
  PROVE  Good(KeepOrTerminate(m, a, c)) /\ Frame(m, KeepOrTerminate(m, a, c), a)
<1> DEFINE r    == ScheduleActiveApp(m, a)
           kept == MecFeedbackServiceStatus(r, a, TRUE)
           sent == MecSendGrantToVeh(kept, a, "update")
<1>1. Good(r) /\ Frame(m, r, a) /\ a \in r.scheduledApp \cup r.pausedApp
  BY ScheduleActiveAppGood
<1>2. KeepOrTerminate(m, a, c) \in {TerminateService(r, a), sent, kept}
  BY DEF KeepOrTerminate
<1> HIDE DEF r
<1>3. a \in r.known
  BY <1>1 DEF Good, ListsOk
<1>4. Good(kept) /\ Frame(r, kept, a) /\ a \in kept.known
  BY <1>1, <1>3, MecFeedbackServiceStatusGood
<1> HIDE DEF kept
<1>5. Good(sent) /\ Frame(kept, sent, a)
  BY <1>4, MecSendGrantToVehGood
<1>6. Good(TerminateService(r, a)) /\ Frame(r, TerminateService(r, a), a)
  BY <1>1, <1>3, TerminateServiceGood
<1> HIDE DEF sent
<1>7. Frame(m, kept, a) /\ Frame(m, sent, a) /\ Frame(m, TerminateService(r, a), a)
  BY <1>1, <1>4, <1>5, <1>6, FrameTransitive
<1> QED BY <1>2, <1>4, <1>5, <1>6, <1>7

\* a scheduled application seen by local feedback stays scheduled or is paused
LEMMA KeepOrPauseGood ==
  ASSUME NEW m, Good(m), NEW a \in Apps, a \in m.scheduledApp, NEW c \in BOOLEAN
  PROVE  LET n == KeepOrPause(m, a, c)
         IN  Good(n) /\ Frame(m, n, a) /\ a \in n.scheduledApp \cup n.pausedApp
<1> DEFINE r    == ScheduleActiveApp(m, a)
           sent == MecSendGrantToVeh(r, a, "update")
<1>1. Good(r) /\ Frame(m, r, a) /\ a \in r.scheduledApp \cup r.pausedApp
  BY ScheduleActiveAppGood
<1>2. KeepOrPause(m, a, c) \in {sent, r}
  BY DEF KeepOrPause
<1> HIDE DEF r
<1>3. a \in r.known
  BY <1>1 DEF Good, ListsOk
<1>4. /\ Good(sent) /\ Frame(r, sent, a)
      /\ sent.scheduledApp = r.scheduledApp /\ sent.pausedApp = r.pausedApp
  BY <1>1, <1>3, MecSendGrantToVehGood
<1> HIDE DEF sent
<1> QED BY <1>1, <1>2, <1>4, FrameTransitive

\* an application that waits for its first bands leaves pausedApp_ alone
LEMMA TryInitializeGood ==
  ASSUME NEW m, Good(m), NEW a \in Apps, a \in m.appToBeInitialized
  PROVE  LET n == TryInitialize(m, a)
         IN  Good(n) /\ Frame(m, n, a) /\ n.pausedApp = m.pausedApp
<1> DEFINE r    == ScheduleGrantedApp(m, a)
           sent == MecSendGrantToVeh(r, a, "update")
<1>1. a \in m.known
  BY DEF Good, ListsOk
<1>2. /\ Good(r) /\ Frame(m, r, a) /\ r.pausedApp = m.pausedApp
      /\ CanScheduleGranted(m, a) => a \in r.scheduledApp
  BY <1>1, ScheduleGrantedAppGood
<1>3. IF CanScheduleGranted(m, a) THEN TryInitialize(m, a) = sent ELSE TryInitialize(m, a) = r
  BY DEF TryInitialize
<1> HIDE DEF r
<1>4. CanScheduleGranted(m, a) => /\ Good(sent) /\ Frame(r, sent, a)
                                  /\ sent.pausedApp = r.pausedApp
  <2> SUFFICES ASSUME CanScheduleGranted(m, a)
               PROVE  Good(sent) /\ Frame(r, sent, a) /\ sent.pausedApp = r.pausedApp
    OBVIOUS
  <2>1. a \in r.known
    BY <1>2 DEF Good, ListsOk
  <2> QED BY <1>2, <2>1, MecSendGrantToVehGood
<1> HIDE DEF sent
<1> QED BY <1>2, <1>3, <1>4, FrameTransitive

\* a paused application is resumed or stays
LEMMA ResumeOrPauseGood ==
  ASSUME NEW m, Good(m), NEW a \in Apps, a \in m.pausedApp
  PROVE  /\ Good(ResumeOrPause(m, a)) /\ Frame(m, ResumeOrPause(m, a), a)
         /\ Good(TryResume(m, a)) /\ Frame(m, TryResume(m, a), a)
<1> DEFINE r     == SchedulePausedApp(m, a)
           told  == MecSendGrantToVeh(r, a, "update")
           pause == MecSendGrantToVeh(r, a, "pause")
<1>1. Good(r) /\ Frame(m, r, a)
  BY SchedulePausedAppGood
<1>2. ResumeOrPause(m, a) \in {told, pause} /\ TryResume(m, a) \in {r, told}
  BY DEF ResumeOrPause, TryResume
<1>3. a \in r.known
  <2>1. m \in MacRecord /\ a \in m.known
    BY DEF Good, ListsOk
  <2>2. Touch(m, a) = m
    BY <2>1, TouchGood
  <2>3. r.known = m.known
    BY <2>1, <2>2 DEF SchedulePausedApp, Resume, MacRecord, r
  <2> QED BY <2>1, <2>3
<1> HIDE DEF r
<1>4. Good(told) /\ Frame(r, told, a) /\ Good(pause) /\ Frame(r, pause, a)
  BY <1>1, <1>3, MecSendGrantToVehGood
<1> HIDE DEF told, pause
<1> QED BY <1>1, <1>2, <1>4, FrameTransitive

\* every loop body, on an application its loop may visit
LEMMA LoopBodyGood ==
  ASSUME NEW m, Good(m), NEW a \in Apps, NEW what \in Bodies, Ready(m, a, what)
  PROVE  LET n == LoopBody(m, a, what)
         IN  /\ Good(n) /\ Frame(m, n, a)
             /\ what \in Pausing => a \in n.scheduledApp \cup n.pausedApp
             /\ what = "tryInitialize" => n.pausedApp = m.pausedApp
<1>1. a \in m.known
  BY ReadyIsKnown
<1>2. CASE what \in {"keepOrTerminate", "keepOrTerminateNewRate"}
  BY <1>2, KeepOrTerminateGood DEF Ready, Keeping, Pausing, LoopBody
<1>3. CASE what \in Pausing
  BY <1>3, KeepOrPauseGood DEF Ready, Keeping, Pausing, LoopBody
<1>4. CASE what = "tryInitialize"
  BY <1>4, TryInitializeGood DEF Ready, Pausing, LoopBody
<1>5. CASE what \in Resuming
  BY <1>5, ResumeOrPauseGood DEF Ready, Resuming, Pausing, LoopBody
<1>6. CASE what = "terminate"
  BY <1>1, <1>6, TerminateServiceGood DEF Pausing, LoopBody
<1>7. CASE what = "sendStop"
  BY <1>1, <1>7, MecSendGrantToVehGood DEF Pausing, LoopBody
<1> QED BY <1>2, <1>3, <1>4, <1>5, <1>6, <1>7 DEF Bodies, Keeping, Pausing

-----------------------------------------------------------------------------
(* Loops.  A for-loop is a recursive function of the index it has reached;  *)
(* such a function exists because a shortest prefix without one would have  *)
(* a predecessor that has one.                                              *)

\* a nonempty set of naturals has a least element
LEMMA LeastNatural ==
  ASSUME NEW S, S \subseteq Nat, S # {}
  PROVE  \E n \in S : \A k \in S : ~(k < n)
<1>1. PICK n \in S : \A k \in S : <<k, n>> \notin OpToRel(<, Nat)
  BY NatLessThanWellFounded, WFMin
<1> QED BY <1>1 DEF OpToRel

\* induction with the induction hypothesis as a set
LEMMA UpTo ==
  ASSUME NEW N \in Nat, NEW S, 0 \in S,
         \A i \in 0 .. N : i # N /\ i \in S => i + 1 \in S
  PROVE  \A i \in 0 .. N : i \in S
<1> DEFINE Bad == {i \in 0 .. N : i \notin S}
<1> SUFFICES ASSUME Bad # {} PROVE FALSE
  OBVIOUS
<1>1. PICK n \in Bad : \A k \in Bad : ~(k < n)
  <2>1. Bad \subseteq Nat
    OBVIOUS
  <2> HIDE DEF Bad
  <2> QED BY <2>1, LeastNatural
<1>2. n \in 0 .. N /\ n # 0 /\ n - 1 \in 0 .. N
  BY <1>1
<1>3. n - 1 \in S
  BY <1>1, <1>2
<1>4. n \in S
  <2>1. (n - 1) + 1 \in S
    BY <1>2, <1>3
  <2> QED BY <1>2, <2>1
<1> QED BY <1>1, <1>4

Walk(f, m, S, what, n) ==
    f = [a \in 0 .. n |-> IF a = 0 THEN m
                          ELSE IF a \in S THEN LoopBody(f[a - 1], a, what)
                          ELSE f[a - 1]]

\* a loop over applications terminates with a value
LEMMA WalkExists ==
  ASSUME NEW m, NEW S, NEW what
  PROVE  \A n \in Nat : \E f : Walk(f, m, S, what, n)
<1> DEFINE Bad == {n \in Nat : ~\E f : Walk(f, m, S, what, n)}
<1> SUFFICES ASSUME Bad # {} PROVE FALSE
  OBVIOUS
<1>1. PICK n \in Bad : \A k \in Bad : ~(k < n)
  BY LeastNatural
<1>2. CASE n = 0
  <2>1. Walk([a \in 0 .. 0 |-> m], m, S, what, 0)
    BY DEF Walk
  <2> QED BY <2>1, <1>1, <1>2
<1>3. CASE n # 0
  <2>1. n - 1 \in Nat /\ n - 1 \notin Bad
    BY <1>1, <1>3
  <2>2. PICK f : Walk(f, m, S, what, n - 1)
    BY <2>1
  <2> DEFINE step == IF n \in S THEN LoopBody(f[n - 1], n, what) ELSE f[n - 1]
             g    == [a \in 0 .. n |-> IF a = n THEN step ELSE f[a]]
  <2>3. ASSUME NEW a \in 0 .. n
        PROVE  g[a] = IF a = 0 THEN m
                      ELSE IF a \in S THEN LoopBody(g[a - 1], a, what) ELSE g[a - 1]
    <3>1. CASE a = n
      BY <3>1, <2>1, <1>3
    <3>2. CASE a # n
      BY <3>2, <2>1, <1>3, <2>2 DEF Walk
    <3> QED BY <3>1, <3>2
  <2>4. Walk(g, m, S, what, n)
    BY <2>3 DEF Walk
  <2> QED BY <2>4, <1>1
<1> QED BY <1>2, <1>3

\* ForEachApp is that value
LEMMA ForEachAppWalks ==
  ASSUME NEW m, NEW S, NEW what
  PROVE  \E f : /\ Walk(f, m, S, what, NumApps)
                /\ ForEachApp(m, S, what) = f[NumApps]
<1> DEFINE after[a \in 0 .. NumApps] ==
             IF a = 0 THEN m
             ELSE IF a \in S THEN LoopBody(after[a - 1], a, what)
             ELSE after[a - 1]
<1>1. PICK f : Walk(f, m, S, what, NumApps)
  BY WalkExists, MecTypesAssumption
<1>2. Walk(after, m, S, what, NumApps)
  BY <1>1 DEF Walk
<1>3. ForEachApp(m, S, what) = after[NumApps]
  BY DEF ForEachApp
<1> QED BY <1>2, <1>3

\* a loop whose applications are Ready when it starts finds each of them Ready
LEMMA ForEachAppGood ==
  ASSUME NEW m, Good(m), NEW S, S \subseteq Apps, NEW what \in Bodies,
         \A a \in S : Ready(m, a, what)
  PROVE  LET n == ForEachApp(m, S, what)
         IN  /\ Good(n) /\ n.nodeId = m.nodeId /\ n.failed = m.failed
             /\ n.grantList = m.grantList /\ n.disableNic = m.disableNic
             /\ what \in Pausing => S \subseteq n.scheduledApp \cup n.pausedApp
             /\ what = "tryInitialize" => n.pausedApp = m.pausedApp
<1> DEFINE Fine(n, i) ==
             /\ Good(n) /\ n.nodeId = m.nodeId /\ n.failed = m.failed
             /\ n.grantList = m.grantList /\ n.disableNic = m.disableNic
             /\ \A b \in S : b > i => Ready(n, b, what)
             /\ what \in Pausing =>
                  \A b \in S : b <= i => b \in n.scheduledApp \cup n.pausedApp
             /\ what = "tryInitialize" => n.pausedApp = m.pausedApp
<1>1. PICK f : Walk(f, m, S, what, NumApps) /\ ForEachApp(m, S, what) = f[NumApps]
  BY ForEachAppWalks
<1>2. NumApps \in Nat /\ Apps = 1 .. NumApps
  BY MecTypesAssumption DEF Apps
<1>3. f[0] = m
  BY <1>1, <1>2 DEF Walk
<1>4. ASSUME NEW i \in 0 .. NumApps, i # NumApps
      PROVE  f[i + 1] = IF i + 1 \in S THEN LoopBody(f[i], i + 1, what) ELSE f[i]
  <2>1. i + 1 \in 0 .. NumApps /\ i + 1 # 0 /\ (i + 1) - 1 = i
    BY <1>2, <1>4
  <2> QED BY <1>1, <2>1 DEF Walk
<1>5. Fine(f[0], 0)
  BY <1>2, <1>3
<1>6. ASSUME NEW i \in 0 .. NumApps, i # NumApps, Fine(f[i], i)
      PROVE  Fine(f[i + 1], i + 1)
  <2>1. i + 1 \in Apps
    BY <1>2, <1>6
  <2>2. CASE i + 1 \notin S
    <3>1. f[i + 1] = f[i]
      BY <1>4, <1>6, <2>2
    <3>2. \A b \in S : /\ b > i + 1 => b > i
                       /\ b <= i + 1 => b <= i
      BY <1>2, <1>6, <2>2
    <3> QED BY <1>6, <3>1, <3>2
  <2>3. CASE i + 1 \in S
    <3> DEFINE k == f[i]
               n == LoopBody(k, i + 1, what)
    <3>1. f[i + 1] = n
      BY <1>4, <1>6, <2>3
    <3>2. Ready(k, i + 1, what) /\ Good(k)
      BY <1>2, <1>6, <2>3
    <3>3. /\ Good(n) /\ Frame(k, n, i + 1)
          /\ what \in Pausing => i + 1 \in n.scheduledApp \cup n.pausedApp
          /\ what = "tryInitialize" => n.pausedApp = k.pausedApp
      BY <2>1, <3>2, LoopBodyGood
    <3> HIDE DEF n, k
    <3>4. \A b \in S : b > i + 1 => Ready(n, b, what)
      <4> TAKE b \in S
      <4> HAVE b > i + 1
      <4>1. b # i + 1 /\ b > i
        BY <1>2, <1>6
      <4>2. Ready(k, b, what)
        BY <1>6, <4>1 DEF k
      <4> QED BY <3>3, <4>1, <4>2 DEF Ready, Frame
    <3>5. what \in Pausing => \A b \in S : b <= i + 1 => b \in n.scheduledApp \cup n.pausedApp
      <4> SUFFICES ASSUME what \in Pausing, NEW b \in S, b <= i + 1
                   PROVE  b \in n.scheduledApp \cup n.pausedApp
        OBVIOUS
      <4>1. CASE b = i + 1
        BY <3>3, <4>1
      <4>2. CASE b # i + 1
        <5>1. b <= i
          BY <1>2, <1>6, <4>2
        <5>2. b \in k.scheduledApp \cup k.pausedApp
          BY <1>6, <5>1 DEF k
        <5> QED BY <3>3, <4>2, <5>2 DEF Frame
      <4> QED BY <4>1, <4>2
    <3> QED BY <1>6, <3>1, <3>3, <3>4, <3>5 DEF Frame, k
  <2> QED BY <2>2, <2>3
<1>7. \A i \in 0 .. NumApps : Fine(f[i], i)
  <2> DEFINE Ok == {i \in 0 .. NumApps : Fine(f[i], i)}
  <2> HIDE DEF Fine
  <2>1. 0 \in Ok
    BY <1>2, <1>5
  <2>2. \A i \in 0 .. NumApps : i # NumApps /\ i \in Ok => i + 1 \in Ok
    BY <1>2, <1>6
  <2> HIDE DEF Ok
  <2>3. \A i \in 0 .. NumApps : i \in Ok
    BY <1>2, <2>1, <2>2, UpTo
  <2> QED BY <2>3 DEF Ok
<1>8. Fine(f[NumApps], NumApps)
  BY <1>2, <1>7
<1> QED BY <1>1, <1>2, <1>8

\* the walk of ttiTick_ over grantList_
Drain(f, m, has, n) ==
    f = [k \in 0 .. n |->
            IF k = 0 THEN ClearGrantList(m)
            ELSE MecHandleGrantFromRsu(f[k - 1], GrantFromBack(m, k), has)]

\* the walk over grantList_ terminates with a value
LEMMA DrainExists ==
  ASSUME NEW m, NEW has
  PROVE  \A n \in Nat : \E f : Drain(f, m, has, n)
<1> DEFINE Bad == {n \in Nat : ~\E f : Drain(f, m, has, n)}
<1> SUFFICES ASSUME Bad # {} PROVE FALSE
  OBVIOUS
<1>1. PICK n \in Bad : \A k \in Bad : ~(k < n)
  BY LeastNatural
<1>2. CASE n = 0
  <2>1. Drain([k \in 0 .. 0 |-> ClearGrantList(m)], m, has, 0)
    BY DEF Drain
  <2> QED BY <2>1, <1>1, <1>2
<1>3. CASE n # 0
  <2>1. n - 1 \in Nat /\ n - 1 \notin Bad
    BY <1>1, <1>3
  <2>2. PICK f : Drain(f, m, has, n - 1)
    BY <2>1
  <2> DEFINE step == MecHandleGrantFromRsu(f[n - 1], GrantFromBack(m, n), has)
             g    == [k \in 0 .. n |-> IF k = n THEN step ELSE f[k]]
  <2>3. ASSUME NEW k \in 0 .. n
        PROVE  g[k] = IF k = 0 THEN ClearGrantList(m)
                      ELSE MecHandleGrantFromRsu(g[k - 1], GrantFromBack(m, k), has)
    <3>1. CASE k = n
      BY <3>1, <2>1, <1>3
    <3>2. CASE k # n
      BY <3>2, <2>1, <1>3, <2>2 DEF Drain
    <3> QED BY <3>1, <3>2
  <2>4. Drain(g, m, has, n)
    BY <2>3 DEF Drain
  <2> QED BY <2>4, <1>1
<1> QED BY <1>2, <1>3

\* emptying grantList_ moves no band
LEMMA ClearGrantListGood ==
  ASSUME NEW m, Good(m)
  PROVE  LET n == ClearGrantList(m)
         IN  /\ Good(n) /\ n.grantList = <<>> /\ \A a : Held(n, a) = Held(m, a)
             /\ n.nodeId = m.nodeId /\ n.failed = m.failed /\ n.disableNic = m.disableNic
             /\ n.scheduledApp = m.scheduledApp /\ n.pausedApp = m.pausedApp
             /\ n.appToBeInitialized = m.appToBeInitialized /\ n.known = m.known
<1> DEFINE n     == ClearGrantList(m)
           empty == <<>>
<1>1. m \in MacRecord
  BY DEF Good
<1>2. empty \in Seq(NicGrant) /\ n = [m EXCEPT !.grantList = empty]
  BY DEF ClearGrantList
<1> HIDE DEF n, empty
<1>3. /\ n \in MacRecord /\ n.grantList = empty
      /\ n.scheduledApp = m.scheduledApp /\ n.pausedApp = m.pausedApp
      /\ n.appToBeInitialized = m.appToBeInitialized /\ n.known = m.known
      /\ n.flexibleBands = m.flexibleBands /\ n.appGrantedRb = m.appGrantedRb
      /\ n.appTempRb = m.appTempRb /\ n.appGrantInfos = m.appGrantInfos
      /\ n.nodeId = m.nodeId /\ n.disableNic = m.disableNic /\ n.failed = m.failed
  BY <1>1, <1>2 DEF MacRecord
<1>4. Good(n) /\ \A a : Held(n, a) = Held(m, a)
  BY <1>3 DEF Good, BandsOk, BandsPartitioned, ListsOk, Held, ReadAppRbOccupation
<1> QED BY <1>3, <1>4 DEF n, empty

\* a ttiTick_ that drains a list of grants meant for this gNB
LEMMA HandleTtiTickGood ==
  ASSUME NEW m, Good(m), NEW has \in BOOLEAN,
         \A i \in DOMAIN m.grantList : m.grantList[i].offloadGnb = m.nodeId
  PROVE  LET n == HandleTtiTick(m, has)
         IN  /\ Good(n) /\ n.nodeId = m.nodeId /\ n.failed = m.failed
             /\ n.grantList = <<>> /\ n.disableNic = m.disableNic
<1> DEFINE N == Len(m.grantList)
           after[k \in 0 .. N] ==
             IF k = 0 THEN ClearGrantList(m)
             ELSE MecHandleGrantFromRsu(after[k - 1], GrantFromBack(m, k), has)
           Fine(n) == /\ Good(n) /\ n.nodeId = m.nodeId /\ n.failed = m.failed
                      /\ n.grantList = <<>> /\ n.disableNic = m.disableNic
<1>1. m.grantList \in Seq(NicGrant) /\ N \in Nat
  BY DEF Good, MacRecord
<1>2. PICK f : Drain(f, m, has, N)
  BY <1>1, DrainExists
<1>3. Drain(after, m, has, N)
  BY <1>2 DEF Drain
<1>4. HandleTtiTick(m, has) = after[N]
  BY DEF HandleTtiTick
<1> HIDE DEF after
<1>5. \A k \in 1 .. N : /\ GrantFromBack(m, k) \in NicGrant
                        /\ GrantFromBack(m, k).offloadGnb = m.nodeId
  <2> SUFFICES ASSUME NEW k \in 1 .. N
               PROVE  GrantFromBack(m, k) \in NicGrant /\ GrantFromBack(m, k).offloadGnb = m.nodeId
    OBVIOUS
  <2> DEFINE i == N + 1 - k
  <2>1. GrantFromBack(m, k) = m.grantList[i]
    BY DEF GrantFromBack
  <2> HIDE DEF N
  <2>2. i \in 1 .. N
    BY <1>1
  <2>3. i \in DOMAIN m.grantList
    BY <1>1, <2>2 DEF N
  <2> HIDE DEF i
  <2> QED BY <1>1, <2>1, <2>3
<1> HIDE DEF N
<1>6. after[0] = ClearGrantList(m)
  BY <1>1, <1>3 DEF Drain
<1>7. ASSUME NEW k \in 0 .. N, k # N, Fine(after[k])
      PROVE  Fine(after[k + 1])
  <2>1. k + 1 \in 0 .. N /\ k + 1 \in 1 .. N /\ k + 1 # 0 /\ (k + 1) - 1 = k
    BY <1>1, <1>7
  <2>2. after[k + 1] = MecHandleGrantFromRsu(after[k], GrantFromBack(m, k + 1), has)
    BY <1>3, <2>1 DEF Drain
  <2> QED BY <1>5, <1>7, <2>1, <2>2, MecHandleGrantFromRsuGood
<1>8. \A k \in 0 .. N : Fine(after[k])
  <2> DEFINE Ok == {k \in 0 .. N : Fine(after[k])}
  <2>1. Fine(after[0])
    BY <1>6, ClearGrantListGood
  <2> HIDE DEF Fine
  <2>2. 0 \in Ok
    BY <1>1, <2>1
  <2>3. \A k \in 0 .. N : k # N /\ k \in Ok => k + 1 \in Ok
    BY <1>1, <1>7
  <2> HIDE DEF Ok
  <2>4. \A k \in 0 .. N : k \in Ok
    BY <1>1, <2>2, <2>3, UpTo
  <2> QED BY <2>4 DEF Ok
<1>9. Fine(after[N])
  BY <1>1, <1>8
<1> QED BY <1>4, <1>9

-----------------------------------------------------------------------------
(* The feedback handlers are loops one after the other; each loop leaves    *)
(* the next one a Good MAC whose lists it may walk.                         *)

\* what a handler leaves alone
Same(m, n) ==
    /\ n.nodeId = m.nodeId /\ n.failed = m.failed
    /\ n.grantList = m.grantList /\ n.disableNic = m.disableNic

\* a loop over applications with grants leaves the rest alone
LEMMA ForEachAppSame ==
  ASSUME NEW m, Good(m), NEW S, S \subseteq Apps, NEW what \in Bodies,
         \A a \in S : Ready(m, a, what)
  PROVE  LET n == ForEachApp(m, S, what) IN Good(n) /\ Same(m, n)
  BY ForEachAppGood DEF Same

\* AppsOf picks from a list
LEMMA AppsOfSubset == ASSUME NEW S, NEW u PROVE AppsOf(S, u) \subseteq S
  BY DEF AppsOf

\* feedback that reached the gNB by broadcast
LEMMA BroadcastFeedbackGood ==
  ASSUME NEW m, Good(m), NEW u \in Ues, NEW rate \in Nat, NEW has \in BOOLEAN
  PROVE  LET n == BroadcastFeedback(m, u, rate, has)
         IN  Good(n) /\ Same(m, n)
<1> DEFINE new   == SetVehDataRate(m, u, rate)
           keep  == IF rate = m.vehDataRate[u] THEN "keepOrTerminate" ELSE "keepOrTerminateNewRate"
           range == AppsOf(new.scheduledApp, u)
           kept  == ForEachApp(new, range, keep)
           inits == ForEachApp(kept, kept.appToBeInitialized, "terminate")
           done  == ForEachApp(inits, inits.pausedApp, "terminate")
           told  == MecFeedbackRsuFd(done, u)
<1>1. BroadcastFeedback(m, u, rate, has) \in {told, done}
  BY DEF BroadcastFeedback
<1>2. keep \in Bodies /\ keep \in Keeping /\ "terminate" \in Bodies
  BY DEF Bodies, Keeping
<1>3. Good(new) /\ Same(m, new)
  <2>1. Good(new)
    BY SetVehDataRateGood
  <2>2. m \in MacRecord
    BY DEF Good
  <2>3. Same(m, new)
    BY <2>2 DEF Same, SetVehDataRate, MacRecord
  <2> QED BY <2>1, <2>3
<1> HIDE DEF new, keep
<1>4. range \subseteq Apps /\ \A a \in range : Ready(new, a, keep)
  <2>1. range \subseteq new.scheduledApp /\ new.scheduledApp \subseteq Apps
    BY <1>3, AppsOfSubset DEF Good, MacRecord
  <2> QED BY <1>2, <2>1 DEF Ready, Keeping, Resuming
<1> HIDE DEF range
<1>5. Good(kept) /\ Same(new, kept)
  BY <1>2, <1>3, <1>4, ForEachAppSame
<1> HIDE DEF kept
<1>6. /\ kept.appToBeInitialized \subseteq Apps
      /\ \A a \in kept.appToBeInitialized : Ready(kept, a, "terminate")
  <2>1. kept.appToBeInitialized \subseteq Apps
    BY <1>5 DEF Good, MacRecord
  <2>2. kept.appToBeInitialized \subseteq kept.known
    BY <1>5 DEF Good, ListsOk
  <2> QED BY <2>1, <2>2 DEF Ready, Keeping, Resuming
<1>7. Good(inits) /\ Same(kept, inits)
  BY <1>2, <1>5, <1>6, ForEachAppSame
<1> HIDE DEF inits
<1>8. /\ inits.pausedApp \subseteq Apps
      /\ \A a \in inits.pausedApp : Ready(inits, a, "terminate")
  <2>1. inits.pausedApp \subseteq Apps
    BY <1>7 DEF Good, MacRecord
  <2>2. inits.pausedApp \subseteq inits.known
    BY <1>7 DEF Good, ListsOk
  <2> QED BY <2>1, <2>2 DEF Ready, Keeping, Resuming
<1>9. Good(done) /\ Same(inits, done)
  BY <1>2, <1>7, <1>8, ForEachAppSame
<1> HIDE DEF done
<1>10. Good(told) /\ Same(done, told)
  <2>1. done.vehDataRate[u] \in Nat
    BY <1>9 DEF Good, MacRecord
  <2> QED BY <1>9, <2>1, RsuFdGood DEF Same, MecFeedbackRsuFd
<1> HIDE DEF told
<1> QED BY <1>1, <1>3, <1>5, <1>7, <1>9, <1>10 DEF Same

\* feedback sent to the serving gNB alone
LEMMA LocalFeedbackGood ==
  ASSUME NEW m, Good(m), NEW u \in Ues, NEW rate \in Nat
  PROVE  LET n == LocalFeedback(m, u, rate)
         IN  Good(n) /\ Same(m, n)
<1> DEFINE new    == SetVehDataRate(m, u, rate)
           active == AppsOf(new.scheduledApp, u)
           keep   == IF rate = m.vehDataRate[u] THEN "keepOrPause" ELSE "keepOrPauseNewRate"
           kept   == ForEachApp(new, active, keep)
           a2p    == active \ kept.scheduledApp
           waits  == AppsOf(kept.appToBeInitialized, u)
           inits  == ForEachApp(kept, waits, "tryInitialize")
           again  == ForEachApp(inits, a2p, "resumeOrPause")
           rest   == again.pausedApp \ a2p
           done   == ForEachApp(again, rest, "tryResume")
<1>1. LocalFeedback(m, u, rate) = done
  BY DEF LocalFeedback
<1> HIDE DEF inits, again, rest, done
<1>2. keep \in Bodies /\ keep \in Keeping /\ keep \in Pausing
  BY DEF Bodies, Keeping, Pausing
<1>i. "tryInitialize" \in Bodies
  BY DEF Bodies
<1>r. "resumeOrPause" \in Bodies /\ "tryResume" \in Bodies
  BY DEF Bodies, Resuming
<1>3. Good(new) /\ Same(m, new)
  <2>1. Good(new)
    BY SetVehDataRateGood
  <2>2. m \in MacRecord
    BY DEF Good
  <2>3. Same(m, new)
    BY <2>2 DEF Same, SetVehDataRate, MacRecord
  <2> QED BY <2>1, <2>3
<1> HIDE DEF new, keep
<1>4. active \subseteq Apps /\ \A a \in active : Ready(new, a, keep)
  <2>1. active \subseteq new.scheduledApp /\ new.scheduledApp \subseteq Apps
    BY <1>3, AppsOfSubset DEF Good, MacRecord
  <2> QED BY <1>2, <2>1 DEF Ready, Keeping, Resuming
<1> HIDE DEF active
<1>5. Good(kept) /\ Same(new, kept) /\ active \subseteq kept.scheduledApp \cup kept.pausedApp
  BY <1>2, <1>3, <1>4, ForEachAppGood DEF Same
<1> HIDE DEF kept
<1>6. a2p \subseteq Apps /\ a2p \subseteq kept.pausedApp
  BY <1>4, <1>5
<1> HIDE DEF a2p
<1>7. /\ waits \subseteq Apps
      /\ \A a \in waits : Ready(kept, a, "tryInitialize")
  <2>1. /\ waits \subseteq kept.appToBeInitialized
        /\ kept.appToBeInitialized \subseteq Apps
    BY <1>5, AppsOfSubset DEF Good, MacRecord
  <2> QED BY <2>1 DEF Ready, Keeping, Resuming
<1> HIDE DEF waits
<1>8. Good(inits) /\ Same(kept, inits) /\ inits.pausedApp = kept.pausedApp
  BY <1>i, <1>5, <1>7, ForEachAppGood DEF Same, inits
<1>9. \A a \in a2p : Ready(inits, a, "resumeOrPause")
  BY <1>6, <1>8 DEF Ready, Keeping, Resuming
<1>10. Good(again) /\ Same(inits, again)
  BY <1>r, <1>6, <1>8, <1>9, ForEachAppGood DEF Same, again
<1>11. rest \subseteq Apps /\ \A a \in rest : Ready(again, a, "tryResume")
  BY <1>10 DEF Good, MacRecord, Ready, Keeping, Resuming, rest
<1>12. Good(done) /\ Same(again, done)
  BY <1>r, <1>10, <1>11, ForEachAppGood DEF Same, done
<1> QED BY <1>1, <1>3, <1>5, <1>8, <1>10, <1>12 DEF Same

\* the reset that follows the loss of the scheduler
LEMMA MecTerminateAllGrantGood ==
  ASSUME NEW m, Good(m)
  PROVE  LET n == MecTerminateAllGrant(m)
         IN  /\ Good(n) /\ n.grantList = <<>> /\ n.nodeId = m.nodeId
             /\ n.failed = m.failed /\ n.disableNic = m.disableNic
<1> DEFINE allApps == m.scheduledApp \cup m.appToBeInitialized \cup m.pausedApp
           cleared == ClearGrantList(m)
           stopped == ForEachApp(cleared, allApps, "sendStop")
<1>1. MecTerminateAllGrant(m) = ResetRbStatus(stopped)
  BY DEF MecTerminateAllGrant
<1>2. /\ Good(cleared) /\ cleared.grantList = <<>> /\ cleared.nodeId = m.nodeId
      /\ cleared.failed = m.failed /\ cleared.disableNic = m.disableNic
      /\ allApps = cleared.scheduledApp \cup cleared.appToBeInitialized \cup cleared.pausedApp
  BY ClearGrantListGood
<1> HIDE DEF cleared, allApps, stopped
<1>3. allApps \subseteq Apps /\ \A a \in allApps : Ready(cleared, a, "sendStop")
  BY <1>2 DEF Good, MacRecord, ListsOk, Ready, Keeping, Resuming
<1>s. "sendStop" \in Bodies
  BY DEF Bodies
<1>4. Good(stopped) /\ Same(cleared, stopped)
  <2>1. Good(cleared)
    BY <1>2
  <2> QED BY <1>3, <1>s, <2>1, ForEachAppGood DEF Same, stopped
<1>5. stopped \in MacRecord
  BY <1>4 DEF Good
<1> QED BY <1>1, <1>2, <1>4, <1>5, ResetRbStatusGood DEF Same

\* handing the free bands to a scheduler that was found
LEMMA RecoverGood ==
  ASSUME NEW m, Good(m)
  PROVE  LET n == MecRecoverRsuStatus(m)
         IN  Good(n) /\ Same(m, n)
  BY RsuFdGood, 0 \in Nat DEF Same, MecRecoverRsuStatus

\* disableNic_ has no part in the bookkeeping
LEMMA DisableNicGood ==
  ASSUME NEW m, Good(m), NEW off \in BOOLEAN
  PROVE  LET n == [m EXCEPT !.disableNic = off]
         IN  /\ Good(n) /\ n.grantList = m.grantList
             /\ n.nodeId = m.nodeId /\ n.failed = m.failed
<1> DEFINE n == [m EXCEPT !.disableNic = off]
<1>1. m \in MacRecord
  BY DEF Good
<1>2. /\ n \in MacRecord
      /\ n.scheduledApp = m.scheduledApp /\ n.pausedApp = m.pausedApp
      /\ n.appToBeInitialized = m.appToBeInitialized /\ n.known = m.known
      /\ n.flexibleBands = m.flexibleBands /\ n.appGrantedRb = m.appGrantedRb
      /\ n.appTempRb = m.appTempRb /\ n.appGrantInfos = m.appGrantInfos
      /\ n.nodeId = m.nodeId /\ n.failed = m.failed /\ n.grantList = m.grantList
  BY <1>1 DEF MacRecord
<1> HIDE DEF n
<1>3. Good(n)
  BY <1>2 DEF Good, BandsOk, BandsPartitioned, ListsOk, Held, ReadAppRbOccupation
<1> QED BY <1>2, <1>3 DEF n

-----------------------------------------------------------------------------
(* The inductive invariant.  The four invariants the runs check are not     *)
(* inductive alone: that a loop finds its applications where it looks for   *)
(* them needs the lists and the grants to agree, and that terminating an    *)
(* application empties its grant needs the sets of a grant to be part of    *)
(* the two maps.                                                            *)

Settled(g, m) ==
    /\ Good(m)
    /\ m.nodeId = g
    /\ m.out = <<>>
    /\ ~m.failed
    /\ \A i \in DOMAIN m.grantList : m.grantList[i].offloadGnb = g

IInv ==
    /\ hasScheduler \in [Gnbs -> BOOLEAN]
    /\ mac \in [Gnbs -> MacRecord]
    /\ \A g \in Gnbs : Settled(g, mac[g])

\* the state initialize() leaves
LEMMA InitialMacSettled ==
  ASSUME NEW g \in Gnbs
  PROVE  Settled(g, InitialMac(g))
<1> DEFINE rates == [u \in Ues |-> 0]
           rbs   == [a \in Apps |-> {}]
           infos == [a \in Apps |-> DefaultInfo]
           empty == <<>>
           base  == [nodeId |-> g, disableNic |-> FALSE, grantList |-> empty,
                     scheduledApp |-> {}, pausedApp |-> {}, appToBeInitialized |-> {},
                     vehDataRate |-> empty, appGrantedRb |-> empty, appTempRb |-> empty,
                     flexibleBands |-> {}, appGrantInfos |-> empty, known |-> {},
                     out |-> empty, failed |-> FALSE]
           reset == [base EXCEPT
                       !.scheduledApp = {}, !.pausedApp = {}, !.appToBeInitialized = {},
                       !.vehDataRate = rates, !.appGrantedRb = rbs, !.appTempRb = rbs,
                       !.flexibleBands = Bands, !.appGrantInfos = infos, !.known = {}]
           n     == InitialMac(g)
<1>1. n = [nodeId |-> g, disableNic |-> FALSE, grantList |-> empty,
           scheduledApp |-> {}, pausedApp |-> {}, appToBeInitialized |-> {},
           vehDataRate |-> rates, appGrantedRb |-> rbs, appTempRb |-> rbs,
           flexibleBands |-> Bands, appGrantInfos |-> infos, known |-> {},
           out |-> empty, failed |-> FALSE]
  <2>1. n = reset
    BY DEF InitialMac, ResetRbStatus
  <2> HIDE DEF rates, rbs, infos, empty, n
  <2> QED BY <2>1
<1>2. /\ rates \in [Ues -> Nat] /\ rbs \in [Apps -> SUBSET Bands]
      /\ infos \in [Apps -> AppGrantInfo]
  BY DEF AppGrantInfo, DefaultInfo
<1>3. /\ \A a \in Apps : rbs[a] = {} /\ infos[a] = DefaultInfo
      /\ empty \in Seq(NicGrant) /\ empty \in Seq(Message) /\ DOMAIN empty = {}
  OBVIOUS
<1> HIDE DEF rates, rbs, infos, n, empty
<1>4. /\ n \in MacRecord
      /\ n.scheduledApp = {} /\ n.pausedApp = {} /\ n.appToBeInitialized = {} /\ n.known = {}
      /\ n.flexibleBands = Bands /\ n.appGrantedRb = rbs /\ n.appTempRb = rbs
      /\ n.appGrantInfos = infos /\ n.nodeId = g /\ n.out = empty
      /\ n.grantList = empty /\ ~n.failed
  BY <1>1, <1>2, <1>3 DEF MacRecord
<1>5. BandsOk(n) /\ ListsOk(n)
  <2>1. \A a \in Apps : Held(n, a) = {} /\ n.appGrantedRb[a] = {}
    BY <1>3, <1>4 DEF Held, ReadAppRbOccupation
  <2>2. BandsPartitioned(n)
    BY <1>4, <2>1 DEF BandsPartitioned
  <2>3. \A a \in Apps : /\ n.appGrantInfos[a].grantedBandSet = {}
                        /\ n.appGrantInfos[a].tempBands = {}
    BY <1>3, <1>4 DEF DefaultInfo
  <2> QED BY <1>4, <2>1, <2>2, <2>3 DEF BandsOk, ListsOk
<1> QED BY <1>3, <1>4, <1>5 DEF Good, Settled, n, empty

\* the initial state satisfies the invariant
LEMMA InitIInv == Init => IInv
<1> SUFFICES ASSUME Init PROVE IInv
  OBVIOUS
<1>1. \A g \in Gnbs : mac[g] = InitialMac(g) /\ Settled(g, mac[g])
  BY InitialMacSettled DEF Init
<1>2. \A g \in Gnbs : mac[g] \in MacRecord
  BY <1>1 DEF Settled, Good
<1> QED BY <1>1, <1>2 DEF Init, IInv

\* a handler that leaves a Good MAC leaves the invariant
LEMMA PerformSettled ==
  ASSUME IInv, NEW g \in Gnbs, NEW h, Good(h), h.nodeId = g, ~h.failed,
         \A i \in DOMAIN h.grantList : h.grantList[i].offloadGnb = g,
         Perform(g, h), hasScheduler' \in [Gnbs -> BOOLEAN]
  PROVE  IInv'
<1> DEFINE empty == <<>>
           n     == [h EXCEPT !.out = empty]
<1>1. h \in MacRecord /\ empty \in Seq(Message)
  BY DEF Good
<1>2. mac' = [mac EXCEPT ![g] = n]
  BY DEF Perform
<1>3. /\ n \in MacRecord /\ n.out = empty
      /\ n.scheduledApp = h.scheduledApp /\ n.pausedApp = h.pausedApp
      /\ n.appToBeInitialized = h.appToBeInitialized /\ n.known = h.known
      /\ n.flexibleBands = h.flexibleBands /\ n.appGrantedRb = h.appGrantedRb
      /\ n.appTempRb = h.appTempRb /\ n.appGrantInfos = h.appGrantInfos
      /\ n.nodeId = h.nodeId /\ n.failed = h.failed /\ n.grantList = h.grantList
  <2> HIDE DEF empty
  <2> QED BY <1>1 DEF MacRecord
<1> HIDE DEF n
<1>4. Good(n)
  BY <1>3 DEF Good, BandsOk, BandsPartitioned, ListsOk, Held, ReadAppRbOccupation
<1>5. Settled(g, n)
  BY <1>3, <1>4 DEF Settled
<1>6. /\ mac' \in [Gnbs -> MacRecord]
      /\ \A k \in Gnbs : mac'[k] = IF k = g THEN n ELSE mac[k]
  BY <1>2, <1>3 DEF IInv
<1>7. \A k \in Gnbs : Settled(k, mac[k])'
  <2> TAKE k \in Gnbs
  <2>1. Settled(k, mac'[k])
    BY <1>5, <1>6 DEF IInv
  <2> QED BY <2>1 DEF Settled, Good, BandsOk, BandsPartitioned, ListsOk, Held, ReadAppRbOccupation
<1> QED BY <1>6, <1>7 DEF IInv

\* every step preserves the invariant, one step per action
LEMMA NextIInv == IInv /\ [Next]_vars => IInv'
<1> SUFFICES ASSUME IInv, [Next]_vars PROVE IInv'
  OBVIOUS
<1> USE DEF Running
<1>1. ASSUME NEW g \in Gnbs
      PROVE  /\ Good(mac[g]) /\ mac[g] \in MacRecord /\ mac[g].nodeId = g /\ hasScheduler[g] \in BOOLEAN
             /\ \A i \in DOMAIN mac[g].grantList : mac[g].grantList[i].offloadGnb = mac[g].nodeId
  BY <1>1 DEF IInv, Settled, Good
<1>2. ASSUME NEW g \in Gnbs, NEW grant \in ServerGrants(g), ReceiveNicGrant(g, grant)
      PROVE  IInv'
  <2> DEFINE m    == mac[g]
             list == Append(m.grantList, grant)
             n    == [m EXCEPT !.grantList = list]
  <2>1. grant \in NicGrant /\ grant.offloadGnb = g
    <3>1. CASE grant \in [app : Apps, stop : {FALSE}, bands : Asks, load : Loads,
                          processGnb : Gnbs, offloadGnb : {g}]
      <4>1. /\ grant.app \in Apps /\ grant.stop \in BOOLEAN /\ grant.bands \in Asks
            /\ grant.load \in Loads /\ grant.processGnb \in Gnbs /\ grant.offloadGnb = g
            /\ grant = [app |-> grant.app, stop |-> grant.stop, bands |-> grant.bands,
                        load |-> grant.load, processGnb |-> grant.processGnb,
                        offloadGnb |-> grant.offloadGnb]
        BY <3>1
      <4>2. grant.bands \in Nat /\ grant.load \in Nat
        BY <4>1, GnbMacAssumption
      <4> QED BY <4>1, <4>2 DEF NicGrant
    <3>2. CASE grant \in [app : Apps, stop : {TRUE}, bands : {0}, load : {0},
                          processGnb : Gnbs, offloadGnb : {g}]
      <4>1. /\ grant.app \in Apps /\ grant.stop \in BOOLEAN /\ grant.bands = 0
            /\ grant.load = 0 /\ grant.processGnb \in Gnbs /\ grant.offloadGnb = g
            /\ grant = [app |-> grant.app, stop |-> grant.stop, bands |-> grant.bands,
                        load |-> grant.load, processGnb |-> grant.processGnb,
                        offloadGnb |-> grant.offloadGnb]
        BY <3>2
      <4> QED BY <4>1 DEF NicGrant
    <3> QED BY <3>1, <3>2 DEF ServerGrants
  <2>2. m.grantList \in Seq(NicGrant)
    BY <1>1 DEF MacRecord
  <2> HIDE DEF m
  <2>3. /\ list \in Seq(NicGrant)
        /\ \A i \in DOMAIN list : \/ i \in DOMAIN m.grantList /\ list[i] = m.grantList[i]
                                  \/ list[i] = grant
    BY <2>1, <2>2
  <2>4. \A i \in DOMAIN list : list[i].offloadGnb = g
    BY <1>1, <2>1, <2>3 DEF m
  <2> HIDE DEF list
  <2>5. m \in MacRecord
    BY <1>1 DEF m
  <2>6. /\ n \in MacRecord /\ n.grantList = list
        /\ n.scheduledApp = m.scheduledApp /\ n.pausedApp = m.pausedApp
        /\ n.appToBeInitialized = m.appToBeInitialized /\ n.known = m.known
        /\ n.flexibleBands = m.flexibleBands /\ n.appGrantedRb = m.appGrantedRb
        /\ n.appTempRb = m.appTempRb /\ n.appGrantInfos = m.appGrantInfos
        /\ n.nodeId = m.nodeId /\ n.failed = m.failed
    BY <2>3, <2>5 DEF MacRecord
  <2>7. Perform(g, n) /\ hasScheduler' = hasScheduler
    BY <1>2 DEF ReceiveNicGrant, n, m, list
  <2> HIDE DEF n
  <2>8. Good(n)
    BY <1>1, <2>6 DEF m, Good, BandsOk, BandsPartitioned, ListsOk, Held, ReadAppRbOccupation
  <2>9. n.nodeId = g /\ ~n.failed
    BY <1>1, <1>2, <2>6 DEF m, ReceiveNicGrant
  <2>10. hasScheduler' \in [Gnbs -> BOOLEAN]
    BY <2>7 DEF IInv
  <2>11. \A i \in DOMAIN n.grantList : n.grantList[i].offloadGnb = g
    BY <2>4, <2>6
  <2> QED BY <2>7, <2>8, <2>9, <2>10, <2>11, PerformSettled
<1>3. ASSUME NEW g \in Gnbs, TtiTick(g)
      PROVE  IInv'
  <2> DEFINE n == HandleTtiTick(mac[g], hasScheduler[g])
  <2>1. Perform(g, n) /\ hasScheduler' = hasScheduler /\ ~mac[g].failed
    BY <1>3 DEF TtiTick
  <2> HIDE DEF n
  <2>2. /\ Good(n) /\ n.nodeId = mac[g].nodeId /\ n.failed = mac[g].failed
        /\ n.grantList = <<>>
    BY <1>1, HandleTtiTickGood DEF n
  <2>3. hasScheduler' \in [Gnbs -> BOOLEAN] /\ n.nodeId = g
    BY <1>1, <2>1, <2>2 DEF IInv
  <2>4. \A i \in DOMAIN n.grantList : n.grantList[i].offloadGnb = g
    BY <2>2
  <2> QED BY <2>1, <2>2, <2>3, <2>4, PerformSettled
<1>4. ASSUME NEW g \in Gnbs, NEW u \in Ues, NEW rate \in Rates, NEW b \in BOOLEAN,
             ReceiveFeedback(g, u, rate, b)
      PROVE  IInv'
  <2> DEFINE m == mac[g]
             n == MecFeedbackRsuStatus(m, u, rate, b, hasScheduler[g])
  <2>1. Perform(g, n) /\ hasScheduler' = hasScheduler /\ ~m.failed
    BY <1>4 DEF ReceiveFeedback
  <2>2. rate \in Nat
    BY GnbMacAssumption
  <2>3. n \in {BroadcastFeedback(m, u, rate, hasScheduler[g]), LocalFeedback(m, u, rate)}
    BY DEF MecFeedbackRsuStatus
  <2> HIDE DEF n
  <2>4. Good(n) /\ Same(m, n)
    BY <1>1, <2>2, <2>3, BroadcastFeedbackGood, LocalFeedbackGood
  <2>5. hasScheduler' \in [Gnbs -> BOOLEAN] /\ n.nodeId = g /\ ~n.failed
    BY <1>1, <2>1, <2>4 DEF IInv, Same
  <2>6. \A i \in DOMAIN n.grantList : n.grantList[i].offloadGnb = g
    BY <1>1, <2>4 DEF Same
  <2> QED BY <2>1, <2>4, <2>5, <2>6, PerformSettled
<1>5. ASSUME NEW g \in Gnbs, LoseScheduler(g)
      PROVE  IInv'
  <2> DEFINE n == MecTerminateAllGrant(mac[g])
  <2>1. /\ Perform(g, n) /\ hasScheduler' = [hasScheduler EXCEPT ![g] = FALSE] /\ ~mac[g].failed
    BY <1>5 DEF LoseScheduler
  <2> HIDE DEF n
  <2>2. Good(n) /\ n.grantList = <<>> /\ n.nodeId = g /\ ~n.failed
    BY <1>1, <2>1, MecTerminateAllGrantGood DEF n
  <2>3. hasScheduler' \in [Gnbs -> BOOLEAN]
    BY <2>1 DEF IInv
  <2>4. \A i \in DOMAIN n.grantList : n.grantList[i].offloadGnb = g
    BY <2>2
  <2> QED BY <2>1, <2>2, <2>3, <2>4, PerformSettled
<1>6. ASSUME NEW g \in Gnbs, FindScheduler(g)
      PROVE  IInv'
  <2> DEFINE n == MecRecoverRsuStatus(mac[g])
  <2>1. /\ Perform(g, n) /\ hasScheduler' = [hasScheduler EXCEPT ![g] = TRUE] /\ ~mac[g].failed
    BY <1>6 DEF FindScheduler
  <2> HIDE DEF n
  <2>2. Good(n) /\ Same(mac[g], n)
    BY <1>1, RecoverGood DEF n
  <2>3. hasScheduler' \in [Gnbs -> BOOLEAN] /\ n.nodeId = g /\ ~n.failed
    BY <1>1, <2>1, <2>2 DEF IInv, Same
  <2>4. \A i \in DOMAIN n.grantList : n.grantList[i].offloadGnb = g
    BY <1>1, <2>2 DEF Same
  <2> QED BY <2>1, <2>2, <2>3, <2>4, PerformSettled
<1>7. ASSUME NEW g \in Gnbs, NodeDown(g)
      PROVE  IInv'
  <2> DEFINE m == MecTerminateAllGrant(mac[g])
             n == [m EXCEPT !.disableNic = TRUE]
  <2>1. /\ Perform(g, n) /\ hasScheduler' = [hasScheduler EXCEPT ![g] = FALSE] /\ ~mac[g].failed
    BY <1>7 DEF NodeDown
  <2> HIDE DEF m
  <2>2. Good(m) /\ m.grantList = <<>> /\ m.nodeId = g /\ ~m.failed
    BY <1>1, <2>1, MecTerminateAllGrantGood DEF m
  <2>3. Good(n) /\ n.grantList = m.grantList /\ n.nodeId = m.nodeId /\ n.failed = m.failed
    BY <2>2, DisableNicGood
  <2> HIDE DEF n
  <2>4. hasScheduler' \in [Gnbs -> BOOLEAN]
    BY <2>1 DEF IInv
  <2>5. \A i \in DOMAIN n.grantList : n.grantList[i].offloadGnb = g
    BY <2>2, <2>3
  <2> QED BY <2>1, <2>2, <2>3, <2>4, <2>5, PerformSettled
<1>8. ASSUME NEW g \in Gnbs, NodeUp(g)
      PROVE  IInv'
  <2> DEFINE m == mac[g]
             n == [m EXCEPT !.disableNic = FALSE]
  <2>1. Perform(g, n) /\ hasScheduler' = hasScheduler /\ ~m.failed
    BY <1>8 DEF NodeUp
  <2>2. Good(n) /\ n.grantList = m.grantList /\ n.nodeId = m.nodeId /\ n.failed = m.failed
    BY <1>1, DisableNicGood
  <2> HIDE DEF n
  <2>3. hasScheduler' \in [Gnbs -> BOOLEAN] /\ n.nodeId = g /\ ~n.failed
    BY <1>1, <2>1, <2>2 DEF IInv
  <2>4. \A i \in DOMAIN n.grantList : n.grantList[i].offloadGnb = g
    BY <1>1, <2>2
  <2> QED BY <2>1, <2>2, <2>3, <2>4, PerformSettled
<1>9. CASE UNCHANGED vars
  <2>1. mac' = mac /\ hasScheduler' = hasScheduler
    BY <1>9 DEF vars
  <2> QED BY <2>1 DEF IInv, Settled, Good, BandsOk, BandsPartitioned, ListsOk, Held, ReadAppRbOccupation
<1> QED BY <1>2, <1>3, <1>4, <1>5, <1>6, <1>7, <1>8, <1>9 DEF Next

(* The invariant the theorems rest on holds in every reachable state.       *)
THEOREM InductiveInvariant == Spec => []IInv
<1>1. Init => IInv
  BY InitIInv
<1>2. IInv /\ [Next]_vars => IInv'
  BY NextIInv
<1> QED BY <1>1, <1>2, PTL DEF Spec

-----------------------------------------------------------------------------
(* What the invariant gives.                                                *)

(* Types: every variable keeps its shape, whatever happens.                 *)
THEOREM TypeCorrect == Spec => []TypeOK
<1>1. IInv => TypeOK
  <2> SUFFICES ASSUME IInv, NEW g \in Gnbs PROVE mac[g] \in MacState(g)
    BY DEF TypeOK, IInv
  <2>1. mac[g] \in MacRecord /\ mac[g].nodeId = g /\ mac[g].out = <<>>
    BY DEF IInv, Settled
  <2> DEFINE empty == <<>>
  <2> HIDE DEF empty
  <2>2. mac[g].out = empty
    BY <2>1 DEF empty
  <2>3. MacState(g) =
          [nodeId : {g}, disableNic : BOOLEAN, grantList : Seq(NicGrant),
           scheduledApp : SUBSET Apps, pausedApp : SUBSET Apps,
           appToBeInitialized : SUBSET Apps, vehDataRate : [Ues -> Nat],
           appGrantedRb : [Apps -> SUBSET Bands], appTempRb : [Apps -> SUBSET Bands],
           flexibleBands : SUBSET Bands, appGrantInfos : [Apps -> AppGrantInfo],
           known : SUBSET Apps, out : {empty}, failed : BOOLEAN]
    BY DEF MacState, empty
  <2> QED BY <2>1, <2>2, <2>3 DEF MacRecord
<1> QED BY <1>1, InductiveInvariant, PTL

(* Every band of a base station is free or held by one application.         *)
THEOREM BandsStayPartitioned == Spec => []BandPartition
<1>1. IInv => BandPartition
  BY DEF IInv, Settled, Good, BandsOk, BandPartition
<1> QED BY <1>1, InductiveInvariant, PTL

(* An application that holds bands is scheduled or paused.                  *)
THEOREM NoBandLeaks == Spec => []NoLeakedBand
<1>1. IInv => NoLeakedBand
  BY DEF IInv, Settled, Good, ListsOk, NoLeakedBand
<1> QED BY <1>1, InductiveInvariant, PTL

(* An application in one of the three lists has the grant a server sent.    *)
THEOREM ListsAndGrantsAgree == Spec => []ListedAppsHaveGrants
<1>1. IInv => ListedAppsHaveGrants
  BY DEF IInv, Settled, Good, ListsOk, ListedAppsHaveGrants
<1> QED BY <1>1, InductiveInvariant, PTL

(* No handler throws cRuntimeError.                                         *)
THEOREM NeverThrows == Spec => []NoRuntimeError
<1>1. IInv => NoRuntimeError
  BY DEF IInv, Settled, NoRuntimeError
<1> QED BY <1>1, InductiveInvariant, PTL

-----------------------------------------------------------------------------
(* What the handlers of a MAC do to the applications they are not about,   *)
(* what they leave the scheduled ones, and what they report last.  Each    *)
(* method gets three more facts: it leaves the bands, the grant and the    *)
(* rate of the other applications alone (Apart); its own application is    *)
(* served if it is scheduled (Served); and a report made last carries the  *)
(* bands that are free (Honest), or no report is made (Silent).  The loops *)
(* and the handlers follow in the order of the first part.                 *)

-----------------------------------------------------------------------------
(* Numbers.                                                                 *)

\* the rounded division of getMinimumRequiredBands gives enough bands
LEMMA EnoughBands ==
  ASSUME NEW load \in Nat, NEW r \in Nat, r > 0, NEW n \in Nat,
         (load + r - 1) \div r <= n
  PROVE  load <= r * n
<1> DEFINE q == (load + r - 1) \div r
<1>1. q \in Int /\ load + r - 1 < r * (q + 1)
  OBVIOUS
<1>2. load <= r * q
  BY <1>1
<1>3. r * q <= r * n
  BY <1>1
<1> QED BY <1>1, <1>2, <1>3

\* and never asks for a negative number
LEMMA RequiredNatural ==
  ASSUME NEW load \in Nat, NEW r \in Nat, r > 0
  PROVE  (load + r - 1) \div r \in Nat
  OBVIOUS

\* a part of the bands is not more than the whole
LEMMA PartOfBands ==
  ASSUME NEW S, NEW T, S \subseteq Bands, T \subseteq S
  PROVE  Cardinality(T) \in Nat /\ Cardinality(S) \in Nat /\ Cardinality(T) <= Cardinality(S)
<1>1. IsFiniteSet(Bands)
  BY FS_Interval, RbManagerUlAssumption DEF Bands
<1>2. IsFiniteSet(S)
  BY <1>1, FS_Subset
<1> QED BY <1>2, FS_Subset, FS_CardinalityType

\* n steps of an iterator over at least n bands visit n of them
LEMMA FirstBandsCount ==
  ASSUME NEW S, S \subseteq Bands, NEW n \in Nat, n <= Cardinality(S)
  PROVE  Cardinality(FirstBands(S, n)) = n
<1> DEFINE N       == Cardinality(S)
           upTo(b) == {c \in S : c <= b}
           Ok      == {k \in 0 .. N : Cardinality(FirstBands(S, k)) = k}
<1>1. S \subseteq Nat /\ IsFiniteSet(S) /\ N \in Nat
  <2>1. IsFiniteSet(Bands) /\ Bands \subseteq Nat
    BY FS_Interval, RbManagerUlAssumption DEF Bands
  <2>2. IsFiniteSet(S)
    BY <2>1, FS_Subset
  <2> QED BY <2>1, <2>2, FS_CardinalityType
<1>2. \A b \in S : /\ IsFiniteSet(upTo(b)) /\ Cardinality(upTo(b)) \in Nat
                   /\ b \in upTo(b) /\ Cardinality(upTo(b)) # 0
  <2> TAKE b \in S
  <2>1. upTo(b) \subseteq S /\ b \in upTo(b)
    BY <1>1
  <2>2. IsFiniteSet(upTo(b))
    BY <1>1, <2>1, FS_Subset
  <2> HIDE DEF upTo
  <2> QED BY <2>1, <2>2, FS_CardinalityType, FS_EmptySet
<1>o. \A b, c \in S : ~(c <= b) => upTo(b) \subseteq upTo(c)
  <2> SUFFICES ASSUME NEW b \in S, NEW c \in S, ~(c <= b), NEW d \in S, d <= b
               PROVE  d <= c
    OBVIOUS
  <2>1. b \in Nat /\ c \in Nat /\ d \in Nat
    BY <1>1
  <2> HIDE DEF upTo
  <2> QED BY <2>1
<1>3. 0 \in Ok
  <2>1. FirstBands(S, 0) = {}
    BY <1>2 DEF FirstBands
  <2> QED BY <1>1, <2>1, FS_EmptySet
<1>4. ASSUME NEW k \in 0 .. N, k # N, k \in Ok
      PROVE  k + 1 \in Ok
  <2> DEFINE F == FirstBands(S, k)
             G == FirstBands(S, k + 1)
  <2>1. F \subseteq S /\ IsFiniteSet(F) /\ Cardinality(F) = k /\ k \in Nat
    BY <1>1, <1>4, FirstBandsSubset, FS_Subset
  <2>2. S \ F # {}
    BY <1>1, <1>4, <2>1
  <2>3. PICK b \in S \ F : \A c \in S \ F : ~(c < b)
    BY <1>1, <2>2, LeastNatural
  <2>4. upTo(b) = F \cup {b}
    <3>1. ASSUME NEW c \in upTo(b), c # b PROVE c \in F
      BY <1>1, <2>3, <3>1
    <3>2. ASSUME NEW c \in F PROVE c \in upTo(b)
      <4> SUFFICES ASSUME ~(c <= b) PROVE FALSE
        BY <2>1
      <4>1. c \in S
        BY <2>1
      <4>5. upTo(b) \subseteq upTo(c)
        <5> HIDE DEF upTo, F
        <5> QED BY <1>o, <2>3, <4>1
      <4>2. Cardinality(upTo(b)) <= Cardinality(upTo(c))
        <5>1. IsFiniteSet(upTo(c))
          BY <1>2, <4>1
        <5> HIDE DEF upTo
        <5> QED BY <4>5, <5>1, FS_Subset
      <4>3. Cardinality(upTo(c)) <= k
        BY DEF FirstBands
      <4>4. b \in F
        BY <1>2, <2>1, <2>3, <4>1, <4>2, <4>3 DEF FirstBands
      <4> QED BY <2>3, <4>4
    <3>3. b \in upTo(b)
      BY <1>2, <2>3
    <3> HIDE DEF upTo
    <3> QED BY <3>1, <3>2, <3>3
  <2>5. Cardinality(F \cup {b}) = k + 1 /\ IsFiniteSet(F \cup {b})
    BY <2>1, <2>3, FS_AddElement
  <2>6. b \in G
    <3>1. Cardinality(upTo(b)) = k + 1
      BY <2>4, <2>5
    <3> QED BY <2>1, <2>3, <3>1 DEF FirstBands
  <2>7. F \subseteq G
    BY <1>2, <2>1 DEF FirstBands
  <2>8. ASSUME NEW c \in G, c \notin F \cup {b} PROVE FALSE
    <3>1. c \in S /\ Cardinality(upTo(c)) <= k + 1
      BY DEF FirstBands
    <3>2. b < c
      BY <1>1, <2>3, <2>8, <3>1
    <3>3. F \cup {b} \cup {c} \subseteq upTo(c)
      <4>0. ~(c <= b)
        BY <1>1, <2>3, <3>1, <3>2
      <4>1. upTo(b) \subseteq upTo(c) /\ c \in upTo(c)
        <5> HIDE DEF upTo, F
        <5> QED BY <1>2, <1>o, <2>3, <3>1, <4>0
      <4> HIDE DEF upTo
      <4> QED BY <2>4, <4>1
    <3>4. Cardinality(F \cup {b} \cup {c}) = k + 2
      <4>1. Cardinality((F \cup {b}) \cup {c}) = Cardinality(F \cup {b}) + 1
        BY <2>5, <2>8, FS_AddElement
      <4> QED BY <2>1, <2>5, <4>1
    <3>5. Cardinality(F \cup {b} \cup {c}) <= Cardinality(upTo(c))
      BY <1>2, <3>1, <3>3, FS_Subset
    <3> QED BY <1>2, <2>1, <3>1, <3>4, <3>5
  <2>9. G = F \cup {b}
    BY <2>6, <2>7, <2>8
  <2> QED BY <1>1, <1>4, <2>5, <2>9
<1> HIDE DEF Ok
<1>5. \A k \in 0 .. N : k \in Ok
  BY <1>1, <1>3, <1>4, UpTo
<1> QED BY <1>1, <1>5 DEF Ok

-----------------------------------------------------------------------------
(* What a method called for a leaves alone and leaves behind.               *)

\* the bands, the grants and the rates of the other applications
Apart(m, n, a) ==
    /\ n.vehDataRate = m.vehDataRate
    /\ \A b \in Apps \ {a} : /\ n.appGrantedRb[b] = m.appGrantedRb[b]
                             /\ n.appTempRb[b] = m.appTempRb[b]
                             /\ n.appGrantInfos[b] = m.appGrantInfos[b]

\* ScheduledIsServed, of one application
Served(m, a) ==
    a \in m.scheduledApp \ m.appToBeInitialized =>
        /\ GetVehDataRate(m, a) > 0
        /\ m.appGrantInfos[a].load <= GetVehDataRate(m, a) * Cardinality(Held(m, a))

Reports(q) == {i \in DOMAIN q : q[i].type \in {"SrvFD", "RsuFD"}}

\* the last report a handler has sent so far is true, or it has sent none
Honest(m) ==
    Reports(m.out) # {} => m.out[Last(Reports(m.out))].availBand = GetAvailableBands(m)

Silent(m) == Reports(m.out) = {}

\* two methods called for one application, one after the other
LEMMA ApartTransitive ==
  ASSUME NEW k, NEW m, NEW n, NEW a, Apart(k, m, a), Apart(m, n, a)
  PROVE  Apart(k, n, a)
  BY DEF Apart

\* what is left alone stays served
LEMMA OthersStayServed ==
  ASSUME NEW m, NEW n, NEW a \in Apps, NEW b \in Apps \ {a},
         Frame(m, n, a), Apart(m, n, a), Served(m, b)
  PROVE  Served(n, b)
<1>1. Held(n, b) = Held(m, b) /\ GetVehDataRate(n, b) = GetVehDataRate(m, b)
  BY DEF Apart, Held, ReadAppRbOccupation, GetVehDataRate
<1>2. /\ b \in n.scheduledApp <=> b \in m.scheduledApp
      /\ b \in n.appToBeInitialized <=> b \in m.appToBeInitialized
  BY DEF Frame
<1> QED BY <1>1, <1>2 DEF Served, Apart

\* enough granted bands serve an application
LEMMA EnoughServes ==
  ASSUME NEW m, Good(m), NEW a \in Apps, GetVehDataRate(m, a) > 0,
         NEW F, F \subseteq Held(m, a), GetMinimumRequiredBands(m, a) <= Cardinality(F)
  PROVE  Served(m, a)
<1> DEFINE load == m.appGrantInfos[a].load
           rate == GetVehDataRate(m, a)
<1>1. m \in MacRecord
  BY DEF Good
<1>2. load \in Nat /\ rate \in Nat /\ Held(m, a) \subseteq Bands
  BY <1>1, AllocatedBandsNat DEF MacRecord, AppGrantInfo, Held, ReadAppRbOccupation
<1>3. /\ Cardinality(F) \in Nat /\ Cardinality(Held(m, a)) \in Nat
      /\ Cardinality(F) <= Cardinality(Held(m, a))
  BY <1>2, PartOfBands
<1>4. (load + rate - 1) \div rate <= Cardinality(F)
  BY DEF GetMinimumRequiredBands
<1>5. (load + rate - 1) \div rate \in Nat
  BY <1>2, RequiredNatural
<1> HIDE DEF load, rate
<1>6. (load + rate - 1) \div rate <= Cardinality(Held(m, a))
  BY <1>3, <1>4, <1>5
<1>7. load <= rate * Cardinality(Held(m, a))
  <2>1. rate > 0
    BY DEF rate
  <2> QED BY <1>2, <1>3, <1>6, <2>1, EnoughBands
<1> QED BY <1>7 DEF Served, load, rate

-----------------------------------------------------------------------------
(* Messages.                                                                *)

\* the last message of a sequence, after one more
LEMMA LastOfReports ==
  ASSUME NEW S, NEW q \in Seq(S), NEW msg
  PROVE  LET r == Append(q, msg)
         IN  /\ msg.type \in {"SrvFD", "RsuFD"} =>
                   Reports(r) # {} /\ r[Last(Reports(r))] = msg
             /\ msg.type \notin {"SrvFD", "RsuFD"} =>
                   /\ Reports(r) = Reports(q)
                   /\ Reports(q) # {} => r[Last(Reports(r))] = q[Last(Reports(q))]
<1> DEFINE r == Append(q, msg)
           L == Len(q)
<1>1. /\ L \in Nat /\ DOMAIN q = 1 .. L /\ DOMAIN r = 1 .. L + 1
      /\ r[L + 1] = msg /\ \A i \in 1 .. L : r[i] = q[i]
  <2>1. L \in Nat /\ DOMAIN q = 1 .. L
    OBVIOUS
  <2>2. DOMAIN r = 1 .. L + 1 /\ \A i \in 1 .. L + 1 : r[i] = IF i = L + 1 THEN msg ELSE q[i]
    <3> DEFINE T == S \cup {msg}
    <3>1. q \in Seq(T) /\ msg \in T
      OBVIOUS
    <3> HIDE DEF T
    <3> QED BY <3>1
  <2> QED BY <2>1, <2>2
<1> HIDE DEF r, L
<1>2. CASE msg.type \in {"SrvFD", "RsuFD"}
  <2>1. L + 1 \in Reports(r) /\ \A i \in Reports(r) : i <= L + 1
    BY <1>1, <1>2 DEF Reports
  <2>2. \A i \in Reports(r) : i \in Int
    BY <1>1 DEF Reports
  <2>3. Last(Reports(r)) = L + 1
    <3>1. \A i \in Reports(r) : (\A j \in Reports(r) : j <= i) => i = L + 1
      BY <1>1, <2>1, <2>2
    <3> QED BY <2>1, <3>1 DEF Last
  <2> QED BY <1>1, <1>2, <2>1, <2>3 DEF r
<1>3. CASE msg.type \notin {"SrvFD", "RsuFD"}
  <2>1. Reports(r) = Reports(q)
    BY <1>1, <1>3 DEF Reports
  <2>2. ASSUME Reports(q) # {}
        PROVE  Last(Reports(q)) \in 1 .. L
    <3>1. \E i \in Reports(q) : \A j \in Reports(q) : j <= i
      <4>1. IsFiniteSet(Reports(q)) /\ Reports(q) \subseteq Int
        <5>1. Reports(q) \subseteq 1 .. L /\ IsFiniteSet(1 .. L)
          BY <1>1, FS_Interval DEF Reports
        <5> QED BY <1>1, <5>1, FS_Subset
      <4>2. \A j \in Reports(q) : L - j \in Nat
        BY <1>1 DEF Reports
      <4>3. PICK d \in {L - j : j \in Reports(q)} :
                \A e \in {L - j : j \in Reports(q)} : ~(e < d)
        <5>1. {L - j : j \in Reports(q)} \subseteq Nat
          BY <4>2
        <5>2. {L - j : j \in Reports(q)} # {}
          BY <2>2
        <5> QED BY <5>1, <5>2, LeastNatural
      <4>4. PICK i \in Reports(q) : d = L - i
        OBVIOUS
      <4>5. ASSUME NEW j \in Reports(q) PROVE j <= i
        <5>1. L - j \in {L - k : k \in Reports(q)}
          OBVIOUS
        <5>2. ~(L - j < L - i)
          BY <4>3, <4>4, <5>1
        <5>3. i \in Int /\ j \in Int
          BY <4>1
        <5> QED BY <1>1, <5>2, <5>3
      <4> QED BY <4>5
    <3>2. Last(Reports(q)) \in Reports(q)
      BY <3>1 DEF Last
    <3> QED BY <1>1, <3>2 DEF Reports
  <2> QED BY <1>1, <1>3, <2>1, <2>2 DEF r
<1> QED BY <1>2, <1>3 DEF r

\* sending, field by field
LEMMA EmitFields ==
  ASSUME NEW m \in MacRecord, NEW msg
  PROVE  LET n == Emit(m, msg)
         IN  /\ n.out = Append(m.out, msg)
             /\ n.scheduledApp = m.scheduledApp /\ n.pausedApp = m.pausedApp
             /\ n.appToBeInitialized = m.appToBeInitialized /\ n.known = m.known
             /\ n.flexibleBands = m.flexibleBands /\ n.appGrantedRb = m.appGrantedRb
             /\ n.appTempRb = m.appTempRb /\ n.appGrantInfos = m.appGrantInfos
             /\ n.vehDataRate = m.vehDataRate
  BY DEF Emit, MacRecord

\* a report makes a handler honest, another message does not make it less so
LEMMA EmitReports ==
  ASSUME NEW m \in MacRecord, NEW msg
  PROVE  LET n == Emit(m, msg)
         IN  /\ msg.type \in {"SrvFD", "RsuFD"} /\ msg.availBand = GetAvailableBands(m)
                => Honest(n)
             /\ msg.type \notin {"SrvFD", "RsuFD"} =>
                   (Honest(m) => Honest(n)) /\ (Silent(m) => Silent(n))
             /\ \A a \in Apps : Apart(m, n, a) /\ (Served(m, a) => Served(n, a))
<1> DEFINE n == Emit(m, msg)
<1>1. /\ n.out = Append(m.out, msg) /\ n.flexibleBands = m.flexibleBands
      /\ n.appGrantedRb = m.appGrantedRb /\ n.appTempRb = m.appTempRb
      /\ n.appGrantInfos = m.appGrantInfos /\ n.vehDataRate = m.vehDataRate
      /\ n.scheduledApp = m.scheduledApp /\ n.appToBeInitialized = m.appToBeInitialized
  BY EmitFields
<1> HIDE DEF n
<1>2. GetAvailableBands(n) = GetAvailableBands(m)
  BY <1>1 DEF GetAvailableBands
<1>3. m.out \in Seq(Message)
  BY DEF MacRecord
<1>4. \A a \in Apps : Apart(m, n, a) /\ (Served(m, a) => Served(n, a))
  BY <1>1 DEF Apart, Served, GetVehDataRate, Held, ReadAppRbOccupation
<1>0. LET r == Append(m.out, msg)
      IN  /\ msg.type \in {"SrvFD", "RsuFD"} =>
                Reports(r) # {} /\ r[Last(Reports(r))] = msg
          /\ msg.type \notin {"SrvFD", "RsuFD"} =>
                /\ Reports(r) = Reports(m.out)
                /\ Reports(m.out) # {} => r[Last(Reports(r))] = m.out[Last(Reports(m.out))]
  BY <1>3, LastOfReports
<1>5. msg.type \in {"SrvFD", "RsuFD"} /\ msg.availBand = GetAvailableBands(m) => Honest(n)
  BY <1>0, <1>1, <1>2 DEF Honest
<1>6. msg.type \notin {"SrvFD", "RsuFD"} =>
        (Honest(m) => Honest(n)) /\ (Silent(m) => Silent(n))
  BY <1>0, <1>1, <1>2 DEF Honest, Silent
<1> QED BY <1>4, <1>5, <1>6 DEF n

\* telling a vehicle
LEMMA SendGrantReports ==
  ASSUME NEW m, Good(m), NEW a \in Apps, a \in m.known, NEW kind
  PROVE  LET n == MecSendGrantToVeh(m, a, kind)
         IN  /\ Honest(m) => Honest(n)
             /\ Silent(m) => Silent(n)
             /\ Apart(m, n, a) /\ (Served(m, a) => Served(n, a))
<1>1. m \in MacRecord /\ Touch(m, a) = m
  BY TouchGood DEF Good
<1> DEFINE active == kind \in {"new", "update"}
           msg == [type |-> "VehGrant", app |-> a, kind |-> kind,
                   processGnb |-> m.appGrantInfos[a].processGnb, offloadGnb |-> m.nodeId,
                   bytePerTti |-> IF active THEN GetVehDataRate(m, a) * GetAppAllocatedBands(m, a)
                                            ELSE 0,
                   blocks |-> IF active THEN ReadAppRbOccupation(m, a) ELSE {}]
<1>2. MecSendGrantToVeh(m, a, kind) = Emit(m, msg)
  BY <1>1 DEF MecSendGrantToVeh
<1>3. msg.type = "VehGrant"
  OBVIOUS
<1> HIDE DEF msg
<1> QED BY <1>1, <1>2, <1>3, EmitReports

\* telling a server
LEMMA FeedbackReports ==
  ASSUME NEW m, Good(m), NEW a \in Apps, a \in m.known, NEW success
  PROVE  LET n == MecFeedbackServiceStatus(m, a, success)
         IN  Honest(n) /\ Apart(m, n, a) /\ (Served(m, a) => Served(n, a))
<1>1. m \in MacRecord /\ Touch(m, a) = m
  BY TouchGood DEF Good
<1> DEFINE msg == [type |-> "SrvFD", app |-> a, success |-> success, offloadGnb |-> m.nodeId,
                   processGnb |-> m.appGrantInfos[a].processGnb,
                   usedBand |-> IF success THEN GetAppAllocatedBands(m, a) ELSE 0,
                   availBand |-> GetAvailableBands(m)]
<1>2. MecFeedbackServiceStatus(m, a, success) = Emit(m, msg)
  BY <1>1 DEF MecFeedbackServiceStatus
<1>3. msg.type = "SrvFD" /\ msg.availBand = GetAvailableBands(m)
  OBVIOUS
<1> HIDE DEF msg
<1> QED BY <1>1, <1>2, <1>3, EmitReports

-----------------------------------------------------------------------------
(* The methods of RbManagerUl.                                              *)

\* releaseTempBands
LEMMA ReleaseTempBandsApart ==
  ASSUME NEW m, Good(m), NEW a \in Apps, a \in m.known
  PROVE  LET n == ReleaseTempBands(m, a)
         IN  Apart(m, n, a) /\ n.out = m.out
<1> DEFINE n == ReleaseTempBands(m, a)
<1>1. m \in MacRecord
  BY DEF Good
<1>2. /\ n.appTempRb = [m.appTempRb EXCEPT ![a] = {}]
      /\ n.appGrantInfos = [m.appGrantInfos EXCEPT ![a].tempBands = {}]
      /\ n.appGrantedRb = m.appGrantedRb /\ n.vehDataRate = m.vehDataRate /\ n.out = m.out
  BY <1>1, ReleaseTempBandsFields
<1> HIDE DEF n
<1>3. Apart(m, n, a)
  BY <1>1, <1>2 DEF Apart, MacRecord
<1> QED BY <1>2, <1>3 DEF n

\* scheduleActiveApp keeps an application scheduled only with enough bands
LEMMA ScheduleActiveAppServes ==
  ASSUME NEW m, Good(m), NEW a \in Apps, a \in m.scheduledApp
  PROVE  LET n == ScheduleActiveApp(m, a)
         IN  Apart(m, n, a) /\ n.out = m.out /\ Served(n, a)
<1> DEFINE r == ReleaseTempBands(m, a)
           n == [r EXCEPT !.pausedApp = @ \cup {a}, !.scheduledApp = @ \ {a}]
<1>1. a \in m.known
  BY DEF Good, ListsOk
<1>2. Good(r) /\ Apart(m, r, a) /\ r.out = m.out
  BY <1>1, ReleaseTempBandsGood, ReleaseTempBandsApart
<1>3. CASE IsGrantEnough(r, a)
  <2>1. ScheduleActiveApp(m, a) = r
    BY <1>3 DEF ScheduleActiveApp
  <2> HIDE DEF r
  <2> DEFINE F == r.appGrantInfos[a].grantedBandSet
  <2>2. F \subseteq Held(r, a)
    BY <1>2 DEF Good, BandsOk, Held, ReadAppRbOccupation
  <2>3. GetVehDataRate(r, a) > 0 /\ GetMinimumRequiredBands(r, a) <= Cardinality(F)
    BY <1>3 DEF IsGrantEnough
  <2>4. Served(r, a)
    BY <1>2, <2>2, <2>3, EnoughServes
  <2> QED BY <1>2, <2>1, <2>4
<1>4. CASE ~IsGrantEnough(r, a)
  <2>1. ScheduleActiveApp(m, a) = n
    BY <1>4 DEF ScheduleActiveApp
  <2> HIDE DEF r
  <2>2. /\ n.scheduledApp = r.scheduledApp \ {a} /\ n.out = r.out
        /\ n.appGrantedRb = r.appGrantedRb /\ n.appTempRb = r.appTempRb
        /\ n.appGrantInfos = r.appGrantInfos /\ n.vehDataRate = r.vehDataRate
    BY <1>2 DEF Good, MacRecord
  <2> HIDE DEF n
  <2>3. Apart(m, n, a) /\ Served(n, a)
    BY <1>2, <2>2 DEF Apart, Served
  <2> QED BY <1>2, <2>1, <2>2, <2>3
<1> QED BY <1>3, <1>4

\* scheduleGrantedApp gives what the grant asks for, which is enough, or nothing
LEMMA ScheduleGrantedAppServes ==
  ASSUME NEW m, Good(m), NEW a \in Apps, a \in m.known
  PROVE  LET n == ScheduleGrantedApp(m, a)
         IN  /\ Apart(m, n, a) /\ n.out = m.out
             /\ IF CanScheduleGranted(m, a) THEN Served(n, a) ELSE n = m
<1> DEFINE n     == ScheduleGrantedApp(m, a)
           info  == m.appGrantInfos[a]
           num   == info.numGrantedBands
           first == FirstBands(m.flexibleBands, num)
           set   == info.grantedBandSet \cup first
<1>1. m \in MacRecord /\ Touch(m, a) = m
  BY TouchGood DEF Good
<1>2. CASE ~CanScheduleGranted(m, a)
  <2>1. n = m
    BY <1>1, <1>2 DEF ScheduleGrantedApp
  <2> QED BY <1>2, <2>1 DEF Apart
<1>3. CASE CanScheduleGranted(m, a)
  <2>1. n = [m EXCEPT !.appGrantInfos[a].grantedBandSet = set, !.appGrantedRb[a] = @ \cup first,
                      !.flexibleBands = @ \ set,
                      !.appToBeInitialized = @ \ {a}, !.scheduledApp = @ \cup {a}]
    BY <1>1, <1>3 DEF ScheduleGrantedApp, MacRecord
  <2>2. /\ num \in Nat /\ num <= Cardinality(m.flexibleBands) /\ GetVehDataRate(m, a) > 0
        /\ GetMinimumRequiredBands(m, a) <= num /\ m.flexibleBands \subseteq Bands
    BY <1>1, <1>3 DEF CanScheduleGranted, GetAvailableBands, MacRecord, AppGrantInfo
  <2> HIDE DEF n, num, set
  <2>3. Cardinality(first) = num
    BY <2>2, FirstBandsCount
  <2> HIDE DEF first
  <2>4. /\ n.appGrantInfos = [m.appGrantInfos EXCEPT ![a].grantedBandSet = set]
        /\ n.appGrantedRb = [m.appGrantedRb EXCEPT ![a] = @ \cup first]
        /\ n.appTempRb = m.appTempRb /\ n.vehDataRate = m.vehDataRate /\ n.out = m.out
    BY <1>1, <2>1 DEF MacRecord
  <2>5. Apart(m, n, a)
    BY <1>1, <2>4 DEF Apart, MacRecord
  <2>6. first \subseteq Held(n, a)
    BY <1>1, <2>4 DEF MacRecord, Held, ReadAppRbOccupation
  <2>7. n.appGrantInfos[a].load = m.appGrantInfos[a].load
    BY <1>1, <2>4 DEF MacRecord, AppGrantInfo
  <2>8. /\ GetVehDataRate(n, a) = GetVehDataRate(m, a)
        /\ GetMinimumRequiredBands(n, a) = GetMinimumRequiredBands(m, a)
    BY <2>4, <2>7 DEF GetVehDataRate, GetMinimumRequiredBands
  <2>9. Good(n)
    BY ScheduleGrantedAppGood DEF n
  <2>10. Served(n, a)
    BY <2>2, <2>3, <2>6, <2>8, <2>9, EnoughServes
  <2> QED BY <1>3, <2>4, <2>5, <2>10 DEF n
<1> QED BY <1>2, <1>3

\* schedulePausedApp resumes on enough bands, or not at all
LEMMA SchedulePausedAppServes ==
  ASSUME NEW m, Good(m), NEW a \in Apps, a \in m.pausedApp
  PROVE  LET n == SchedulePausedApp(m, a)
         IN  Apart(m, n, a) /\ n.out = m.out /\ (Served(m, a) => Served(n, a))
<1> DEFINE n     == SchedulePausedApp(m, a)
           r     == Resume(m, a)
           extra == ExtraBandDemand(m, a)
           first == FirstBands(m.flexibleBands, extra)
           set   == m.appGrantInfos[a].grantedBandSet
           temp  == m.appGrantInfos[a].tempBands \cup first
           taken == [r EXCEPT !.appTempRb[a] = @ \cup first,
                              !.appGrantInfos[a].tempBands = temp,
                              !.flexibleBands = @ \ temp]
<1>1. m \in MacRecord /\ Touch(m, a) = m /\ a \in m.known
  BY TouchGood DEF Good, ListsOk
<1>2. Good(n)
  BY SchedulePausedAppGood
<1>3. /\ r.appGrantInfos = m.appGrantInfos /\ r.appGrantedRb = m.appGrantedRb
      /\ r.appTempRb = m.appTempRb /\ r.flexibleBands = m.flexibleBands
      /\ r.vehDataRate = m.vehDataRate /\ r.out = m.out
      /\ Good(r)
  <2>1. Good(r)
    BY ResumeGood
  <2> QED BY <1>1, <2>1 DEF Resume, MacRecord
<1>4. n = IF IsGrantEnough(m, a) THEN r
          ELSE IF \/ GetVehDataRate(m, a) = 0
                  \/ ExtraBandDemand(m, a) > GetAvailableBands(m)
               THEN m
          ELSE taken
  <2>1. n = IF IsGrantEnough(m, a) THEN r
            ELSE IF \/ GetVehDataRate(m, a) = 0
                    \/ ExtraBandDemand(m, a) > GetAvailableBands(m)
                 THEN Touch(m, a)
            ELSE taken
    BY Zenon DEF SchedulePausedApp
  <2> HIDE DEF n, r, taken
  <2> QED BY <1>1, <2>1
<1>5. /\ GetVehDataRate(r, a) = GetVehDataRate(m, a)
      /\ GetMinimumRequiredBands(r, a) = GetMinimumRequiredBands(m, a)
  BY <1>3 DEF GetVehDataRate, GetMinimumRequiredBands
<1> HIDE DEF r, n, taken
<1>6. CASE IsGrantEnough(m, a)
  <2>1. n = r
    BY <1>4, <1>6
  <2>2. set \subseteq Held(r, a)
    BY <1>3 DEF Good, BandsOk, Held, ReadAppRbOccupation
  <2>3. GetVehDataRate(r, a) > 0 /\ GetMinimumRequiredBands(r, a) <= Cardinality(set)
    BY <1>5, <1>6 DEF IsGrantEnough
  <2>4. Served(r, a)
    BY <1>3, <2>2, <2>3, EnoughServes
  <2> QED BY <1>3, <2>1, <2>4 DEF Apart, n
<1>7. CASE n = m
  BY <1>7 DEF Apart, n
<1>8. CASE /\ ~IsGrantEnough(m, a) /\ GetVehDataRate(m, a) # 0
           /\ ~(ExtraBandDemand(m, a) > GetAvailableBands(m))
  <2>1. n = taken
    BY <1>4, <1>8
  <2>2. /\ GetVehDataRate(m, a) \in Nat /\ m.appGrantInfos[a].load \in Nat
        /\ set \subseteq Bands /\ m.flexibleBands \subseteq Bands
        /\ GetAvailableBands(m) \in Nat /\ Cardinality(set) \in Nat
    <3>1. /\ m.appGrantInfos[a].load \in Nat
          /\ set \subseteq Bands /\ m.flexibleBands \subseteq Bands
      BY <1>1 DEF MacRecord, AppGrantInfo
    <3> QED BY <1>1, <3>1, AllocatedBandsNat, BandsFinite
  <2>3. GetMinimumRequiredBands(m, a) \in Nat
    BY <1>8, <2>2, RequiredNatural DEF GetMinimumRequiredBands
  <2>4. /\ extra \in Nat /\ extra <= Cardinality(m.flexibleBands)
        /\ extra + Cardinality(set) = GetMinimumRequiredBands(m, a)
    <3>1. extra = GetMinimumRequiredBands(m, a) - Cardinality(set)
      BY DEF ExtraBandDemand
    <3>2. extra \in Nat
      <4>1. CASE set = {}
        BY <2>3, <3>1, <4>1, FS_EmptySet
      <4>2. CASE set # {}
        <5>1. ~(GetMinimumRequiredBands(m, a) <= Cardinality(set))
          BY <1>8, <2>2, <4>2 DEF IsGrantEnough
        <5> QED BY <2>2, <2>3, <3>1, <5>1
      <4> QED BY <4>1, <4>2
    <3> QED BY <1>8, <2>2, <2>3, <3>1, <3>2 DEF GetAvailableBands
  <2> HIDE DEF extra
  <2>5. Cardinality(first) = extra /\ first \subseteq m.flexibleBands
    BY <2>2, <2>4, FirstBandsCount, FirstBandsSubset
  <2> HIDE DEF first
  <2>6. first \cap set = {}
    BY <2>5 DEF Good, BandsOk, BandsPartitioned, Held, ReadAppRbOccupation
  <2>7. Cardinality(first \cup set) = GetMinimumRequiredBands(m, a)
    <3>1. IsFiniteSet(Bands)
      BY FS_Interval, RbManagerUlAssumption DEF Bands
    <3>2. IsFiniteSet(first) /\ IsFiniteSet(set) /\ Cardinality(first \cap set) = 0
      BY <2>2, <2>5, <2>6, <3>1, FS_Subset, FS_EmptySet
    <3> HIDE DEF set
    <3>3. Cardinality(first \cup set)
            = Cardinality(first) + Cardinality(set) - Cardinality(first \cap set)
      BY <3>2, FS_Union
    <3>4. Cardinality(first) + Cardinality(set) = GetMinimumRequiredBands(m, a)
      BY <2>4, <2>5
    <3> QED BY <2>2, <2>3, <2>4, <2>5, <3>2, <3>3, <3>4
  <2> HIDE DEF temp
  <2>8. /\ taken.appTempRb = [r.appTempRb EXCEPT ![a] = @ \cup first]
        /\ taken.appGrantInfos = [r.appGrantInfos EXCEPT ![a].tempBands = temp]
        /\ taken.appGrantedRb = r.appGrantedRb /\ taken.vehDataRate = r.vehDataRate
        /\ taken.out = r.out
    BY <1>3 DEF taken, Good, MacRecord
  <2>9. Apart(m, taken, a) /\ taken.out = m.out
    BY <1>1, <1>3, <2>8 DEF Apart, MacRecord
  <2>10. first \cup set \subseteq Held(taken, a)
    BY <1>1, <1>3, <2>8 DEF MacRecord, Good, BandsOk, Held, ReadAppRbOccupation
  <2>11. taken.appGrantInfos[a].load = m.appGrantInfos[a].load
    BY <1>1, <1>3, <2>8 DEF MacRecord, AppGrantInfo
  <2>12. /\ GetVehDataRate(taken, a) > 0
         /\ GetMinimumRequiredBands(taken, a) <= Cardinality(first \cup set)
    BY <1>3, <1>8, <2>2, <2>3, <2>7, <2>8, <2>11 DEF GetVehDataRate, GetMinimumRequiredBands
  <2>13. Served(taken, a)
    BY <1>2, <2>1, <2>10, <2>12, EnoughServes
  <2> QED BY <2>1, <2>9, <2>13 DEF n
<1> QED BY <1>4, <1>6, <1>7, <1>8

\* terminateAppService leaves its application unscheduled
LEMMA TerminateAppServiceApart ==
  ASSUME NEW m, Good(m), NEW a \in Apps, a \in m.known
  PROVE  LET n == TerminateAppService(m, a)
         IN  Apart(m, n, a)
<1> DEFINE r == [m EXCEPT !.scheduledApp = @ \ {a}, !.pausedApp = @ \ {a},
                          !.appToBeInitialized = @ \ {a},
                          !.flexibleBands = @ \cup m.appGrantedRb[a],
                          !.appGrantedRb[a] = {},
                          !.appGrantInfos[a].grantedBandSet = {}]
           infos == [m.appGrantInfos EXCEPT ![a].grantedBandSet = {}]
           flex  == m.flexibleBands \cup m.appGrantedRb[a]
           n == TerminateAppService(m, a)
<1>1. m \in MacRecord
  BY DEF Good
<1>2. n = ReleaseTempBands(r, a)
  BY Zenon DEF TerminateAppService
<1>3. infos \in [Apps -> AppGrantInfo] /\ flex \in SUBSET Bands
  <2>1. /\ m.appGrantInfos \in [Apps -> AppGrantInfo] /\ m.flexibleBands \in SUBSET Bands
        /\ m.appGrantedRb \in [Apps -> SUBSET Bands]
    BY <1>1 DEF MacRecord
  <2>2. infos \in [Apps -> AppGrantInfo]
    BY <2>1 DEF AppGrantInfo
  <2> QED BY <2>1, <2>2
<1>4. /\ r.appGrantedRb = [m.appGrantedRb EXCEPT ![a] = {}] /\ r.appTempRb = m.appTempRb
      /\ r.appGrantInfos = infos /\ r.vehDataRate = m.vehDataRate /\ r.known = m.known
      /\ r.flexibleBands = flex /\ r.scheduledApp = m.scheduledApp \ {a}
      /\ r.pausedApp = m.pausedApp \ {a} /\ r.appToBeInitialized = m.appToBeInitialized \ {a}
  BY <1>1 DEF MacRecord
<1>5. r \in MacRecord
  <2> HIDE DEF infos, flex
  <2>1. r = [m EXCEPT !.scheduledApp = r.scheduledApp, !.pausedApp = r.pausedApp,
                      !.appToBeInitialized = r.appToBeInitialized,
                      !.flexibleBands = r.flexibleBands, !.appGrantedRb = r.appGrantedRb,
                      !.appGrantInfos = r.appGrantInfos]
    BY <1>1 DEF MacRecord
  <2>2. /\ r.scheduledApp \in SUBSET Apps /\ r.pausedApp \in SUBSET Apps
        /\ r.appToBeInitialized \in SUBSET Apps /\ r.flexibleBands \in SUBSET Bands
        /\ r.appGrantedRb \in [Apps -> SUBSET Bands] /\ r.appGrantInfos \in [Apps -> AppGrantInfo]
    BY <1>1, <1>3, <1>4 DEF MacRecord
  <2> HIDE DEF r
  <2> QED BY <1>1, <2>1, <2>2 DEF MacRecord
<1> HIDE DEF r, n
<1>6. /\ n.appTempRb = [r.appTempRb EXCEPT ![a] = {}]
      /\ n.appGrantInfos = [r.appGrantInfos EXCEPT ![a].tempBands = {}]
      /\ n.appGrantedRb = r.appGrantedRb /\ n.vehDataRate = r.vehDataRate
  BY <1>2, <1>4, <1>5, ReleaseTempBandsFields
<1>7. Apart(m, n, a)
  BY <1>1, <1>4, <1>5, <1>6 DEF Apart, MacRecord
<1> QED BY <1>7 DEF n

\* a grant is replaced, and one is removed
LEMMA GrantInfoApart ==
  ASSUME NEW m, Good(m), NEW a \in Apps, NEW info
  PROVE  /\ Apart(m, SetAppGrantInfo(m, a, info), a)
         /\ SetAppGrantInfo(m, a, info).out = m.out
         /\ Apart(m, RemoveAppGrantInfo(m, a), a)
         /\ RemoveAppGrantInfo(m, a).out = m.out
         /\ RemoveAppGrantInfo(m, a).flexibleBands = m.flexibleBands
         /\ RemoveAppGrantInfo(m, a).scheduledApp = m.scheduledApp
  BY DEF Good, MacRecord, SetAppGrantInfo, Touch, RemoveAppGrantInfo, Apart

\* an application that waits for its bands is not served yet
LEMMA AddAppToBeInitializedApart ==
  ASSUME NEW m, Good(m), NEW a \in Apps
  PROVE  LET n == AddAppToBeInitialized(m, a)
         IN  /\ Apart(m, n, a) /\ n.out = m.out /\ n.flexibleBands = m.flexibleBands
             /\ Served(n, a)
  BY DEF Good, MacRecord, AddAppToBeInitialized, Apart, Served

-----------------------------------------------------------------------------
(* Handlers and loop bodies.                                                *)

\* a method that reads and writes neither bands nor messages
LEMMA ReportsUntouched ==
  ASSUME NEW m, NEW n, n.out = m.out, n.flexibleBands = m.flexibleBands
  PROVE  (Honest(m) => Honest(n)) /\ (Silent(m) => Silent(n))
  BY DEF Honest, Silent, GetAvailableBands

\* terminateService reports what is free after it, and leaves its application unscheduled
LEMMA TerminateServiceServes ==
  ASSUME NEW m, Good(m), NEW a \in Apps, a \in m.known
  PROVE  LET n == TerminateService(m, a)
         IN  Apart(m, n, a) /\ Served(n, a) /\ Honest(n)
<1> DEFINE stopped  == TerminateAppService(m, a)
           reported == MecFeedbackServiceStatus(stopped, a, FALSE)
           sent     == MecSendGrantToVeh(reported, a, "stop")
           n        == RemoveAppGrantInfo(sent, a)
<1>1. /\ Good(stopped) /\ Apart(m, stopped, a) /\ a \in stopped.known
      /\ a \notin stopped.scheduledApp
  BY TerminateAppServiceGood, TerminateAppServiceApart
<1> HIDE DEF stopped
<1>2. /\ Good(reported) /\ Apart(stopped, reported, a) /\ a \in reported.known
      /\ a \notin reported.scheduledApp /\ Honest(reported)
  BY <1>1, MecFeedbackServiceStatusGood, FeedbackReports
<1> HIDE DEF reported
<1>3. /\ Good(sent) /\ Apart(reported, sent, a) /\ a \notin sent.scheduledApp /\ Honest(sent)
  BY <1>2, MecSendGrantToVehGood, SendGrantReports
<1> HIDE DEF sent
<1>4. /\ Apart(sent, n, a) /\ n.out = sent.out /\ n.flexibleBands = sent.flexibleBands
      /\ n.scheduledApp = sent.scheduledApp
  BY <1>3, GrantInfoApart
<1>5. TerminateService(m, a) = n
  BY DEF TerminateService, sent, reported, stopped
<1> HIDE DEF n
<1>6. Honest(n) /\ Served(n, a)
  BY <1>3, <1>4, ReportsUntouched DEF Served
<1>7. Apart(m, n, a)
  BY <1>1, <1>2, <1>3, <1>4, ApartTransitive
<1> QED BY <1>5, <1>6, <1>7

\* a grant from a server is scheduled on enough bands, or waits
LEMMA MecHandleGrantFromRsuServes ==
  ASSUME NEW m, Good(m), NEW grant \in NicGrant, NEW has \in BOOLEAN,
         grant.offloadGnb = m.nodeId
  PROVE  LET n == MecHandleGrantFromRsu(m, grant, has)
             a == grant.app
         IN  /\ Frame(m, n, a) /\ Apart(m, n, a)
             /\ Served(m, a) => Served(n, a)
             /\ Honest(m) => Honest(n)
<1> DEFINE a       == grant.app
           info    == [DefaultInfo EXCEPT !.numGrantedBands = grant.bands,
                                          !.load = grant.load,
                                          !.processGnb = grant.processGnb]
           stored  == SetAppGrantInfo(m, a, info)
           tried   == ScheduleGrantedApp(stored, a)
           told    == MecFeedbackServiceStatus(tried, a, TRUE)
           started == MecSendGrantToVeh(told, a, "new")
           paused  == MecSendGrantToVeh(told, a, "pause")
           waits   == AddAppToBeInitialized(paused, a)
           n       == MecHandleGrantFromRsu(m, grant, has)
<1>1. a \in Apps /\ grant.bands \in Nat /\ grant.load \in Nat /\ grant.processGnb \in Gnbs
  BY DEF NicGrant
<1>2. \/ n = m
      \/ n = TerminateService(m, a) /\ a \in m.known
      \/ n = started /\ CanScheduleGranted(stored, a)
      \/ n = waits
  BY DEF MecHandleGrantFromRsu
<1>3. /\ info \in AppGrantInfo /\ info.processGnb \in Gnbs
      /\ info.grantedBandSet = {} /\ info.tempBands = {}
  BY <1>1 DEF AppGrantInfo, DefaultInfo
<1> HIDE DEF a, info, n
<1>4. Good(stored) /\ Frame(m, stored, a) /\ a \in stored.known /\ Apart(m, stored, a)
  BY <1>1, <1>3, SetAppGrantInfoGood, GrantInfoApart
<1> HIDE DEF stored
<1>5. /\ Good(tried) /\ Frame(stored, tried, a) /\ a \in tried.known /\ Apart(stored, tried, a)
      /\ CanScheduleGranted(stored, a) => Served(tried, a)
  <2>1. Good(tried) /\ Frame(stored, tried, a)
    BY <1>1, <1>4, ScheduleGrantedAppGood
  <2>2. stored \in MacRecord /\ Touch(stored, a) = stored
    BY <1>1, <1>4, TouchGood DEF Good
  <2>3. tried.known = stored.known
    BY <2>2 DEF ScheduleGrantedApp, MacRecord, tried
  <2>4. Apart(stored, tried, a) /\ (CanScheduleGranted(stored, a) => Served(tried, a))
    BY <1>1, <1>4, ScheduleGrantedAppServes
  <2> QED BY <1>4, <2>1, <2>3, <2>4
<1> HIDE DEF tried
<1>6. /\ Good(told) /\ Frame(tried, told, a) /\ a \in told.known /\ Apart(tried, told, a)
      /\ Honest(told) /\ (Served(tried, a) => Served(told, a))
  BY <1>1, <1>5, MecFeedbackServiceStatusGood, FeedbackReports
<1> HIDE DEF told
<1>7. /\ Good(started) /\ Frame(told, started, a) /\ Apart(told, started, a)
      /\ Honest(started) /\ (Served(told, a) => Served(started, a))
  BY <1>1, <1>6, MecSendGrantToVehGood, SendGrantReports
<1>8. /\ Good(paused) /\ Frame(told, paused, a) /\ a \in paused.known
      /\ Apart(told, paused, a) /\ Honest(paused)
  BY <1>1, <1>6, MecSendGrantToVehGood, SendGrantReports
<1> HIDE DEF started, paused
<1>9. /\ Frame(paused, waits, a) /\ Apart(paused, waits, a) /\ Served(waits, a)
      /\ waits.out = paused.out /\ waits.flexibleBands = paused.flexibleBands
  BY <1>1, <1>8, AddAppToBeInitializedGood, AddAppToBeInitializedApart
<1> HIDE DEF waits
<1>10. Frame(m, started, a) /\ Frame(m, waits, a) /\ Frame(m, m, a)
  BY <1>4, <1>5, <1>6, <1>7, <1>8, <1>9, FrameTransitive DEF Frame
<1>11. Apart(m, started, a) /\ Apart(m, waits, a) /\ Apart(m, m, a)
  <2>1. Apart(m, told, a)
    BY <1>4, <1>5, <1>6, ApartTransitive
  <2>2. Apart(m, paused, a) /\ Apart(m, started, a)
    BY <1>7, <1>8, <2>1, ApartTransitive
  <2> QED BY <1>9, <2>2, ApartTransitive DEF Apart
<1>12. Honest(waits)
  BY <1>8, <1>9, ReportsUntouched
<1>13. CASE n = m
  BY <1>10, <1>11, <1>13 DEF n, a
<1>14. CASE n = TerminateService(m, a) /\ a \in m.known
  BY <1>1, <1>14, TerminateServiceGood, TerminateServiceServes DEF n, a
<1>15. CASE n = started /\ CanScheduleGranted(stored, a)
  BY <1>5, <1>6, <1>7, <1>10, <1>11, <1>15 DEF n, a
<1>16. CASE n = waits
  BY <1>9, <1>10, <1>11, <1>12, <1>16 DEF n, a
<1> QED BY <1>2, <1>13, <1>14, <1>15, <1>16

\* the loop bodies that report
Reporting == {"keepOrTerminate", "keepOrTerminateNewRate", "terminate"}

\* a scheduled application seen by broadcast feedback is served, or ended and reported
LEMMA KeepOrTerminateServes ==
  ASSUME NEW m, Good(m), NEW a \in Apps, a \in m.scheduledApp, NEW c \in BOOLEAN
  PROVE  LET n == KeepOrTerminate(m, a, c)
         IN  Apart(m, n, a) /\ Served(n, a) /\ Honest(n)
<1> DEFINE r    == ScheduleActiveApp(m, a)
           kept == MecFeedbackServiceStatus(r, a, TRUE)
           sent == MecSendGrantToVeh(kept, a, "update")
<1>1. /\ Good(r) /\ a \in r.scheduledApp \cup r.pausedApp
      /\ Apart(m, r, a) /\ Served(r, a)
  BY ScheduleActiveAppGood, ScheduleActiveAppServes
<1>2. KeepOrTerminate(m, a, c) \in {TerminateService(r, a), sent, kept}
  BY DEF KeepOrTerminate
<1> HIDE DEF r
<1>3. a \in r.known
  BY <1>1 DEF Good, ListsOk
<1>4. /\ Good(kept) /\ a \in kept.known
      /\ Apart(r, kept, a) /\ Served(kept, a) /\ Honest(kept)
  BY <1>1, <1>3, MecFeedbackServiceStatusGood, FeedbackReports
<1> HIDE DEF kept
<1>5. Apart(kept, sent, a) /\ Served(sent, a) /\ Honest(sent)
  BY <1>4, SendGrantReports
<1>6. LET t == TerminateService(r, a)
      IN  Apart(r, t, a) /\ Served(t, a) /\ Honest(t)
  BY <1>1, <1>3, TerminateServiceServes
<1> HIDE DEF sent
<1>7. Apart(m, kept, a) /\ Apart(m, sent, a) /\ Apart(m, TerminateService(r, a), a)
  BY <1>1, <1>4, <1>5, <1>6, ApartTransitive
<1> QED BY <1>2, <1>4, <1>5, <1>6, <1>7

\* seen by local feedback, it is served or paused, and the scheduler hears nothing
LEMMA KeepOrPauseServes ==
  ASSUME NEW m, Good(m), NEW a \in Apps, a \in m.scheduledApp, NEW c \in BOOLEAN
  PROVE  LET n == KeepOrPause(m, a, c)
         IN  Apart(m, n, a) /\ Served(n, a) /\ (Silent(m) => Silent(n))
<1> DEFINE r    == ScheduleActiveApp(m, a)
           sent == MecSendGrantToVeh(r, a, "update")
<1>1. /\ Good(r) /\ a \in r.scheduledApp \cup r.pausedApp
      /\ Apart(m, r, a) /\ Served(r, a) /\ r.out = m.out
  BY ScheduleActiveAppGood, ScheduleActiveAppServes
<1>2. KeepOrPause(m, a, c) \in {sent, r}
  BY DEF KeepOrPause
<1> HIDE DEF r
<1>3. a \in r.known /\ (Silent(m) => Silent(r))
  BY <1>1 DEF Good, ListsOk, Silent
<1>4. Apart(r, sent, a) /\ Served(sent, a) /\ (Silent(r) => Silent(sent))
  BY <1>1, <1>3, SendGrantReports
<1> HIDE DEF sent
<1>5. Apart(m, sent, a)
  BY <1>1, <1>4, ApartTransitive
<1> QED BY <1>1, <1>2, <1>3, <1>4, <1>5

\* an application that waits for its first bands gets enough or goes on waiting
LEMMA TryInitializeServes ==
  ASSUME NEW m, Good(m), NEW a \in Apps, a \in m.appToBeInitialized
  PROVE  LET n == TryInitialize(m, a)
         IN  Apart(m, n, a) /\ Served(n, a) /\ (Silent(m) => Silent(n))
<1> DEFINE r    == ScheduleGrantedApp(m, a)
           sent == MecSendGrantToVeh(r, a, "update")
<1>1. a \in m.known
  BY DEF Good, ListsOk
<1>2. /\ Good(r) /\ Apart(m, r, a) /\ r.out = m.out
      /\ IF CanScheduleGranted(m, a) THEN Served(r, a) /\ a \in r.scheduledApp ELSE r = m
  BY <1>1, ScheduleGrantedAppGood, ScheduleGrantedAppServes
<1>3. IF CanScheduleGranted(m, a) THEN TryInitialize(m, a) = sent ELSE TryInitialize(m, a) = r
  BY DEF TryInitialize
<1> HIDE DEF r
<1>4. Silent(m) => Silent(r)
  BY <1>2 DEF Silent
<1>5. CASE CanScheduleGranted(m, a)
  <2>1. a \in r.known
    BY <1>2, <1>5 DEF Good, ListsOk
  <2>2. Apart(r, sent, a) /\ Served(sent, a) /\ (Silent(r) => Silent(sent))
    BY <1>2, <1>5, <2>1, SendGrantReports
  <2> HIDE DEF sent
  <2> QED BY <1>2, <1>3, <1>4, <1>5, <2>2, ApartTransitive
<1>6. CASE ~CanScheduleGranted(m, a)
  BY <1>2, <1>3, <1>6 DEF Served
<1> QED BY <1>5, <1>6

\* a paused application resumes on enough bands or stays as it was
LEMMA ResumeOrPauseServes ==
  ASSUME NEW m, Good(m), NEW a \in Apps, a \in m.pausedApp,
         NEW n \in {ResumeOrPause(m, a), TryResume(m, a)}
  PROVE  /\ Apart(m, n, a) /\ (Served(m, a) => Served(n, a))
         /\ Silent(m) => Silent(n)
<1> DEFINE r     == SchedulePausedApp(m, a)
           told  == MecSendGrantToVeh(r, a, "update")
           pause == MecSendGrantToVeh(r, a, "pause")
<1>1. Good(r) /\ Apart(m, r, a) /\ r.out = m.out /\ (Served(m, a) => Served(r, a))
  BY SchedulePausedAppGood, SchedulePausedAppServes
<1>2. n \in {r, told, pause}
  BY DEF ResumeOrPause, TryResume
<1>3. a \in r.known
  <2>1. m \in MacRecord /\ a \in m.known
    BY DEF Good, ListsOk
  <2>2. Touch(m, a) = m
    BY <2>1, TouchGood
  <2>3. r.known = m.known
    BY <2>1, <2>2 DEF SchedulePausedApp, Resume, MacRecord, r
  <2> QED BY <2>1, <2>3
<1> HIDE DEF r
<1>4. Silent(m) => Silent(r)
  BY <1>1 DEF Silent
<1>5. /\ Apart(r, told, a) /\ (Served(r, a) => Served(told, a)) /\ (Silent(r) => Silent(told))
      /\ Apart(r, pause, a) /\ (Served(r, a) => Served(pause, a)) /\ (Silent(r) => Silent(pause))
  BY <1>1, <1>3, SendGrantReports
<1> HIDE DEF told, pause
<1>6. Apart(m, told, a) /\ Apart(m, pause, a)
  BY <1>1, <1>5, ApartTransitive
<1> QED BY <1>1, <1>2, <1>4, <1>5, <1>6

\* every loop body, on an application its loop may visit
LEMMA LoopBodyServes ==
  ASSUME NEW m, Good(m), NEW a \in Apps, NEW what \in Bodies, Ready(m, a, what)
  PROVE  LET n == LoopBody(m, a, what)
         IN  /\ Apart(m, n, a)
             /\ what \in Keeping \/ Served(m, a) => Served(n, a)
             /\ IF what \in Reporting THEN Honest(n) ELSE Silent(m) => Silent(n)
<1>1. a \in m.known
  BY ReadyIsKnown
<1>2. CASE what \in {"keepOrTerminate", "keepOrTerminateNewRate"}
  <2>1. \E c \in BOOLEAN : LoopBody(m, a, what) = KeepOrTerminate(m, a, c)
    BY <1>2 DEF LoopBody
  <2> QED BY <1>2, <2>1, KeepOrTerminateServes DEF Ready, Keeping, Reporting
<1>3. CASE what \in Pausing
  <2>1. \E c \in BOOLEAN : LoopBody(m, a, what) = KeepOrPause(m, a, c)
    BY <1>3 DEF LoopBody, Pausing
  <2> QED BY <1>3, <2>1, KeepOrPauseServes DEF Ready, Keeping, Pausing, Reporting
<1>4. CASE what = "tryInitialize"
  <2>1. LoopBody(m, a, what) = TryInitialize(m, a)
    BY <1>4 DEF LoopBody
  <2> QED BY <1>4, <2>1, TryInitializeServes DEF Ready, Reporting
<1>5. CASE what \in Resuming
  <2>1. LoopBody(m, a, what) \in {ResumeOrPause(m, a), TryResume(m, a)}
    BY <1>5 DEF LoopBody, Resuming
  <2> QED BY <1>5, <2>1, ResumeOrPauseServes DEF Ready, Keeping, Resuming, Reporting
<1>6. CASE what = "terminate"
  <2>1. LoopBody(m, a, what) = TerminateService(m, a)
    BY <1>6 DEF LoopBody
  <2> QED BY <1>1, <1>6, <2>1, TerminateServiceServes DEF Reporting
<1>7. CASE what = "sendStop"
  <2>1. LoopBody(m, a, what) = MecSendGrantToVeh(m, a, "stop")
    BY <1>7 DEF LoopBody
  <2> QED BY <1>1, <1>7, <2>1, SendGrantReports DEF Keeping, Reporting
<1> QED BY <1>2, <1>3, <1>4, <1>5, <1>6, <1>7 DEF Bodies, Keeping, Pausing

-----------------------------------------------------------------------------
(* Loops: what a walk leaves of the applications it does not visit, and of  *)
(* those it does.                                                           *)

\* b's place, bands and grant are as they were
Left(m, n, b) ==
    /\ b \in n.scheduledApp <=> b \in m.scheduledApp
    /\ b \in n.pausedApp <=> b \in m.pausedApp
    /\ b \in n.appToBeInitialized <=> b \in m.appToBeInitialized
    /\ n.appGrantedRb[b] = m.appGrantedRb[b]
    /\ n.appTempRb[b] = m.appTempRb[b]
    /\ n.appGrantInfos[b] = m.appGrantInfos[b]

\* a method called for a leaves the others alone
LEMMA OthersAreLeft ==
  ASSUME NEW m, NEW n, NEW a \in Apps, NEW b \in Apps \ {a}, Frame(m, n, a), Apart(m, n, a)
  PROVE  Left(m, n, b)
  BY DEF Frame, Apart, Left

\* being left alone twice
LEMMA LeftTransitive ==
  ASSUME NEW k, NEW m, NEW n, NEW b, Left(k, m, b), Left(m, n, b)
  PROVE  Left(k, n, b)
  BY DEF Left

\* a loop that may leave its applications badly served only by not visiting them
LEMMA ForEachAppServes ==
  ASSUME NEW m, Good(m), NEW S, S \subseteq Apps, NEW what \in Bodies,
         \A a \in S : Ready(m, a, what),
         \A b \in Apps : Served(m, b) \/ (b \in S /\ what \in Keeping)
  PROVE  LET n == ForEachApp(m, S, what)
         IN  /\ n.vehDataRate = m.vehDataRate
             /\ \A b \in Apps \ S : Left(m, n, b)
             /\ \A b \in Apps : Served(n, b)
             /\ IF what \in Reporting THEN Honest(m) => Honest(n) ELSE Silent(m) => Silent(n)
<1> DEFINE Told(n) == IF what \in Reporting THEN Honest(m) => Honest(n)
                      ELSE Silent(m) => Silent(n)
           Fine(n, i) ==
             /\ Good(n)
             /\ \A b \in S : b > i => Ready(n, b, what)
             /\ n.vehDataRate = m.vehDataRate
             /\ \A b \in Apps \ S : Left(m, n, b)
             /\ \A b \in Apps : Served(n, b) \/ (b \in S /\ b > i /\ what \in Keeping)
             /\ Told(n)
<1>1. PICK f : Walk(f, m, S, what, NumApps) /\ ForEachApp(m, S, what) = f[NumApps]
  BY ForEachAppWalks
<1>2. NumApps \in Nat /\ Apps = 1 .. NumApps
  BY MecTypesAssumption DEF Apps
<1>3. f[0] = m
  BY <1>1, <1>2 DEF Walk
<1>4. ASSUME NEW i \in 0 .. NumApps, i # NumApps
      PROVE  f[i + 1] = IF i + 1 \in S THEN LoopBody(f[i], i + 1, what) ELSE f[i]
  <2>1. i + 1 \in 0 .. NumApps /\ i + 1 # 0 /\ (i + 1) - 1 = i
    BY <1>2, <1>4
  <2> QED BY <1>1, <2>1 DEF Walk
<1>5. Fine(m, 0)
  <2>1. \A b \in S : b > 0
    BY <1>2
  <2>2. \A b \in Apps : Left(m, m, b)
    BY DEF Left
  <2> QED BY <2>1, <2>2
<1>6. ASSUME NEW i \in 0 .. NumApps, i # NumApps, Fine(f[i], i)
      PROVE  Fine(f[i + 1], i + 1)
  <2> DEFINE k == f[i]
             a == i + 1
  <2>1. a \in Apps /\ a > i /\ \A b \in Apps : b > a => b > i
    BY <1>2, <1>6
  <2>2. \A b \in Apps : b > i /\ b # a => b > a
    BY <1>2, <1>6
  <2>3. CASE a \notin S
    <3>1. f[a] = k
      BY <1>4, <1>6, <2>3
    <3>2. \A b \in S : /\ b > a => b > i
                       /\ b > i => b > a
      BY <2>1, <2>2, <2>3
    <3> HIDE DEF k, a, Told
    <3>3. Fine(k, i)
      BY <1>6 DEF k
    <3>4. Fine(k, a)
      BY <3>2, <3>3
    <3> HIDE DEF Fine
    <3> QED BY <3>1, <3>4 DEF a
  <2>4. CASE a \in S
    <3> DEFINE n == LoopBody(k, a, what)
    <3>1. f[a] = n
      BY <1>4, <1>6, <2>4
    <3> HIDE DEF k
    <3>0. Fine(k, i)
      BY <1>6 DEF k
    <3> HIDE DEF a, Told
    <3>2. Ready(k, a, what) /\ Good(k)
      BY <2>1, <2>4, <3>0
    <3>3. /\ Good(n) /\ Frame(k, n, a) /\ Apart(k, n, a)
          /\ what \in Keeping \/ Served(k, a) => Served(n, a)
          /\ IF what \in Reporting THEN Honest(n) ELSE Silent(k) => Silent(n)
      BY <2>1, <3>2, LoopBodyGood, LoopBodyServes
    <3> HIDE DEF n
    <3>4. \A b \in S : b > a => Ready(n, b, what)
      <4> SUFFICES ASSUME NEW b \in S, b > a PROVE Ready(n, b, what)
        OBVIOUS
      <4>1. b # a /\ b > i
        BY <1>2, <2>1
      <4>2. Ready(k, b, what)
        BY <3>0, <4>1
      <4> QED BY <3>3, <4>1, <4>2 DEF Ready, Frame
    <3>5. \A b \in Apps \ S : Left(m, n, b)
      <4> SUFFICES ASSUME NEW b \in Apps \ S PROVE Left(m, n, b)
        OBVIOUS
      <4>1. b # a /\ Left(m, k, b)
        BY <2>4, <3>0
      <4> QED BY <2>1, <3>3, <4>1, OthersAreLeft, LeftTransitive
    <3>6. \A b \in Apps : Served(n, b) \/ (b \in S /\ b > a /\ what \in Keeping)
      <4> SUFFICES ASSUME NEW b \in Apps, ~(b \in S /\ b > a /\ what \in Keeping)
                   PROVE  Served(n, b)
        OBVIOUS
      <4>1. CASE b = a
        BY <3>0, <3>3, <4>1
      <4>2. CASE b # a
        <5>1. Served(k, b)
          BY <2>2, <3>0, <4>2
        <5> QED BY <2>1, <3>3, <4>2, <5>1, OthersStayServed
      <4> QED BY <4>1, <4>2
    <3>7. n.vehDataRate = m.vehDataRate
      BY <3>0, <3>3 DEF Apart
    <3>8. Told(n)
      BY <3>0, <3>3 DEF Told
    <3>9. Fine(n, a)
      BY <3>3, <3>4, <3>5, <3>6, <3>7, <3>8
    <3> HIDE DEF Fine
    <3> QED BY <3>1, <3>9 DEF a
  <2> QED BY <2>3, <2>4
<1>7. \A i \in 0 .. NumApps : Fine(f[i], i)
  <2> DEFINE Ok == {i \in 0 .. NumApps : Fine(f[i], i)}
  <2> HIDE DEF Fine
  <2>1. 0 \in Ok
    BY <1>2, <1>3, <1>5
  <2>2. \A i \in 0 .. NumApps : i # NumApps /\ i \in Ok => i + 1 \in Ok
    BY <1>2, <1>6
  <2> HIDE DEF Ok
  <2>3. \A i \in 0 .. NumApps : i \in Ok
    BY <1>2, <2>1, <2>2, UpTo
  <2> QED BY <2>3 DEF Ok
<1>8. Fine(f[NumApps], NumApps)
  BY <1>2, <1>7
<1>9. \A b \in S : ~(b > NumApps)
  BY <1>2
<1> QED BY <1>1, <1>8, <1>9

\* emptying grantList_ changes no band, no rate and no message
LEMMA ClearGrantListServes ==
  ASSUME NEW m, Good(m)
  PROVE  LET n == ClearGrantList(m)
         IN  /\ n.vehDataRate = m.vehDataRate /\ n.out = m.out
             /\ n.flexibleBands = m.flexibleBands
             /\ \A b \in Apps : Left(m, n, b) /\ (Served(m, b) => Served(n, b))
<1> DEFINE empty == <<>>
           n     == [m EXCEPT !.grantList = empty]
<1>1. ClearGrantList(m) = n
  BY DEF ClearGrantList
<1> HIDE DEF empty
<1>2. /\ n.vehDataRate = m.vehDataRate /\ n.out = m.out /\ n.flexibleBands = m.flexibleBands
      /\ n.scheduledApp = m.scheduledApp /\ n.pausedApp = m.pausedApp
      /\ n.appToBeInitialized = m.appToBeInitialized
      /\ n.appGrantedRb = m.appGrantedRb /\ n.appTempRb = m.appTempRb
      /\ n.appGrantInfos = m.appGrantInfos
  BY DEF Good, MacRecord
<1> HIDE DEF n
<1>3. \A b \in Apps : Left(m, n, b) /\ (Served(m, b) => Served(n, b))
  BY <1>2 DEF Left, Served, GetVehDataRate, Held, ReadAppRbOccupation
<1> QED BY <1>1, <1>2, <1>3

\* a ttiTick_ serves what it schedules and reports what is free after it
LEMMA HandleTtiTickServes ==
  ASSUME NEW m, Good(m), NEW has \in BOOLEAN,
         \A i \in DOMAIN m.grantList : m.grantList[i].offloadGnb = m.nodeId,
         \A b \in Apps : Served(m, b), Honest(m)
  PROVE  LET n == HandleTtiTick(m, has)
         IN  /\ n.vehDataRate = m.vehDataRate /\ Honest(n)
             /\ \A b \in Apps : Served(n, b)
<1> DEFINE N == Len(m.grantList)
           after[k \in 0 .. N] ==
             IF k = 0 THEN ClearGrantList(m)
             ELSE MecHandleGrantFromRsu(after[k - 1], GrantFromBack(m, k), has)
           Fine(n) == /\ Good(n) /\ n.nodeId = m.nodeId
                      /\ n.vehDataRate = m.vehDataRate /\ Honest(n)
                      /\ \A b \in Apps : Served(n, b)
<1>1. m.grantList \in Seq(NicGrant) /\ N \in Nat
  BY DEF Good, MacRecord
<1>2. PICK f : Drain(f, m, has, N)
  BY <1>1, DrainExists
<1>3. Drain(after, m, has, N)
  BY <1>2 DEF Drain
<1>4. HandleTtiTick(m, has) = after[N]
  BY DEF HandleTtiTick
<1> HIDE DEF after
<1>5. \A k \in 1 .. N : /\ GrantFromBack(m, k) \in NicGrant
                        /\ GrantFromBack(m, k).offloadGnb = m.nodeId
  <2> SUFFICES ASSUME NEW k \in 1 .. N
               PROVE  GrantFromBack(m, k) \in NicGrant /\ GrantFromBack(m, k).offloadGnb = m.nodeId
    OBVIOUS
  <2> DEFINE i == N + 1 - k
  <2>1. GrantFromBack(m, k) = m.grantList[i]
    BY DEF GrantFromBack
  <2> HIDE DEF N
  <2>2. i \in 1 .. N
    BY <1>1
  <2>3. i \in DOMAIN m.grantList
    BY <1>1, <2>2 DEF N
  <2> HIDE DEF i
  <2> QED BY <1>1, <2>1, <2>3
<1> HIDE DEF N
<1>6. after[0] = ClearGrantList(m)
  BY <1>1, <1>3 DEF Drain
<1>7. ASSUME NEW k \in 0 .. N, k # N, Fine(after[k])
      PROVE  Fine(after[k + 1])
  <2> DEFINE r == after[k]
             g == GrantFromBack(m, k + 1)
             n == MecHandleGrantFromRsu(r, g, has)
  <2>1. k + 1 \in 0 .. N /\ k + 1 \in 1 .. N /\ k + 1 # 0 /\ (k + 1) - 1 = k
    BY <1>1, <1>7
  <2>2. after[k + 1] = n
    BY <1>3, <2>1 DEF Drain
  <2>3. g \in NicGrant /\ g.offloadGnb = m.nodeId
    BY <1>5, <2>1
  <2>4. Fine(r)
    BY <1>7
  <2> HIDE DEF r, g
  <2>5. g.app \in Apps
    BY <2>3 DEF NicGrant
  <2>6. /\ Good(n) /\ n.nodeId = m.nodeId
        /\ Frame(r, n, g.app) /\ Apart(r, n, g.app) /\ Served(n, g.app) /\ Honest(n)
    BY <2>3, <2>4, <2>5, MecHandleGrantFromRsuGood, MecHandleGrantFromRsuServes
  <2> HIDE DEF n
  <2>7. \A b \in Apps : Served(n, b)
    BY <2>4, <2>5, <2>6, OthersStayServed
  <2> QED BY <2>2, <2>4, <2>6, <2>7 DEF Apart
<1>8. \A k \in 0 .. N : Fine(after[k])
  <2> DEFINE Ok == {k \in 0 .. N : Fine(after[k])}
  <2>1. Fine(after[0])
    <3> DEFINE c == ClearGrantList(m)
    <3>1. Good(c) /\ c.nodeId = m.nodeId
      BY ClearGrantListGood
    <3>2. /\ c.vehDataRate = m.vehDataRate /\ c.out = m.out
          /\ c.flexibleBands = m.flexibleBands /\ \A b \in Apps : Served(c, b)
      BY ClearGrantListServes
    <3> HIDE DEF c
    <3>3. Honest(c)
      BY <3>2, ReportsUntouched
    <3> QED BY <1>6, <3>1, <3>2, <3>3 DEF c
  <2> HIDE DEF Fine
  <2>2. 0 \in Ok
    BY <1>1, <2>1
  <2>3. \A k \in 0 .. N : k # N /\ k \in Ok => k + 1 \in Ok
    BY <1>1, <1>7
  <2> HIDE DEF Ok
  <2>4. \A k \in 0 .. N : k \in Ok
    BY <1>1, <2>2, <2>3, UpTo
  <2> QED BY <2>4 DEF Ok
<1>9. Fine(after[N])
  BY <1>1, <1>8
<1> QED BY <1>4, <1>9

-----------------------------------------------------------------------------
(* Handlers.                                                                *)

\* a scheduled application of another vehicle that neither waits nor is paused
Elsewhere(m, u, a) ==
    /\ a \in m.scheduledApp \ (m.pausedApp \cup m.appToBeInitialized)
    /\ UeOf[a] # u

\* what a feedback of u may do: u's rate alone changes, the scheduled
\* applications of the other vehicles keep their place and their bands, and
\* every scheduled application is served
Considerate(m, n, u) ==
    /\ \A v \in Ues \ {u} : n.vehDataRate[v] = m.vehDataRate[v]
    /\ \A a \in Apps : Elsewhere(m, u, a) => Left(m, n, a)
    /\ \A a \in Apps : Served(n, a)

\* an application of another vehicle does not notice the new rate
LEMMA NewRateServes ==
  ASSUME NEW m, Good(m), NEW u \in Ues, NEW rate \in Nat, \A b \in Apps : Served(m, b)
  PROVE  LET n == SetVehDataRate(m, u, rate)
         IN  /\ n.out = m.out
             /\ \A v \in Ues \ {u} : n.vehDataRate[v] = m.vehDataRate[v]
             /\ \A b \in Apps : Left(m, n, b)
             /\ n.scheduledApp = m.scheduledApp
             /\ \A b \in Apps : Served(n, b) \/ b \in AppsOf(n.scheduledApp, u)
<1> DEFINE n == SetVehDataRate(m, u, rate)
<1>1. /\ n.out = m.out /\ n.vehDataRate = [m.vehDataRate EXCEPT ![u] = rate]
      /\ n.scheduledApp = m.scheduledApp /\ n.pausedApp = m.pausedApp
      /\ n.appToBeInitialized = m.appToBeInitialized
      /\ n.appGrantedRb = m.appGrantedRb /\ n.appTempRb = m.appTempRb
      /\ n.appGrantInfos = m.appGrantInfos
      /\ m.vehDataRate \in [Ues -> Nat]
  BY DEF Good, MacRecord, SetVehDataRate
<1> HIDE DEF n
<1>2. \A v \in Ues \ {u} : n.vehDataRate[v] = m.vehDataRate[v]
  BY <1>1
<1>3. \A b \in Apps : Left(m, n, b)
  BY <1>1 DEF Left
<1>4. ASSUME NEW b \in Apps, b \notin AppsOf(n.scheduledApp, u)
      PROVE  Served(n, b)
  <2>1. CASE b \notin n.scheduledApp
    BY <2>1 DEF Served
  <2>2. CASE UeOf[b] # u
    <3>1. GetVehDataRate(n, b) = GetVehDataRate(m, b)
      BY <1>2, <2>2, MecTypesAssumption DEF GetVehDataRate
    <3> QED BY <1>1, <3>1 DEF Served, Held, ReadAppRbOccupation
  <2> QED BY <1>4, <2>1, <2>2 DEF AppsOf
<1> QED BY <1>1, <1>2, <1>3, <1>4 DEF n

\* feedback that reached the gNB by broadcast
LEMMA BroadcastFeedbackServes ==
  ASSUME NEW m, Good(m), NEW u \in Ues, NEW rate \in Nat, NEW has \in BOOLEAN,
         \A b \in Apps : Served(m, b), Honest(m)
  PROVE  LET n == BroadcastFeedback(m, u, rate, has)
         IN  Considerate(m, n, u) /\ Honest(n)
<1> DEFINE new   == SetVehDataRate(m, u, rate)
           keep  == IF rate = m.vehDataRate[u] THEN "keepOrTerminate" ELSE "keepOrTerminateNewRate"
           range == AppsOf(new.scheduledApp, u)
           kept  == ForEachApp(new, range, keep)
           inits == ForEachApp(kept, kept.appToBeInitialized, "terminate")
           done  == ForEachApp(inits, inits.pausedApp, "terminate")
           told  == MecFeedbackRsuFd(done, u)
<1>1. BroadcastFeedback(m, u, rate, has) \in {told, done}
  BY DEF BroadcastFeedback
<1>2. /\ keep \in Bodies /\ keep \in Keeping /\ "terminate" \in Bodies
      /\ keep \in Reporting /\ "terminate" \in Reporting
  BY DEF Bodies, Keeping, Reporting
<1>3. /\ Good(new) /\ \A b \in Apps : Left(m, new, b)
      /\ \A v \in Ues \ {u} : new.vehDataRate[v] = m.vehDataRate[v]
      /\ new.scheduledApp = m.scheduledApp
      /\ \A b \in Apps : Served(new, b) \/ b \in range
  BY SetVehDataRateGood, NewRateServes
<1>h. Honest(new)
  <2>1. new.out = m.out /\ new.flexibleBands = m.flexibleBands
    BY DEF Good, MacRecord, SetVehDataRate
  <2> QED BY <2>1, ReportsUntouched
<1> HIDE DEF new, keep
<1>4. range \subseteq Apps /\ \A a \in range : Ready(new, a, keep)
  <2>1. range \subseteq new.scheduledApp /\ new.scheduledApp \subseteq Apps
    BY <1>3, AppsOfSubset DEF Good, MacRecord
  <2> QED BY <1>2, <2>1 DEF Ready, Keeping, Resuming
<1>a. \A a \in Apps : UeOf[a] # u => a \notin range
  BY DEF AppsOf
<1> HIDE DEF range
<1>5. /\ Good(kept) /\ kept.vehDataRate = new.vehDataRate
      /\ \A b \in Apps \ range : Left(new, kept, b)
      /\ \A b \in Apps : Served(kept, b)
      /\ Honest(kept)
  BY <1>2, <1>3, <1>h, <1>4, ForEachAppSame, ForEachAppServes
<1> HIDE DEF kept
<1>6. /\ kept.appToBeInitialized \subseteq Apps
      /\ \A a \in kept.appToBeInitialized : Ready(kept, a, "terminate")
  <2>1. kept.appToBeInitialized \subseteq Apps
    BY <1>5 DEF Good, MacRecord
  <2>2. kept.appToBeInitialized \subseteq kept.known
    BY <1>5 DEF Good, ListsOk
  <2> QED BY <2>1, <2>2 DEF Ready, Keeping, Resuming
<1>7. /\ Good(inits) /\ inits.vehDataRate = kept.vehDataRate
      /\ \A b \in Apps \ kept.appToBeInitialized : Left(kept, inits, b)
      /\ \A b \in Apps : Served(inits, b)
      /\ Honest(inits)
  BY <1>2, <1>5, <1>6, ForEachAppSame, ForEachAppServes
<1> HIDE DEF inits
<1>8. /\ inits.pausedApp \subseteq Apps
      /\ \A a \in inits.pausedApp : Ready(inits, a, "terminate")
  <2>1. inits.pausedApp \subseteq Apps
    BY <1>7 DEF Good, MacRecord
  <2>2. inits.pausedApp \subseteq inits.known
    BY <1>7 DEF Good, ListsOk
  <2> QED BY <2>1, <2>2 DEF Ready, Keeping, Resuming
<1>9. /\ Good(done) /\ done.vehDataRate = inits.vehDataRate
      /\ \A b \in Apps \ inits.pausedApp : Left(inits, done, b)
      /\ \A b \in Apps : Served(done, b)
      /\ Honest(done)
  BY <1>2, <1>7, <1>8, ForEachAppSame, ForEachAppServes
<1> HIDE DEF done
<1>10. ASSUME NEW a \in Apps, Elsewhere(m, u, a) PROVE Left(m, done, a)
  <2>1. Left(m, kept, a)
    BY <1>3, <1>5, <1>a, <1>10, LeftTransitive DEF Elsewhere
  <2>2. a \notin kept.appToBeInitialized
    BY <1>10, <2>1 DEF Left, Elsewhere
  <2>3. Left(m, inits, a)
    BY <1>7, <2>1, <2>2, LeftTransitive
  <2>4. a \notin inits.pausedApp
    BY <1>10, <2>3 DEF Left, Elsewhere
  <2> QED BY <1>9, <2>3, <2>4, LeftTransitive
<1>11. Considerate(m, done, u)
  BY <1>3, <1>5, <1>7, <1>9, <1>10 DEF Considerate
<1>12. Considerate(m, told, u) /\ Honest(told)
  <2> DEFINE msg == [type |-> "RsuFD", gnb |-> done.nodeId, veh |-> u,
                     bytePerBand |-> done.vehDataRate[u], availBand |-> GetAvailableBands(done)]
  <2>0. told = Emit(done, msg)
    BY DEF MecFeedbackRsuFd
  <2>1. msg.type = "RsuFD" /\ msg.availBand = GetAvailableBands(done) /\ done \in MacRecord
    BY <1>9 DEF Good
  <2> HIDE DEF msg, told
  <2>2. /\ Honest(told) /\ told.vehDataRate = done.vehDataRate
        /\ \A b \in Apps : Left(done, told, b) /\ Served(told, b)
    BY <1>9, <2>0, <2>1, EmitReports, EmitFields DEF Left
  <2>3. \A a \in Apps : Elsewhere(m, u, a) => Left(m, told, a)
    BY <1>10, <2>2, LeftTransitive
  <2> QED BY <1>11, <2>2, <2>3 DEF Considerate
<1> QED BY <1>1, <1>9, <1>11, <1>12

\* feedback sent to the serving gNB alone
LEMMA LocalFeedbackServes ==
  ASSUME NEW m, Good(m), NEW u \in Ues, NEW rate \in Nat,
         \A b \in Apps : Served(m, b), Silent(m)
  PROVE  LET n == LocalFeedback(m, u, rate)
         IN  Considerate(m, n, u) /\ Silent(n)
<1> DEFINE new    == SetVehDataRate(m, u, rate)
           active == AppsOf(new.scheduledApp, u)
           keep   == IF rate = m.vehDataRate[u] THEN "keepOrPause" ELSE "keepOrPauseNewRate"
           kept   == ForEachApp(new, active, keep)
           a2p    == active \ kept.scheduledApp
           waits  == AppsOf(kept.appToBeInitialized, u)
           inits  == ForEachApp(kept, waits, "tryInitialize")
           again  == ForEachApp(inits, a2p, "resumeOrPause")
           rest   == again.pausedApp \ a2p
           done   == ForEachApp(again, rest, "tryResume")
<1>1. LocalFeedback(m, u, rate) = done
  BY DEF LocalFeedback
<1> HIDE DEF inits, again, rest, done
<1>2. /\ keep \in Bodies /\ keep \in Keeping /\ keep \in Pausing /\ keep \notin Reporting
      /\ "tryInitialize" \in Bodies /\ "tryInitialize" \notin Reporting
      /\ "resumeOrPause" \in Bodies /\ "resumeOrPause" \notin Reporting
      /\ "tryResume" \in Bodies /\ "tryResume" \notin Reporting
  BY DEF Bodies, Keeping, Pausing, Resuming, Reporting
<1>3. /\ Good(new) /\ \A b \in Apps : Left(m, new, b)
      /\ \A v \in Ues \ {u} : new.vehDataRate[v] = m.vehDataRate[v]
      /\ new.out = m.out
      /\ \A b \in Apps : Served(new, b) \/ b \in active
  BY SetVehDataRateGood, NewRateServes
<1>s. Silent(new)
  BY <1>3 DEF Silent
<1> HIDE DEF new, keep
<1>4. active \subseteq Apps /\ \A a \in active : Ready(new, a, keep)
  <2>1. active \subseteq new.scheduledApp /\ new.scheduledApp \subseteq Apps
    BY <1>3, AppsOfSubset DEF Good, MacRecord
  <2> QED BY <1>2, <2>1 DEF Ready, Keeping, Resuming
<1>a. \A a \in Apps : UeOf[a] # u => a \notin active /\ a \notin waits
  BY DEF AppsOf
<1> HIDE DEF active
<1>5. /\ Good(kept) /\ kept.vehDataRate = new.vehDataRate
      /\ active \subseteq kept.scheduledApp \cup kept.pausedApp
      /\ \A b \in Apps \ active : Left(new, kept, b)
      /\ \A b \in Apps : Served(kept, b)
      /\ Silent(kept)
  BY <1>2, <1>3, <1>s, <1>4, ForEachAppGood, ForEachAppServes
<1> HIDE DEF kept
<1>6. a2p \subseteq Apps /\ a2p \subseteq kept.pausedApp /\ a2p \subseteq active
  BY <1>4, <1>5
<1> HIDE DEF a2p
<1>7. waits \subseteq Apps /\ \A a \in waits : Ready(kept, a, "tryInitialize")
  <2>1. /\ waits \subseteq kept.appToBeInitialized
        /\ kept.appToBeInitialized \subseteq Apps
    BY <1>5, AppsOfSubset DEF Good, MacRecord
  <2> QED BY <2>1 DEF Ready, Keeping, Resuming
<1> HIDE DEF waits
<1>8. /\ Good(inits) /\ inits.pausedApp = kept.pausedApp
      /\ inits.vehDataRate = kept.vehDataRate
      /\ \A b \in Apps \ waits : Left(kept, inits, b)
      /\ \A b \in Apps : Served(inits, b)
      /\ Silent(inits)
  <2>0. "tryInitialize" \in Bodies /\ Good(kept)
    BY <1>2, <1>5
  <2>1. Good(inits) /\ inits.pausedApp = kept.pausedApp
    BY <1>7, <2>0, ForEachAppGood DEF inits
  <2> QED BY <1>2, <1>5, <1>7, <2>1, ForEachAppServes DEF inits
<1>9. \A a \in a2p : Ready(inits, a, "resumeOrPause")
  BY <1>6, <1>8 DEF Ready, Keeping, Resuming
<1>10. /\ Good(again) /\ again.vehDataRate = inits.vehDataRate
       /\ \A b \in Apps \ a2p : Left(inits, again, b)
       /\ \A b \in Apps : Served(again, b)
       /\ Silent(again)
  BY <1>2, <1>6, <1>8, <1>9, ForEachAppSame, ForEachAppServes DEF again
<1>11. rest \subseteq Apps /\ \A a \in rest : Ready(again, a, "tryResume")
  BY <1>10 DEF Good, MacRecord, Ready, Keeping, Resuming, rest
<1>12. /\ done.vehDataRate = again.vehDataRate
       /\ \A b \in Apps \ rest : Left(again, done, b)
       /\ \A b \in Apps : Served(done, b)
       /\ Silent(done)
  BY <1>2, <1>10, <1>11, ForEachAppServes DEF done
<1>13. ASSUME NEW a \in Apps, Elsewhere(m, u, a) PROVE Left(m, done, a)
  <2>0. a \notin active /\ a \notin waits /\ a \notin a2p
    BY <1>6, <1>a, <1>13 DEF Elsewhere
  <2>1. Left(m, kept, a)
    BY <1>3, <1>5, <2>0, LeftTransitive
  <2>2. Left(m, again, a)
    BY <1>8, <1>10, <2>0, <2>1, LeftTransitive
  <2>3. a \notin rest
    BY <1>13, <2>2 DEF Left, Elsewhere, rest
  <2> QED BY <1>12, <2>2, <2>3, LeftTransitive
<1>14. Considerate(m, done, u)
  BY <1>3, <1>5, <1>8, <1>10, <1>12, <1>13 DEF Considerate
<1> QED BY <1>1, <1>12, <1>14

\* the reset schedules nothing and reports nothing
LEMMA MecTerminateAllGrantServes ==
  ASSUME NEW m, Good(m), \A b \in Apps : Served(m, b), Silent(m)
  PROVE  LET n == MecTerminateAllGrant(m)
         IN  Silent(n) /\ \A b \in Apps : Served(n, b)
<1> DEFINE allApps == m.scheduledApp \cup m.appToBeInitialized \cup m.pausedApp
           cleared == ClearGrantList(m)
           stopped == ForEachApp(cleared, allApps, "sendStop")
           n       == ResetRbStatus(stopped)
<1>1. MecTerminateAllGrant(m) = n
  BY DEF MecTerminateAllGrant
<1>2. /\ Good(cleared)
      /\ allApps = cleared.scheduledApp \cup cleared.appToBeInitialized \cup cleared.pausedApp
      /\ cleared.out = m.out /\ \A b \in Apps : Served(cleared, b)
  BY ClearGrantListGood, ClearGrantListServes
<1> HIDE DEF cleared, allApps, stopped
<1>3. /\ allApps \subseteq Apps /\ \A a \in allApps : Ready(cleared, a, "sendStop")
      /\ "sendStop" \in Bodies /\ "sendStop" \notin Reporting
  BY <1>2 DEF Good, MacRecord, ListsOk, Ready, Keeping, Resuming, Bodies, Reporting
<1>4. Silent(cleared)
  BY <1>2 DEF Silent
<1>5. Good(stopped) /\ Silent(stopped)
  BY <1>2, <1>3, <1>4, ForEachAppSame, ForEachAppServes DEF stopped
<1>6. n.out = stopped.out /\ n.scheduledApp = {}
  BY <1>5 DEF ResetRbStatus, Good, MacRecord
<1> HIDE DEF n
<1> QED BY <1>1, <1>5, <1>6 DEF Silent, Served

-----------------------------------------------------------------------------
(* Steps.  IInv and Serving are inductive together: what a method needs of  *)
(* the bands and the lists is Good, what it owes its application is Served. *)

Serving == \A g \in Gnbs, a \in Apps : Served(mac[g], a)

\* what each handler owes: honesty, service, and the bands of the other vehicles
Owes(g, h) ==
    /\ h \in MacRecord
    /\ Honest(h)
    /\ \A a \in Apps : Served(h, a)
    /\ \A u \in Ues : hasScheduler'[g] /\ h.vehDataRate[u] # mac[g].vehDataRate[u] =>
          \A a \in Apps : Elsewhere(mac[g], u, a) => Left(mac[g], h, a)

\* a handler has sent nothing when it starts
LEMMA StartsSilent ==
  ASSUME IInv, NEW g \in Gnbs
  PROVE  Silent(mac[g]) /\ Honest(mac[g])
<1>1. mac[g].out = <<>>
  BY DEF IInv, Settled
<1>2. Reports(mac[g].out) = {}
  BY <1>1 DEF Reports
<1> QED BY <1>2 DEF Silent, Honest

\* one gNB acts in a step, and its handler pays what it owes
LEMMA NextPerforms ==
  ASSUME IInv, Serving, Next
  PROVE  \E g \in Gnbs : \E h : Perform(g, h) /\ Owes(g, h)
<1>1. ASSUME NEW g \in Gnbs
      PROVE  /\ Good(mac[g]) /\ mac[g] \in MacRecord /\ hasScheduler[g] \in BOOLEAN
             /\ \A i \in DOMAIN mac[g].grantList : mac[g].grantList[i].offloadGnb = mac[g].nodeId
             /\ Silent(mac[g]) /\ Honest(mac[g]) /\ \A a \in Apps : Served(mac[g], a)
  BY <1>1, StartsSilent DEF IInv, Settled, Good, Serving
<1>2. ASSUME NEW g \in Gnbs, NEW grant \in ServerGrants(g), ReceiveNicGrant(g, grant)
      PROVE  \E h : Perform(g, h) /\ Owes(g, h)
  <2> DEFINE h == [mac[g] EXCEPT !.grantList = Append(@, grant)]
  <2>1. Perform(g, h) /\ IInv'
    BY <1>2, NextIInv DEF ReceiveNicGrant, Next
  <2>2. Owes(g, h)
    <3>1. /\ h.out = mac[g].out /\ h.flexibleBands = mac[g].flexibleBands
          /\ h.scheduledApp = mac[g].scheduledApp
          /\ h.appToBeInitialized = mac[g].appToBeInitialized
          /\ h.appGrantedRb = mac[g].appGrantedRb /\ h.appTempRb = mac[g].appTempRb
          /\ h.appGrantInfos = mac[g].appGrantInfos /\ h.vehDataRate = mac[g].vehDataRate
      BY <1>1 DEF MacRecord
    <3>2. Honest(h)
      BY <1>1, <3>1, ReportsUntouched
    <3>3. \A a \in Apps : Served(h, a)
      BY <1>1, <3>1 DEF Served, GetVehDataRate, Held, ReadAppRbOccupation
    <3>4. h \in MacRecord
      <4>1. mac'[g] \in MacRecord /\ mac' = [mac EXCEPT ![g] = [h EXCEPT !.out = <<>>]]
        BY <2>1 DEF IInv, Perform
      <4>2. mac'[g] = [h EXCEPT !.out = <<>>]
        BY <4>1 DEF IInv
      <4>3. mac'[g].grantList = h.grantList
        BY <1>1, <4>2 DEF MacRecord
      <4>4. h.grantList \in Seq(NicGrant)
        BY <4>1, <4>3 DEF MacRecord
      <4> DEFINE list == Append(mac[g].grantList, grant)
      <4>5. h = [mac[g] EXCEPT !.grantList = list] /\ h.grantList = list
        BY <1>1 DEF MacRecord
      <4>6. mac[g] \in MacRecord
        BY <1>1
      <4> HIDE DEF h, list
      <4> QED BY <4>4, <4>5, <4>6 DEF MacRecord
    <3> QED BY <3>1, <3>2, <3>3, <3>4 DEF Owes
  <2> QED BY <2>1, <2>2
<1>3. ASSUME NEW g \in Gnbs, TtiTick(g)
      PROVE  \E h : Perform(g, h) /\ Owes(g, h)
  <2> DEFINE h == HandleTtiTick(mac[g], hasScheduler[g])
  <2>1. Perform(g, h)
    BY <1>3 DEF TtiTick
  <2> HIDE DEF h
  <2>2. /\ Good(h) /\ Honest(h) /\ h.vehDataRate = mac[g].vehDataRate
        /\ \A a \in Apps : Served(h, a)
    BY <1>1, HandleTtiTickGood, HandleTtiTickServes DEF h
  <2> QED BY <2>1, <2>2 DEF Owes, Good
<1>4. ASSUME NEW g \in Gnbs, NEW u \in Ues, NEW rate \in Rates, NEW b \in BOOLEAN,
             ReceiveFeedback(g, u, rate, b)
      PROVE  \E h : Perform(g, h) /\ Owes(g, h)
  <2> DEFINE m == mac[g]
             h == MecFeedbackRsuStatus(m, u, rate, b, hasScheduler[g])
  <2>1. Perform(g, h)
    BY <1>4 DEF ReceiveFeedback
  <2>2. rate \in Nat
    BY GnbMacAssumption
  <2>3. h \in {BroadcastFeedback(m, u, rate, hasScheduler[g]), LocalFeedback(m, u, rate)}
    BY DEF MecFeedbackRsuStatus
  <2> HIDE DEF h
  <2>4. Good(h) /\ Considerate(m, h, u) /\ (Honest(h) \/ Silent(h))
    BY <1>1, <2>2, <2>3, BroadcastFeedbackGood, LocalFeedbackGood,
       BroadcastFeedbackServes, LocalFeedbackServes
  <2>5. Honest(h)
    BY <2>4 DEF Silent, Honest
  <2>6. Owes(g, h)
    BY <2>4, <2>5 DEF Owes, Considerate, Good
  <2> QED BY <2>1, <2>6
<1>5. ASSUME NEW g \in Gnbs, LoseScheduler(g)
      PROVE  \E h : Perform(g, h) /\ Owes(g, h)
  <2> DEFINE h == MecTerminateAllGrant(mac[g])
  <2>1. Perform(g, h) /\ hasScheduler' = [hasScheduler EXCEPT ![g] = FALSE]
    BY <1>5 DEF LoseScheduler
  <2> HIDE DEF h
  <2>2. Good(h) /\ Silent(h) /\ \A a \in Apps : Served(h, a)
    BY <1>1, MecTerminateAllGrantGood, MecTerminateAllGrantServes DEF h
  <2>3. ~hasScheduler'[g]
    BY <2>1 DEF IInv
  <2>4. Owes(g, h)
    BY <2>2, <2>3 DEF Owes, Good, Silent, Honest
  <2> QED BY <2>1, <2>4
<1>6. ASSUME NEW g \in Gnbs, FindScheduler(g)
      PROVE  \E h : Perform(g, h) /\ Owes(g, h)
  <2> DEFINE h   == MecRecoverRsuStatus(mac[g])
             msg == [type |-> "RsuFD", gnb |-> mac[g].nodeId, veh |-> NoUe,
                     bytePerBand |-> 0, availBand |-> GetAvailableBands(mac[g])]
  <2>1. Perform(g, h) /\ h = Emit(mac[g], msg)
    BY <1>6 DEF FindScheduler, MecRecoverRsuStatus
  <2>2. Good(h)
    BY <1>1, RecoverGood
  <2>3. msg.type = "RsuFD" /\ msg.availBand = GetAvailableBands(mac[g])
    OBVIOUS
  <2> HIDE DEF h, msg
  <2>4. /\ Honest(h) /\ \A a \in Apps : Served(h, a)
        /\ h.vehDataRate = mac[g].vehDataRate
    BY <1>1, <2>1, <2>3, EmitReports, EmitFields
  <2>5. Owes(g, h)
    BY <2>2, <2>4 DEF Owes, Good
  <2> QED BY <2>1, <2>5
<1>7. ASSUME NEW g \in Gnbs, NodeDown(g)
      PROVE  \E h : Perform(g, h) /\ Owes(g, h)
  <2> DEFINE m == MecTerminateAllGrant(mac[g])
             h == [m EXCEPT !.disableNic = TRUE]
  <2>1. Perform(g, h) /\ hasScheduler' = [hasScheduler EXCEPT ![g] = FALSE]
    BY <1>7 DEF NodeDown
  <2> HIDE DEF m
  <2>2. Good(m) /\ Silent(m) /\ \A a \in Apps : Served(m, a)
    BY <1>1, MecTerminateAllGrantGood, MecTerminateAllGrantServes DEF m
  <2>3. Good(h) /\ h.out = m.out /\ h.scheduledApp = m.scheduledApp
        /\ h.appToBeInitialized = m.appToBeInitialized
        /\ h.appGrantedRb = m.appGrantedRb /\ h.appTempRb = m.appTempRb
        /\ h.appGrantInfos = m.appGrantInfos /\ h.vehDataRate = m.vehDataRate
    BY <2>2, DisableNicGood DEF Good, MacRecord
  <2> HIDE DEF h
  <2>4. Silent(h) /\ \A a \in Apps : Served(h, a)
    BY <2>2, <2>3 DEF Silent, Served, GetVehDataRate, Held, ReadAppRbOccupation
  <2>5. ~hasScheduler'[g]
    BY <2>1 DEF IInv
  <2>6. Owes(g, h)
    BY <2>3, <2>4, <2>5 DEF Owes, Good, Silent, Honest
  <2> QED BY <2>1, <2>6
<1>8. ASSUME NEW g \in Gnbs, NodeUp(g)
      PROVE  \E h : Perform(g, h) /\ Owes(g, h)
  <2> DEFINE m == mac[g]
             h == [m EXCEPT !.disableNic = FALSE]
  <2>1. Perform(g, h)
    BY <1>8 DEF NodeUp
  <2>0. Good(m) /\ m \in MacRecord
    BY <1>1
  <2> HIDE DEF m
  <2>2. Good(h) /\ h.out = m.out /\ h.scheduledApp = m.scheduledApp
        /\ h.flexibleBands = m.flexibleBands
        /\ h.appToBeInitialized = m.appToBeInitialized
        /\ h.appGrantedRb = m.appGrantedRb /\ h.appTempRb = m.appTempRb
        /\ h.appGrantInfos = m.appGrantInfos /\ h.vehDataRate = m.vehDataRate
    <3>1. Good(h)
      BY <2>0, DisableNicGood
    <3> QED BY <2>0, <3>1 DEF MacRecord
  <2> HIDE DEF h
  <2>3. Honest(h) /\ \A a \in Apps : Served(h, a)
    BY <1>1, <2>2, ReportsUntouched DEF m, Served, GetVehDataRate, Held, ReadAppRbOccupation
  <2>4. Owes(g, h)
    BY <2>2, <2>3 DEF Owes, Good, m
  <2> QED BY <2>1, <2>4
<1> QED BY <1>2, <1>3, <1>4, <1>5, <1>6, <1>7, <1>8 DEF Next

\* what a step leaves of the gNB that acts, and of the others
LEMMA PerformFields ==
  ASSUME IInv, NEW g \in Gnbs, NEW h \in MacRecord, Perform(g, h)
  PROVE  /\ out' = h.out
         /\ \A k \in Gnbs \ {g} : mac'[k] = mac[k]
         /\ mac'[g].scheduledApp = h.scheduledApp
         /\ mac'[g].appToBeInitialized = h.appToBeInitialized
         /\ mac'[g].flexibleBands = h.flexibleBands
         /\ mac'[g].appGrantedRb = h.appGrantedRb /\ mac'[g].appTempRb = h.appTempRb
         /\ mac'[g].appGrantInfos = h.appGrantInfos /\ mac'[g].vehDataRate = h.vehDataRate
<1> DEFINE empty == <<>>
           n     == [h EXCEPT !.out = empty]
<1>1. out' = h.out /\ mac' = [mac EXCEPT ![g] = n]
  BY DEF Perform
<1> HIDE DEF empty
<1>2. /\ n.scheduledApp = h.scheduledApp /\ n.appToBeInitialized = h.appToBeInitialized
      /\ n.flexibleBands = h.flexibleBands
      /\ n.appGrantedRb = h.appGrantedRb /\ n.appTempRb = h.appTempRb
      /\ n.appGrantInfos = h.appGrantInfos /\ n.vehDataRate = h.vehDataRate
  BY DEF MacRecord
<1> HIDE DEF n
<1>3. mac'[g] = n /\ \A k \in Gnbs \ {g} : mac'[k] = mac[k]
  BY <1>1 DEF IInv
<1> QED BY <1>1, <1>2, <1>3

\* the invariant of service
LEMMA ServingInductive == IInv /\ Serving /\ [Next]_vars => Serving'
<1> SUFFICES ASSUME IInv, Serving, [Next]_vars PROVE Serving'
  OBVIOUS
<1>1. CASE Next
  <2>1. PICK g \in Gnbs : \E h : Perform(g, h) /\ Owes(g, h)
    BY <1>1, NextPerforms
  <2>2. PICK h : Perform(g, h) /\ Owes(g, h)
    BY <2>1
  <2>3. ASSUME NEW k \in Gnbs, NEW a \in Apps PROVE Served(mac'[k], a)
    <3>1. CASE k # g
      <4>1. mac'[k] = mac[k]
        BY <2>2, <3>1, PerformFields DEF Owes
      <4> QED BY <4>1 DEF Serving
    <3>2. CASE k = g
      <4>1. /\ mac'[g].scheduledApp = h.scheduledApp
            /\ mac'[g].appToBeInitialized = h.appToBeInitialized
            /\ mac'[g].appGrantedRb = h.appGrantedRb /\ mac'[g].appTempRb = h.appTempRb
            /\ mac'[g].appGrantInfos = h.appGrantInfos /\ mac'[g].vehDataRate = h.vehDataRate
            /\ Served(h, a)
        BY <2>2, PerformFields DEF Owes
      <4> QED BY <3>2, <4>1 DEF Served, GetVehDataRate, Held, ReadAppRbOccupation
    <3> QED BY <3>1, <3>2
  <2> QED BY <2>3 DEF Serving, Served, GetVehDataRate, Held, ReadAppRbOccupation
<1>2. CASE UNCHANGED vars
  BY <1>2 DEF vars, Serving, Served, GetVehDataRate, Held, ReadAppRbOccupation
<1> QED BY <1>1, <1>2

\* nothing is scheduled at first
LEMMA InitServing == Init => Serving
<1> SUFFICES ASSUME Init, NEW g \in Gnbs, NEW a \in Apps PROVE Served(mac[g], a)
  BY DEF Serving
<1>1. mac[g] = InitialMac(g)
  BY DEF Init
<1>2. mac[g].scheduledApp = {}
  BY <1>1 DEF InitialMac, ResetRbStatus
<1> QED BY <1>2 DEF Served

(* In every reachable state every scheduled application holds enough bands  *)
(* for its load at the rate its vehicle last reported.                      *)
THEOREM ScheduledStayServed == Spec => []ScheduledIsServed
<1>1. Init => IInv /\ Serving
  BY InitIInv, InitServing
<1>2. IInv /\ Serving /\ [Next]_vars => (IInv /\ Serving)'
  BY NextIInv, ServingInductive
<1>3. IInv /\ Serving => ScheduledIsServed
  <2> SUFFICES ASSUME IInv, Serving, NEW g \in Gnbs,
                      NEW a \in mac[g].scheduledApp \ mac[g].appToBeInitialized
               PROVE  LET m == mac[g]
                      IN  /\ GetVehDataRate(m, a) > 0
                          /\ m.appGrantInfos[a].load
                               <= GetVehDataRate(m, a) * Cardinality(Held(m, a))
    BY DEF ScheduledIsServed
  <2>1. a \in Apps
    BY DEF IInv, MacRecord
  <2> QED BY <2>1 DEF Serving, Served
<1> QED BY <1>1, <1>2, <1>3, PTL DEF Spec

(* A feedback that changes the rate of a vehicle takes no band from, and    *)
(* gives none to, a scheduled application of another vehicle.               *)
THEOREM OthersKeepBands == Spec => OthersKeepTheirBands
<1> DEFINE Kept == \A g \in Gnbs, u \in Ues :
              (hasScheduler'[g] /\ mac'[g].vehDataRate[u] # mac[g].vehDataRate[u]) =>
                  \A a \in mac[g].scheduledApp \ (mac[g].pausedApp \cup mac[g].appToBeInitialized) :
                      UeOf[a] # u => /\ a \in mac'[g].scheduledApp
                                     /\ Held(mac'[g], a) = Held(mac[g], a)
<1>1. Init => IInv /\ Serving
  BY InitIInv, InitServing
<1>2. IInv /\ Serving /\ [Next]_vars => (IInv /\ Serving)'
  BY NextIInv, ServingInductive
<1>3. IInv /\ Serving /\ [Next]_vars => [Kept]_vars
  <2> SUFFICES ASSUME IInv, Serving, Next PROVE Kept
    OBVIOUS
  <2>1. PICK g \in Gnbs : \E h : Perform(g, h) /\ Owes(g, h)
    BY NextPerforms
  <2>2. PICK h : Perform(g, h) /\ Owes(g, h)
    BY <2>1
  <2>3. ASSUME NEW k \in Gnbs, NEW u \in Ues, hasScheduler'[k],
               mac'[k].vehDataRate[u] # mac[k].vehDataRate[u],
               NEW a \in mac[k].scheduledApp \ (mac[k].pausedApp \cup mac[k].appToBeInitialized),
               UeOf[a] # u
        PROVE  a \in mac'[k].scheduledApp /\ Held(mac'[k], a) = Held(mac[k], a)
    <3>1. k = g
      BY <2>2, <2>3, PerformFields DEF Owes
    <3>2. /\ mac'[g].scheduledApp = h.scheduledApp /\ mac'[g].vehDataRate = h.vehDataRate
          /\ mac'[g].appGrantedRb = h.appGrantedRb /\ mac'[g].appTempRb = h.appTempRb
      BY <2>2, PerformFields DEF Owes
    <3>3. a \in Apps /\ Elsewhere(mac[g], u, a)
      BY <2>3, <3>1 DEF Elsewhere, IInv, MacRecord
    <3>4. Left(mac[g], h, a)
      BY <2>2, <2>3, <3>1, <3>2, <3>3 DEF Owes
    <3> QED BY <2>3, <3>1, <3>2, <3>4 DEF Left, Held, ReadAppRbOccupation
  <2> QED BY <2>3
<1>4. Spec => [][Kept]_vars
  BY <1>1, <1>2, <1>3, PTL DEF Spec
<1> QED BY <1>4 DEF OthersKeepTheirBands

(* The number of free bands in the last report of a handler is the number   *)
(* that is free when it ends.                                               *)
THEOREM ReportsAreHonest == Spec => ReportsFreeBands
<1> DEFINE True == \A g \in Gnbs :
              LET reports == {i \in DOMAIN out' : out'[i].type \in {"SrvFD", "RsuFD"}}
              IN  (mac'[g] # mac[g] /\ reports # {}) =>
                      out'[Last(reports)].availBand = GetAvailableBands(mac'[g])
<1>1. Init => IInv /\ Serving
  BY InitIInv, InitServing
<1>2. IInv /\ Serving /\ [Next]_vars => (IInv /\ Serving)'
  BY NextIInv, ServingInductive
<1>3. IInv /\ Serving /\ [Next]_vars => [True]_vars
  <2> SUFFICES ASSUME IInv, Serving, Next PROVE True
    OBVIOUS
  <2>1. PICK g \in Gnbs : \E h : Perform(g, h) /\ Owes(g, h)
    BY NextPerforms
  <2>2. PICK h : Perform(g, h) /\ Owes(g, h)
    BY <2>1
  <2>3. /\ out' = h.out /\ mac'[g].flexibleBands = h.flexibleBands
        /\ \A k \in Gnbs \ {g} : mac'[k] = mac[k]
        /\ Honest(h)
    BY <2>2, PerformFields DEF Owes
  <2>4. GetAvailableBands(mac'[g]) = GetAvailableBands(h)
    BY <2>3 DEF GetAvailableBands
  <2>5. {i \in DOMAIN out' : out'[i].type \in {"SrvFD", "RsuFD"}} = Reports(h.out)
    BY <2>3 DEF Reports
  <2> QED BY <2>3, <2>4, <2>5 DEF Honest
<1>4. Spec => [][True]_vars
  BY <1>1, <1>2, <1>3, PTL DEF Spec
<1> QED BY <1>4 DEF ReportsFreeBands

=============================================================================
