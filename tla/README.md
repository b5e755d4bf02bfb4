# A verification development for mecRT

mecRT simulates edge computing on a radio access network: vehicles ask a
scheduler to have their applications served, the scheduler picks an offloading
gNB (whose uplink carries the data) and a processing gNB (whose edge server runs
the service), and grants, channel feedback and reports travel between scheduler,
servers, base stations and vehicles while nodes and links fail and the backhaul
elects another scheduler. The modules here model the protocol of that control
plane. They are translated from the C++ under `src/src/mecrt`; paths below are
relative to it.

## Inventory

| Component | State it keeps | Operations | Talks to | What is hard | What makes it correct | Modules |
|---|---|---|---|---|---|---|
| `GnbMac` (edge half) | `grantList_`, `disableNic_`, an `RbManagerUl` | grant from a server, `ttiTick_`, channel feedback, `mecTerminateAllGrant`, `mecRecoverRsuStatus` | server (NicGrant in, SrvFD and RsuFD out), vehicle (VehGrant out), NodeInfo (calls) | loops over copies of lists that they change; LIFO grant list; a second grant over a living one | every band has one holder, none leaks, scheduled means served, the vehicle is told every change, reports are current | `GnbMacHandlers`, `GnbMac` |
| `RbManagerUl` | three lists, two band maps, free bands, grant infos, rates | schedule granted / active / paused, terminate, release, reset | called by `GnbMac` | the same fact is kept in five containers | they agree | `RbManagerUl` |
| `Server` | `grantedService_`, `cmpUnitFree_`, two waiting sets, the initialization queue and its one timer | SrvGrant start and stop, timer, SrvFD, RsuFD, release | scheduler, MAC of the offloading gNB | stop during initialization, acceptance racing a stop, orphans of a gNB that reset | units are conserved, queue and timer agree, every end is reported | `ServerHandlers`, `Server` |
| `NodeInfo` | node and link state, global scheduler address, status timer | node and link down/up, `setGlobalSchedulerAddr` | resets and recovers MAC, server, NPC, scheduler | each node resets at its own moment | a reset leaves the state of a fresh node | in the four compositions |
| `Scheduler` | requests, vehicle rates, RSU resources and holds, initiating / running services, waits | requests, RsuFD, SrvFD, batch rounds, stop, reset | servers, NPC, NodeInfo, schemes | second grants of a living application, holds released with the wrong numbers, dated merges | one carrier per application, no hold leaks, plans on true resources | `SchedulerHandlers`, `ServiceLifecycle` |
| Distributed scheduling (`Scheduler`, `AccuracyDistIS`, tokens of `UePhy`) | stage, number and category a gNB works on, tokens, candidates, what is left | preference values, tokens, batches, candidate and solution selection | vehicles, which carry the tokens between gNBs | everyone waits for everyone's tokens; order of the visits | schedules made apart are feasible together and worth what was promised; rounds end | `DistScheduling` |
| Schemes (`SchemeBase`, accuracy, accuracyNF, energy) | candidate tables of one round | reachability, candidates, selection | called by `Scheduler` | capacity and delay bounds | a selection fits the resources it was given | `Schemes`; `IsSchedule` in `SchedulerHandlers` |
| `MecOspf` | neighbours, LSA cache, topology, routes, scheduler | hello, LSA timer, flooding, route computation, node and interface failure | other nodes, NodeInfo | stale LSAs, split elections, postponed computation | one scheduler per area, the best connected, reached without loops, changed only through a reset | `MecOspfHandlers`, `MecOspf`, `SchedulerView` |
| `UeMac` / `UePhy` | `vecGrant_`, `grantedApp_`, `grantedRsus_`, waiting data, `ttiTick_` | VehGrant, data requests, feedback | MAC, `UeApp` | grants of two gNBs for one application; a job in the TTI of a stop | it sends only on a living grant, on the bands the gNB set aside | `UeHandlers`, `Vehicle` |
| `UeApp` | job timer, grant | grant, pause, stop, job | `UeMac` | its view and the MAC's may part | it offloads exactly when the MAC has a grant | `UeHandlers`, `Vehicle` |
| `NodePacketController` | buffered and broadcast requests | request flooding, grant and feedback forwarding, recovery | all nodes, Scheduler, MAC | suppression of repeats while neighbours come and go; a packet lost on a link that has just failed or for want of a route | whoever of a node and its neighbours is elected knows the requests | `RequestFlooding` |

Left aside: the radio stack adapted from Simu5G (MAC schedulers, AMC, PHY, RLC,
PDCP, IP2NIC, GTP user plane), mobility traces, profile files, generated
message classes and the simulation scenarios. Their effect on the modelled parts
is the rate a vehicle reports and the delay of a message; both are chosen freely.
By lines they are most of the source: a quarter of it is generated
(`packets/apps/*_m.cc` and `*_m.h`) and more is adapted radio stack.

## Modules

In every part the handlers are operators from an object's record to the changed
record, one operator per method, in a module without variables; the state
machines take them as actions. So the same handlers are checked alone, where the
other side may do anything, and composed, where the other side is the real one.

* `MecTypes`: identifiers shared by all modules. An `AppId` is a number, because
  the code walks `std::set<AppId>` in ascending order; `UeOf` is `MacCidToNodeId`.
* `RbManagerUl`: one operator per method of the class. A band stands for its
  `rbPerBand_` blocks, so a block map is a set of bands; input size and allowed
  time meet in one number, `load`, the bytes per TTI the grant has to carry.
* `GnbMacHandlers`: the handlers of `GnbMac`. A record field `out` collects the
  messages a handler sends, in order; `failed` is set where the code throws
  `cRuntimeError`. The bodies of the loops of `mecFeedbackRsuStatus` are operators
  of one application and `ForEachApp` is the walk over a set, a recursive
  function (so the module can be proved about).
* `GnbMac`: the state machine. Any grant a server can send and any feedback a
  vehicle can send may come at any time. `DoubleGrants` says whether a server
  may grant what the gNB already carries: the scheduler does so by default,
  because `determinePendingScheduleApps` does not leave out the applications
  that are allocated or initiating.
* `ServerHandlers`, `Server`: the same for the edge server. The scheduler may send
  any command at any time. Of a MAC the module keeps which services it carries,
  the NicGrants it has not handled (taken in any order, because `grantList_` is
  emptied from the back) and the SrvFDs on their way to the server (in order).
  Times are relative to now, so the timer is a countdown and `Tick` a time step.
* `SchedulerHandlers`: the global scheduler with a centralized scheme, from the
  record of its tables to the changed record and the commands it sent. A scheme
  is what any of them may return (`IsSchedule`): at most one instance for each
  pending application, on known gNBs, within the units left after the holds.
  Dates become arguments: which requests are expired or gone, which links are
  outdated, which gNBs were not heard of. Bands are taken to be ample, because the
  code treats them as it treats units. A key that `operator[]` creates by reading
  (`appInfo_` in `sendGrantPacket`) is in `blank`.
* `ServiceLifecycle`: composes `SchedulerHandlers` at one node, `ServerHandlers` at
  each node and, for each gNB, which services it carries for which server (what a
  server can see of `GnbMac`), over ordered channels; `hasScheduler` is what each
  node's `NodeInfo` knows.
* `MecOspfHandlers`: one `MecOspf` object. Addresses are numbers, because the
  election prefers the lowest; installation times of LSAs are kept only as far as
  the code compares them (`NeverSchedulesInThePast` is about the difference).
* `MecOspf`: the network of routers, two channels per link, failures of nodes and
  interfaces as `NodeInfo` injects them.
* `SchedulerView`: the abstract specification of the election as a node sees it.
  `MecOspf` implements it with `view[n]` mapped to the scheduler address of `n`
  and `serving` to the gNBs whose scheduler application is on.
* `UeHandlers`: a vehicle's `UeMac`, `UePhy` and `UeApp` in one record.
* `Vehicle`: composes `GnbMacHandlers` for each gNB, the frames in the air and
  `UeHandlers` for each vehicle.
* `DistScheduling`: the schedulers of all gNBs in distributed mode, their scheme,
  and the vehicles that carry the tokens.
* `RequestFlooding`: the `NodePacketController`s, with `srvReqsBuffer_`,
  `broadcastedSrvReqs_` and the neighbours NodeInfo has from the last route
  computation (`neighborAddrs_`). Of `MecOspf` it has the neighbours that hellos find
  and that time out, of `NodeInfo` the failures. `recorded` is what the scheduler of a
  node was given, `lost` what was sent on a disabled channel or without a route
  (`Reaches`); both are history. A packet is addressed to a node: the simulations
  install no routes but those of `MecOspf`, which come and go with its neighbours,
  while `neighborAddrs_` changes at a route computation.
* `Schemes`: the centralized schemes that need no search, fifteen of nineteen, from the applications and
  free resources of a period to the schedule. `...Instances` is the
  `generateScheduleInstances` of a class, in the order the code generates; the loops are
  operators (`Loop`, `Up`, `Down`, `UntilBreak`, `Skipping`). A scheme that sorts
  (greedy, game theory) takes the instances one by one by efficiency or utility; a
  local ratio scheme first pushes the instances whose updated utility is positive and
  selects them backwards, in one or two passes; `SARound` does a gNB at a time with a
  linear program, of which the model keeps what `floorRounding` takes from it (any
  set of variables at 1 that fits, or the best single instance). An action is one
  push or one selection; passing an instance over is no step of its own, since what
  is passed over once stays so.
* `SearchSchemes`: the other four. `SchemeIterative` and `AccuracyIterative` alternate
  between the allocation at fixed gNBs and the choice of gNBs for fixed amounts, from
  a random guess. `SchemeFwdGraphMatch` and `AccuracyGraphMatch` solve a linear program
  (any optimum in halves, or a failure of the solver), split the gNBs into nodes,
  merge the instances into hyperedges, solve a second program and round it by the
  fractional local ratio.
* `MCGnbMac`, `MCServer`, `MCServiceLifecycle`, `MCMecOspf`, `MCVehicle`,
  `MCDistScheduling`, `MCRequestFlooding`, `MCSchemes`: instances for TLC. `GnbMacProofs`,
  `ServerProofs`, `MecOspfProofs`, `DistSchedulingProofs`, `ServiceLifecycleProofs`,
  `SchemesProofs` and `RequestFloodingProofs`: the theorems. `SumTheorems`: the lemmas
  about folds, sums and sequences of messages they share.

Operators named in a comment beginning "mutant:" are faulty versions of the
definition below them, used to see that a property can fail.

## What the runs check

Deadlock is checked in all runs. The types of `GnbMac`, `Server`, `MecOspf` and
`RequestFlooding` are proved and in no run. The queues are bounded by `MaxPending` and
`MaxInFlight`, the failures by `MaxFaults`.

### Base station and server

* `gnb_mac` (52,000 states): one gNB, three applications on two vehicles, two
  bands, rates 0 to 2, grants of one band for a load of two bytes per TTI, one
  waiting grant, grants over living grants included. Two bands for three
  applications make bands short; the load needs two bands at rate 1 and one at
  rate 2, so feedback makes applications grow, shrink, pause and resume; two
  applications of one vehicle share a feedback. Checked: the partition of
  the bands, no leak, lists and grants agree, nothing throws, a scheduled
  application holds what its load needs, feedback of one vehicle takes no band
  from the scheduled applications of another, and the last report tells the
  number of free bands.
* `gnb_mac_double_grants` (violation): with second grants the vehicle is not told
  of a lost temporary band. `setAppGrantInfo` empties `grantedBandSet` and
  `tempBands` while the two maps keep their bands, so the comparison of counts
  in `mecFeedbackRsuStatus` sees no change when the temporary band is released.
* `server` (342,000 states): a server with two services and three units, the
  services ask for two each, initialization takes one or two ticks; its own gNB
  and one other, which resets on its own. Two messages per channel are enough
  for a stop to overtake a start and for an adjustment to cross a stop. Checked:
  units are conserved, queue, map, timer and services agree, the waiting
  sets are current, what a gNB carries is served, ends are reported, reports
  carry the current units.
* `server_stop_overtakes` (violation): a stop that arrives in the TTI of its start
  is handled first and dropped; the service runs on.

`Server` limits its environment by one assumption: a server finds a new scheduler
only after what the old one started is gone (`Drained`). All nodes of an area
reset when they hear of the change, and the election waits
`routeComputationDelay_` (5 ms) after the last news, longer than a message takes
to cross the area and a MAC takes to empty its list. Without it, a failure report
of the time before the reset would give units back that the server never took.

### Scheduler, servers and base stations together

* `service_lifecycle` (48,000 states): one application, two nodes, the first with
  the scheduler; the application may move to any pair of server and gNB in every
  period, gNBs end and adjust services, the area loses its scheduler and elects
  again. Checked: the application is in exactly one of the scheduler's three
  sets, never on two servers or carried by two gNBs, started only when nothing of
  it is left anywhere, and scheduler, server and gNB agree when no message is on
  its way. The clearing of `appsWaitStopFb_` at the start of a period is what
  `OneServer` and `GrantsAreFresh` depend on after a loss.
* `service_units` (35,000 states): two applications that ask for one or two of the
  three units of one server, with losses. Checked: types, holds are those of the
  open starts, a server never has fewer than no units although it takes them only
  when the gNB accepts, and every start is answered (under `FairSpec`).

With `rescheduleAll` false, its default in `Scheduler.ned`, an application that runs is
scheduled and granted again (`determinePendingScheduleApps` takes every application
of every reachable vehicle), although `src/README.md:53` says that the option is to
"only schedule pending requests". The server ignores the second start, the scheduler
waits for its answer, takes the next adjustment for it and holds units meanwhile:
`GrantsAreFresh` is then false. What such a second grant does to a MAC is in
`gnb_mac` and `gnb_mac_double_grants`.

`ServiceLifecycle` takes three things from the intervals (`Prompt`): the pre-check
20 ms (`appStopInterval_`) before a schedule gives stops the time to be answered,
the period (seconds) gives starts the time, and a change of the scheduler reaches
all nodes long before the new one schedules, 70 ms after its election. `Elect`
waits until what the last scheduler started is gone, as `Drained` in `Server`.
With `Losses` any node may lose the scheduler at any time, one by one. At most
`MaxInFlight` reports of status and adjustments are on a channel, commands and
answers are bounded by what was commanded. The configurations set `rescheduleAll`
as the scenarios under `simulations` do.

### Backhaul and election

* `mec_ospf`: three gNBs and a router in a line, all hello timers in step, one
  failure (`MaxFaults`) of any node or interface in either direction, followed by
  its recovery. A line has nodes with one and with two neighbours, a router that
  may not be elected in the middle, and every failure splits it into areas that
  elect for themselves and join again. Checked: in an area at rest all
  nodes follow one scheduler, which is the best connected gNB (`SettledOnTheBest`);
  when no LSA is in the air or waits to be sent, no two nodes of an area follow
  different schedulers, also before all have elected (`OneSchedulerPerArea`);
  the routes towards it lead there without loops; no node holds an LSA newer than
  its origin's; no timer is set in the past; the area settles (`Converges`); and
  a node changes its scheduler only through the reset that ends its services,
  stated as the refinement of `SchedulerView` (`ChangesThroughReset`).

Nodes whose hello timers run in different phases (`Lockstep` false, a `startupTime` that
differs from node to node) may settle on different schedulers in one connected area,
without any failure: a node that has answered a hello before it has sent its own
erases the LSAs of origins it cannot reach yet, is not told again, and elects itself
for good. `SettledOnTheBest` is false there for three gNBs in a line.

What the model takes from the intervals: a hello and its answers are one step,
because links take microseconds; `lsaWaitInterval_` (2 ms) is over before the next
hello and `routeComputationDelay_` (5 ms) is over after the last LSA has
arrived; failures come at the multiples of `failureRecoveryInterval` (tens of
seconds), never while an LSA is on its way. `LongFaults` says that a failure lasts
longer than the neighbour timeout, as those intervals have it: a shorter one of
one direction of a link leaves the two ends in disagreement about being
neighbours. `Lockstep` says that all nodes start OSPF at the same time, the
default of `startupTime`. Without it a route timer may expire between a node's
hello and its LSA: it then takes another scheduler without a reset, and a gNB that
was scheduler keeps its application on.

### Vehicles

* `vehicle`: one vehicle with two applications, two gNBs with one band each, rates
  0 and 1; each gNB carries for the server of the other, so the two addresses of
  a grant differ. Two applications for one band pause one another, rate 0 pauses
  and ends, the move to the other gNB makes the stop of the old grant cross the
  new one. Checked: types; the application offloads exactly when its MAC has a
  grant in force (`AppFollowsMac`); vehicle MAC and `RbManagerUl` agree on bands and
  rate when no frame is in the air (`TablesAgree`); no pause lasts for ever
  (`PauseEnds`); and a job that waits leaves (`WaitingJobsLeave`), unless it meets
  pauses again and again.
* `vehicle_feedback` (violation): the stop of one application takes its gNB out of
  `grantedRsus_` though it carries the other one, which gets no feedback until the
  next broadcast.

What the model takes from the intervals: a frame takes one TTI and frames of one
gNB stay in order; a server starts what no gNB carries (`OneServer` of
`ServiceLifecycle`) and whose last frame has arrived, 20 ms and an initialization
after the stop. Grants that wait in `grantList_` and failed nodes are in `GnbMac`.
The service request is part of the environment. Of the waiting data the model
keeps whether there is any. With `srsDistanceCheck` (off by default) a vehicle may be
out of reach of the gNB that paused it; `PauseEnds` is then false for the reason
`vehicle_feedback` shows.

A state to know of: a job that is left over from an ended grant is requested under
the next one, which may be a first grant that is paused, with `bytePerTti` 0, and
`ceil(toServe / dataRate)` divides by it. Ten steps lead there (a second
application's job starts the tick).

### Distributed scheduling

* `dist_scheduling` (345,000 states): three applications of two vehicles, two gNBs
  with two bands and two units, tokens in any order. The values in `MCMenus` make
  candidates of one application and of different applications outbid each other,
  light ones and heavy ones; a gNB may have no instance for an application.
  Checked: what the gNBs decide apart is feasible together, no candidate is passed
  over by the early stop of `solutionSelection`, the schedules are worth at least
  what the candidates added (`GuaranteeKept`), and every round ends.

`GuaranteeKept` is stated for rounds in which every gNB has an instance of every
application it hears of (`EachHasInstances`). `updatedUtilityMap` has no entry for an
application without instances, so the token's reduction, which `DistToken.msg` calls
accumulated, is set to 0, and the guarantee fails without the premise. All gNBs
start at `NEXT_SCHEDULING_TIME`, at least 20 ms after the last preference value was
sent, and a round is over before the next is prepared; `NextPeriod` forgets what
a round overwrites before it reads it. Utilities are integers here: an instance weighs
`2 * instUtilizationSum`, counted in parts of `Whole`, and the penalty of a candidate is
rounded up. In the run, where the weights are whole, nothing is rounded, and where the
code has fractions a unit of utility can be chosen small enough that nothing is (a round
pushes finitely many candidates); `GuaranteeKept` does not depend on the unit. The
rounding of doubles is not modelled. `RoundEnds` is about vehicles that announced an
application: one that broadcasts before its first request has passed the PHY
sends no token, none returns and `distReady_` stays false for good. A trace that
ends between the vehicle's look at the clock and the scheduler's is not modelled;
it leaves tokens nobody handles. `distReady_` becomes true with the first of
several tokens to return, which is harmless while rounds are shorter than a period.
### Offloading schemes

* `schemes` (42,000 states): all nineteen schemes, fifteen of them on 48 inputs each, the
  searching ones on fewer: two or three
  applications of two vehicles, two neighbouring gNBs with up to four bands and
  units, two rates, two services (a fast one that adds little, a slow one that
  adds much), `fairFactor` 1 and 1/2. The resources make every category (light and heavy in
  bands and units) occur, applications compete at both gNBs, and forwarding pays in
  some inputs. Checked: a schedule gives no more than there is, serves no application
  twice, over links and paths that exist, within the deadline (`ScheduleIsFeasible`);
  what the candidates of a pass added is earned by its selection, which is the
  argument behind the ratio (`GainsAreEarned`); and, compared with all schedules
  there are (`Servings`, `Schedules`, defined from the deadline alone), the
  approximations stay within `ApproximationRatio`, and an empty schedule means
  that no application can be served (`NearOptimal`). `RoundingFits`: the last check of the
  resources in the searching schemes rejects nothing, so the rounding of the
  matching keeps to the gNB, and no instance is put on a node that was not made. The
  inputs reach second nodes of a gNB and matchings of three; two allocations of
  the same value with other instances, and a third round of an iteration, do not occur.
  `NearOptimal` leaves out `AccuracyFastSANF`: its loop over the units counts up and ends at
  the first number that is too small, so an application may get no instance.

The ratio: in a pass the gains of the pushed instances that a selection can block are
at most 1 + 2 + 2 times its own (application, bands, units), a sum of two passes
doubles it; `FwdQuickLR`, `FastIS` and `IDAssign` have 9 to 10. The inputs reach ratios
above 2. `GainsAreEarned` is stated without `FastSAND`, which puts all four categories
in one pass. Utilities are integers in units of `Scale`, and `GainsAreEarned` also
says that no division by a gNB's resources loses anything.

What the schemes do that a reader may not expect: the local ratio of the graph matching
subtracts the weight of an edge from its neighbours while the edge is one of them,
so that neighbours behind it keep theirs; edges that are all in conflict are left out
altogether, since none has less than the total around it; `SchemeFwdGraphMatch` with
the default `fairFactor` 1 has a limit of 0 in its first program and schedules
nothing (`AccuracyGraphMatch` replaces the default); `SchemeFastLR` drops instances that
are heavy in one resource only, light by one test and heavy by the other;
`computeMinRequiredRBs` counts parts of a TTI where `computeOffloadDelay` rounds up, so
the two schemes that use it may miss a deadline by a part of a TTI
(`MeetsDeadlineInParts`); `SchemeFwdGreedy` does not look whether the processing gNB has
reported, and the model takes every gNB to have reported.


### Requests

* `request_flooding` (1,376,000 states): three gNBs in a ring, one request, one failure of
  a node or an interface. In a ring a request comes back to its first node and to a
  node that is just sending it; the failure makes a neighbour time out and return.
  The vehicle may send its request to any gNB and again, hellos, timeouts and route
  computations come at any time. Checked: `NeighborsAreTold`, a request that a node
  has is at each neighbour the node knows, or on its way there, or over, unless a packet of
  it was lost. What was lost stays lost: `broadcastedSrvReqs_` is not cleared
  when a link fails, so a request sent to a neighbour whose link has just failed
  is marked as sent and not repeated. So is one sent while `MecOspf` has already removed
  the neighbour and its route and NodeInfo still has the address, with both channels
  enabled: from a time-out, or from the return of a failed node, to the next route
  computation, `MecIpv4` drops it as unroutable. One request is enough, because the controller
  treats each application alone; the theorem is about any number.

## Fairness

Weak fairness of the timers and of the delivery of messages: the simulation
kernel runs every event, channels are reliable while nodes are up, and
`grantList_` is emptied completely in the next TTI, so the oldest grant is not
passed over for ever. Nothing is assumed of the environment: the scheduler in
`Server`, resets, starts and stops of services, losses of the scheduler, failures
and recoveries are not fair.

* `Server`, `ServiceLifecycle`: timers and channels, in the latter also the timers
  of the scheduler; that news of a loss reaches every node and a quiet area
  elects is what `MecOspf` is for.
* `MecOspf`: hello, LSA and route timers, and channels.
* `Vehicle`: frames, ticks and jobs, and the rounds of broadcasts reach a gNB that has an
  application to resume or to end: strong fairness, justified because a vehicle
  broadcasts once in 10 s to all gNBs and a frame takes 1 ms.
* `DistScheduling`: timers and the channel; the weak fairness is spelled out
  (`[]<>disabled \/ []<>taken`) because TLC evaluates `ENABLED` of the handlers slowly.

## What disagrees

The runs marked violation show where the code and what is said of it part; each
is quoted in `PROJECT.json` with the line. In short: a stop overtakes its start in
`grantList_`; a second grant hides a lost band from the vehicle; a stop silences
the feedback of the vehicle's other applications.

## What is proved

For every value of the constants; the assumptions are those named in the modules.

`GnbMacProofs`, for every number of gNBs, vehicles, applications and bands, every
set of rates, loads and asks, with or without second grants:

* `TypeCorrect`, `BandsStayPartitioned`, `NoBandLeaks`, `ListsAndGrantsAgree`,
  `NeverThrows`: `Spec => []` of `TypeOK`, `BandPartition`, `NoLeakedBand`,
  `ListedAppsHaveGrants`, `NoRuntimeError`.

The invariants are not inductive as they stand: whether `scheduleActiveApp` may
throw depends on where the loops are, and whether a release returns all bands
depends on the sets and the maps agreeing. `IInv` adds, for every application,
that its granted and temporary bands in the infos are among those in the maps,
that only scheduled or paused applications hold bands and that the three lists
name known applications, and that grants in `grantList_` are well typed. The
proof shows that each method of `RbManagerUl` preserves the conjuncts for the
application it is called on and leaves the others' alone, that each loop body
does, that the walk `ForEachApp` does (by induction over the applications, stated
with the recursive function itself), and then takes the actions one by one.

On top of that invariant, in the second part of the module:

* `ScheduledStayServed`: `Spec => []ScheduledIsServed`;
* `OthersKeepBands`, `ReportsAreHonest`: `Spec => OthersKeepTheirBands`,
  `Spec => ReportsFreeBands`.

`ScheduledIsServed` needs no more state than `IInv`; it needs that no method
touches the bands, the grant or the rate of an application it is not called on
(`Apart`), and that each method leaves its own application `Served` or off the list.
The arithmetic is in `EnoughBands` (the rounded division) and `FirstBandsCount` (n
steps of the iterator give n bands). The same `Apart` facts, carried through the
walks, give `OthersKeepTheirBands`, and a fact about the last message of every
method, `Honest`, gives `ReportsFreeBands`.

`ServerProofs`, for every number of gNBs and applications and all units:

* `TypeCorrect`, `UnitsStayAccounted`, `QueueStaysRight`, `WaitsStayCurrent`,
  `CarriedStaysServed`: `Spec => []` of the types and the invariants of run `server`;
* `EndsStayReported`, `ReportsStayHonest`: `Spec => [][...]_vars` of its two action
  properties.

`IInv` has a part about the server's record, `Fine` (types, `QueueOk`, `WaitsOk`,
`UnitsOk`), which holds inside a handler too, so there is one lemma per handler
and per loop; and a part about the channels, `WiresOk`: a gNB that has a start of
a service before it, carries it, or has reported its end is one for which the
server runs the service, these three exclude each other and come in that order,
so nothing is left of the service there when the end is heard. `CarriedIsServed`
and the conservation of units rest on it: without it an acceptance could be
counted for a service that is gone. Units are summed with a recursive function
(`Total`), and two lemmas say that the sum exists and what changing one service
does to it.

`MecOspfProofs`, for every network:

* `TypeCorrect`: a neighbour is silent for at most two hellos before it is removed;
* `NumbersStayCurrent`: whatever fails and in whatever order things happen, no LSA
  in a cache or on a link is newer than its origin's, and an equal number means
  the same list;
* `NeverInThePast`: `Spec => []NeverSchedulesInThePast`, without `Lockstep` and without
  `LongFaults`;
* `ChangesOnlyThroughReset`: under `Lockstep` and `LongFaults`, `MecOspf` implements
  `SchedulerView`. The invariant `InStep`: a node with a scheduler has neither a
  computation nor a change of its neighbours ahead of it. It is inductive with
  `Unheard`: a node that lost its neighbours by a failure hears nothing before its
  next hello.

That an LSA of a node is never news to it, which the type of `lsdb` needs, follows
from the numbers, so the first two are one invariant (`Inv`), proved with one
lemma per handler and one per action.

`Flooding` is the invariant behind `NeverInThePast`, about what the LSAs of one flood have
reached. A node is reached when a fresh LSA has come to it; it has a computation ahead of
it, and only such nodes send. What it sends to a neighbour that is not reached has
a fresh LSA in it, and in front of everything else that is news there. It is
inductive because a node generates at most one LSA in a flood (its hello timer waits
for the links to be empty), sends it before those of its cache, and passes on what it
gets to all but the sender, which was reached before it.

`DistSchedulingProofs`, for every number of gNBs, vehicles and applications, all
bands and units, and every menu of instances:

* `ScheduleStaysFeasible`: `Spec => []FeasibleSchedule`;
* `CandidatesStayConsidered`: `Spec => []CandidatesAreConsidered`;
* `GuaranteeIsKept`: `Spec => []GuaranteeKept`.

No gNB sees the schedule of another. That they are feasible together rests on the
token: `OneToken` (an application has at most one, in the air or at one gNB) and
`Remembered` (the token of a scheduled application says so). That solutionSelection,
which stops at the first candidate of another category or application, leaves none
behind rests on the order in which the tokens came: `Ordered` says that the
candidates are sorted by category and preference value, and this needs that a batch
has the token of every application that announced its number. `TryBatch` only counts
tokens, so `IInv` ties the counters to the applications (`Counted`), every token to
its route (`OnRoute`), and every token to every gNB on its route: the gNB has worked
on the application in a phase exactly when the token has been there in it (`InStep`).
A gNB and a token move on in their own code, over different numbers (those announced
to the gNB, those the vehicle gave): `NextVisitStep` and `MovesOnStep` say that each
takes exactly the next step of the same order, `Before`. `SumTheorems` shows of the two
folds of the scheme and of the sums over a schedule, for all lengths, that they are
recursive functions that exist, keep what every step keeps, and do not depend on the
order.

`GuaranteeIsKept` compares sums over all gNBs that no gNB knows, so a second invariant,
`GInv`, says that the round has accounts: `Kept` is the existence of a ledger (`Books`),
which no variable of the system holds. It has for every candidate left at a gNB what its
token brought and what it added, for every application what its candidates that are left
have added everywhere, and for every gNB what the candidates that have left added and its
schedule is worth more (`Audited`). Pushing a candidate enters it (`PushAudited`); that the
token brings exactly what the application's candidates have added at all gNBs is `Knows`.
Taking one off pays for it in one of three ways. It is scheduled, and its value covers
what it added, what its application had before and its weight times what was pushed before it
(`PopSelected`). Its application is scheduled already, and that entry still owes its
addition (`PopScheduled`). Or it does not fit (`PopTooLarge`): then what is scheduled here is
heavy enough (`HeavyEnough`, which needs that heavy candidates are taken first, `Shape`) to
owe its addition too. That what is owed is owed by candidates pushed before rests
on the order of both halves of the round, within a gNB and between gNBs (`PushOrder`,
`PopOrder`, from `Ordered` and `InStep`). When nothing is left, the ledger is the guarantee
(`KeptSettles`). The premise `EachHasInstances` is needed in one place, where a token of an
application without instances would lose what it brings.

`ServiceLifecycleProofs`, for every number of gNBs, vehicles and applications, every
computing demand and all losses of the scheduler:

* `RequestsHaveOnePlace`, `OneServerEach`, `BooksAgreeWhenQuiet`: `Spec => []` of
  `RequestHasOnePlace`, `OneServer` and `BooksAgree`;
* `StartsAreFresh`: `Spec => GrantsAreFresh`;
* `UnitsSuffice`, `HoldsAreStarts`: `Spec => []` of `UnitsNeverOvercommitted` and
  `HoldsMatchStarts`.

All under `Prompt` and `RescheduleAll`, as in run `service_lifecycle`: the timers fire
when what they wait for has been answered, and `rescheduleAll` is true, as in
`src/simulations/distributed/omnetpp.ini:88` (with it false, `GrantsAreFresh` does not hold, see
above). None of them is inductive: no node sees that nothing is left of a service
anywhere. `IInv` follows a service as a chain, from the start on its way to a server
over the service that initializes there, the `NicGrant` on its way to a gNB and the
application the gNB carries to the failure on its way back. `Single`: an application
has at most one link of each kind, and none beside a start. `Wire`: what a gNB and a
server that knows the scheduler tell each other is about a service of that server, and
nothing follows a failure. `Booked`, while all nodes know the scheduler: every link is
in the books of the nodes it is at, and what is in the books of the scheduler has a
link, and while services are being stopped a stop or a failure under way.
`NothingServed` draws the conclusion: when a schedule starts and nothing is on its way,
the books are empty, so the next starts find nothing at any node. A node that loses
the scheduler forgets its part of every chain, so `Booked` is not claimed until all
have found the next one; `Elect` waits until the chains are gone. `Stops` and `Phase`
say when stops are under way, `Counts` that the last message of a server tells what
it has free. A step concerns one application; `LifeKept` carries the life of the
others over.

The last two need a second invariant, `UInv`, inductive together with `IInv`. At a server,
what is free and what the running services take is the total (`Used`), and there are
numbers for all applications that add up to at most the total, which neither a start
on its way nor a service exceeds (`Budgeted`): the server itself never compares
what it is asked for with what it has. `Budgeted` is established when a schedule is
sent and only then: while a plan is made no server runs anything and all that they say
is that everything is free (`Planning`, from `NothingServed`), so the scheduler plans with
what they have. At the scheduler, the held bands and units are the sums over the
unanswered starts (`Held`), and the gNBs of a start are known (`Known`), since the first
status of a gNB clears what is held of it. An answer gives back what its start took
because a start that is not answered is at the server it was sent to, with the gNB it was
sent for (`Awaited`). `GrantFits` is the step of the loop of `sendGrant`: the hold, which the
code caps at what the gNB has, is never cut off, so it can be given back exactly.

`SchemesProofs`, for every number of gNBs and applications, every topology, every input
and all nineteen schemes:

* `SchedulesAreFeasible`: `SearchSpec => []ScheduleIsFeasible`.

`Serving(s, p)` are the instances that serve an application of input `p` as scheme `s`
may: over a link and a path that exist, within the share of either gNB, within the
deadline, with the utility the scheme is to report. One lemma per
`generateScheduleInstances` shows that its loops yield nothing else (`GreedyServes`,
`FwdGreedyServes`, `AccuracyServes`, `OneDimensionServes`; `InPartsWithBands` and
`InPartsWithUnits` are the arithmetic of the smallest number of bands or units that
meets the deadline). No scheme makes an instance later: a candidate differs from its
instance in the gain only (`CandidateServes`), the solutions of the linear programs, the
hyperedges and the matching are about indices of instances (`LPOfInstances`,
`EdgesOfInstances`, `MatchingOfEdges`), sorting keeps what is sorted (`RankedTyped`). So a
schedule serves, and `IInv` adds that in every phase it serves no application twice and fits.
All schemes but `SARound` test that whenever they add an instance (`ScheduleGrows`,
`AsFarAsItFitsServes`). `SARound` tests only the application when it selects; that its
schedule fits rests on the candidates: those of a gNB fit together whatever the linear
program returns, or are a single one (`IntegralFits`, `RoundingTakes`), and take nothing
of another gNB, because this scheme does not forward (`CandidatesFit`); a part of what fits
does (`UsedByPart`).

`RequestFloodingProofs`, for every backhaul and every number of requests and failures:

* `NeighborsStayTold`: `Spec => []NeighborsAreTold`.

The controller never looks at who has a request, only at whom it has marked. `IInv`
says what a mark is worth: `MarkedAreTold` (a marked neighbour has the request, or it is on
the way, or it was lost, or it is over), which a node may conclude of a neighbour that
sent it the request because of `SendersHaveIt`; `NeighborsAreMarked`; and
`MarksAreOfBuffered`, without which a request that comes again after it was
forgotten would be kept from a neighbour for an old mark.

Only model-checked: the properties of `Vehicle`; `GainsAreEarned`, `NearOptimal` and
`RoundingFits`, the argument behind the ratios of the schemes and behind the rounding of
the matching; `SettledOnTheBest`,
`RoutesLeadThere` and `OneSchedulerPerArea`, which need that a flood brings every
LSA to every node of an area, and the paths of the recursive search; and all liveness. Liveness under fairness, `ENABLED` and `RECURSIVE`
operators are beyond the prover, and so are the library's induction theorems, which
take an operator. Recursion in the modules that are proved about is by recursive
functions, and induction over the naturals and over finite sets is done with a
least counterexample in a set (`LeastNatural`, `UpTo`, `SubsetInduction`).

## Not modelled

* Loss on a living path: the simulator's channels do not lose packets. What a
  disabled NIC, a gNB without scheduler or a missing route to a neighbour drops is
  modelled.
* In `NodePacketController`: the forwarding of grants and feedback, which keeps no
  state. The comment at `handleServiceRequest` speaks of a copy for the global
  scheduler; the code sends to the local scheduler and the neighbours.
* In `MecOspf`: `routeUpdate_` false (one synchronization and `recoverFromErrors`) and
  `distInitializeLocalScheduler`.
* The radio data path of `GnbMac` and `UeMac` (HARQ, buffer status, random access,
  MAC PDUs, D2D mode switch) and `updateMasterNode`.
* The utilities, delays and energies in the schemes are integers, and the solution of a
  linear program is a set of variables at 1 or, in the matching, in halves; what the
  solver does is external.
* Statistics (deadlines of job packets), GUI, logging, parsing of profiles and traces.

## Plan

Done: `GnbMac`, `Server`, `MecOspf`, `DistScheduling`, `ServiceLifecycle`, `RequestFlooding`,
`Schemes`, `SearchSchemes` and their theorems; `Vehicle` and its runs; the refinement of `SchedulerView`.

Left, in this order:

1. An abstract life of one application (idle, starting, running, stopping at one
   pair of server and gNB) that `ServiceLifecycle` implements.
