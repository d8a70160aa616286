# TLA+ models of Simutrans (OTRP)

TLA+ modules that model the parts of this program in which several machines or
several vehicles act on shared state, TLC runs that check them on small
instances, and TLAPS proofs of their most important invariants for every value
of the constants. Paths below are relative to the repository.

| file | content |
|---|---|
| `Lockstep.tla`, `MCLockstep.tla`, `LockstepProofs.tla` | the network game: one server and its clients |
| `ReplicatedWorld.tla`, `ReplicatedWorldProofs.tla`, `LockstepRefinement.tla` | what the network game promises, and how `Lockstep` implements it |
| `CommandLog.tla`, `SameWorldProofs.tla` | proofs that it keeps the promise |
| `CrossingLogic.tla`, `MCCrossing.tla`, `CrossingProofs.tla` | level crossings and the vehicles that use them |
| `BlockReservation.tla`, `BlockLoad.tla`, `MCBlock.tla` | tracks, signals and the trains that reserve them; loading a game with them |
| `BlockProofs.tla` | lemmas about the slots of a track, and the proofs about trains |
| `Freight.tla`, `MCFreight.tla`, `FreightProofs.tla` | goods, stops, convoys and the factories that wait for them |
| `Folding.tla` | what folds and sums compute, proved for data of any size |
| `*.cfg` | one per run |
| `PROJECT.json` | runs, mutants, findings, hazards, theorems, and the source lines of every definition |

## 1. Inventory

**Network game** (`network/network_cmd_ingame.*`, `simworld.cc`). Every machine
simulates the whole world; only commands travel. State: `sync_steps`,
`sync_steps_barrier`, `map_counter`, `command_queue`, `last_checklists` (a ring
of 64), pause flag; at the server `pending_join_client` and `all_map_counters`.
A tool used at a client goes to the server as `nwc_tool_t`, which broadcasts a
clone stamped with its next sync step; every machine executes it at that step.
`NWC_SYNC` makes everybody save and load at the same step when somebody joins;
clients pause until the server echoes their `NWC_READY`. `NWC_CHECK` and
`NWC_STEP` tell the server's step (the barrier no client may pass) and its
checklist (a mismatch ends the client's game). *Hard:* order of direct sends and
queued sends, commands stamped for a world not entered yet, joins and forced
syncs that overlap, stale checklists, pausing an empty server. *Correct if:* all
clean replicas agree, nobody is disconnected without a reason, nobody waits for
ever.

**Connections** (`network/network.cc`, `network_socket_list.*`,
`network_packet.cc`, `network_file_transfer.cc`). State: slots with socket and
state, send queues, partly received packets. Called by the main loop once per
pass. *Hard:* partial sends, a slot removed while it is iterated or remembered,
reuse of slots, the joining client's fixed number of attempts.

**Level crossings** (`dataobj/crossing_logic.*`, `obj/crossing.cc`, called from
`vehicle/simvehicle.cc`, `vehicle/simroadtraffic.cc`, `simconvoi.cc`). State:
open / request closing / closed, `request_close`, `on_way1`, `on_way2`, shared
by all adjacent crossing tiles. *Hard:* a permission used later than it was
given, vehicles that turn away, are sold, rerouted or loaded while they have
one, departures that take vehicles off the lists while they are on the crossing, two
tracks and one remembered request. *Correct if:* no train meets a car,
trains get in, the crossing opens again, the registers are exact.

**Block reservation and signals** (`boden/wege/schiene.*`, `rail_vehicle_t` in
`vehicle/simvehicle.cc`, `obj/signal.cc`). State: two reservation slots per rail
with the direction of each train, and per convoy its route, `next_stop_index`
and `next_reservation_index`. A train reserves the tiles up to the next signal
before it passes one; its last vehicle gives each tile back. *Hard:* a block
refused half way, a second slot that becomes the first, directions remembered
from an older reservation, a schedule edited while a train stands in a stop,
trains that are sold, loading. *Correct if:* a train never loses what it was
granted by what others do, trains on one tile do not touch, nothing stays
reserved by mistake, trains do not block each other for ever.

**Stations and goods** (`simhalt.cc`, `simware.cc`, `verteile_waren` of
`simfab.cc`, the cargo of `vehicle/simvehicle.cc`). State: per stop the waiting
goods with two indices, its connections and its connected component, a staged
copy of the connections; of all stops together `status_step`,
`reconnect_counter`, the last search (`last_search_origin`, `halt_data`), the
convoys to be checked; per factory the amount in transit. Called by convoys in
stops, by factories, by players, and by `step_all`, a few stops per step.
*Hard:* stops removed and built under the same handle while goods refer to
them, a reconnection that is started again in the middle, a search that goes on
from an earlier one, amounts counted in three places. *Correct if:* the indices
and counters follow the goods, connections are current when nothing is pending,
no goods are lost without a reason.

**Convoys** (`simconvoi.cc`): a state machine stepped every sync step, with
coupling, reversal and loading. **City cars** (`vehicle/simroadtraffic.cc`):
tile reservation and overtaking. **Schedules and lines**, **factories and
power**, **cities**, **players and finance**, **tools**: sequential rules
executed inside a step. **Handles** (`tpl/quickstone_tpl.h`): indices that are
reused. **Threads** (`utils/simthread.cc`, `utils/thread_pool.cc`): loading and
display. **Routes**, **scripting**, **save files**, **remote control**, **user
interface**: `PROJECT.json` says for each what is modelled and why the rest is not.

The components interact by direct calls within one step; the world is changed
concurrently only through the command queue. This is why the network game and
the objects that remember *other* objects between steps (crossings, rails,
stops, goods) are modelled first.

## 2. Plan

Done, in this order:

1. `Lockstep` - the protocol, nine properties, two findings; all safety
   properties proved.
2. `CrossingLogic` - six properties, one finding; all safety properties proved.
3. `BlockReservation`, and `BlockLoad`, which adds loading a game - seven
   properties, one finding; all but the absence of gridlock proved, for loaded
   games too, two of them on a condition that the proof brought to light.
4. `ReplicatedWorld`, the abstract specification of the network game, its
   agreement proved; `Lockstep` implements it (checked and proved).
5. `Freight` - five properties, one finding; all five proved, with `Folding` for
   its loops.

What is left: `PacketStream` (partial sends and direct sends on one socket) and
`SocketList` (slots, reuse, counters); `ThreadPool`; coupling in `convoi_t`;
choose, pre and longblock signals; city cars' tile reservation; merging of
stops; the composition of `CrossingLogic` with `BlockReservation`.

## 3. `Lockstep`

| model | code |
|---|---|
| `sStep`, `sMap`, `sQueue`, `sChk`, `sPaused` | `sync_steps`, `map_counter`, `command_queue`, `last_checklists`, `PAUSE_FLAG` of the server |
| `loop` | a pass of `karte_t::interactive`: receive and flush (`process_network_commands`), then execute and perhaps a frame |
| `allMaps`, `pending`, `slot`, `sendq` | `all_map_counters`, `pending_join_client`, `socket_info_t::state`, `send_queue` |
| `client[c]` | the same state at client `c`, and how far its `network_connect` is |
| `toClient`, `toServer` | the two directions of a TCP connection |
| `sWorld`, `client[c].world` | the simulated world, as the history of what was done to it and when |

Server actions: `SrvReceiveJoin`, `SrvReceiveTool`, `SrvReceiveReady`,
`SrvReceiveEOF`, `SrvTool` (the server's own player), `SrvForceSync`, `SrvFlush`,
`SrvExecuteTool`, `SrvExecuteSync`, `SrvFrame`, `SrvIdle`. Client actions:
`Connect`, `CliJoin`, `CliSync`, `CliGame`, `CliDiscard` (the three waits of
`network_connect`), `CliStep`, `CliCommand`, `CliReady`, `CliEOF` (packets),
`CliExecuteCheck/Tool/Sync`, `CliFrame`, `CliTool`, `CliQuit`. `Diverge` lets a
client's simulation go its own way, which the checklists exist to detect.

Abstractions. A checklist is the world it was taken from, so two checklists are
equal exactly if the worlds are: the model says nothing about checklists that
are equal by accident. What a simulation does by itself is a function of the
world and is left out. `generate_new_map_counter` reads the clock; the model
draws fresh numbers. The send queues are flushed completely in one pass.
Whether a frame sends `NWC_CHECK` or `NWC_STEP` depends on lag and is a choice.
Every client owns one slot, so reuse of a slot by another machine does not occur.
Steps do not overflow: at 20 steps a second 32 bits last for years.

History variables: `issued` and `tries` bound the run; `glitches` and `lost` say
whose world may differ; `why` records what ended the game of a client.

Properties: `NeverLate`, `ClientBehindServer`, `SameWorld`, `NoFalseDesync`,
`PausedOnlyWhenEmpty` (safety); `ForgottenIsOld` (of steps); `PausedResumes`,
`JoinEnds` (liveness). Each is explained above its definition.

**The abstract specification.** `ReplicatedWorld` knows replicas, each a sequence
of what was done to it: a replica appears as a copy of the server's, as it was at
some time (`Enter`), does the next thing - the same that any replica did in that
place - (`Do`, `Advance`), or leaves (`Leave`). It has no steps, stamps, queues, barriers or
packets. `LockstepRefinement` maps the server's world and those of the faithful
clients (in the game, not diverged, no command lost) to replicas;
`ImplementsReplicatedWorld` says that every step of `Lockstep` is one of theirs or
none. The last two of these conditions are there because a diverged simulation is what checklists are
to find out, and a lost command is a finding below. `NoWorldAssumption` says that
`NoClient`, the value that stands for "no world", is not a history.

Bounds. `MaxStep` 1 or 2: commands are stamped one step ahead and a client can
be behind, at or waiting at the server's step; frames go on past `MaxStep` while
commands wait. `MaxTries` 2 to 4: two joins overlap, a join overlaps a forced
sync, a client comes back into a later world. `ChecklistCount` 2 (64 in the
code): the smallest ring, so entries are overwritten within a run.
`MaxMapCounters` 3 (7 in the code), and 2 in `LockstepRejoin`, whose four tries
are enough for a client to answer an `NWC_SYNC` that has been forgotten.
`MaxGlitches` 1. `Sym` permutes clients and tools, in runs without
liveness only: nothing orders them.

Fairness (`Fairness`). Every loop here is a main loop that never blocks. Weak
fairness: the server's flush, execution and idle pass; each client's receiving
and executing. Strong fairness: `SrvFrame`, enabled only in passes where nothing
is due, which recur, and whose clock makes the frame due again and again; and
reading the socket of a client, of which `select` picks a ready one per pass.
Nothing is assumed about `Connect`, `CliQuit`, tools, forced syncs and `Diverge`.

## 4. `CrossingLogic`

| model | code |
|---|---|
| `state`, `requestClose`, `onWay1`, `onWay2` | the members of `crossing_logic_t` |
| `carAt[c]` | on which tile of the crossing a vehicle of way 1 stands |
| `cleared` | vehicles of way 1 that were told to pass some tiles ahead |
| `train[t]` | a convoy of way 2: away, announced (`calc_crossing_reservation`), asking, granted, its front, both or its rear vehicle on the crossing |
| `astray` | history: the cars and trains that a new route took off the lists while on the crossing, until they have left it |

Actions: `CarEnter`, `CarAskAhead`, `CarArrive`, `CarHop`, `CarLeave`, `CarsDepart`;
`TrainAnnounce`, `TrainAsk`, `TrainBlocked`, `TrainEnter`, `TrainRearEnters`,
`TrainFrontLeaves`, `TrainLeaves`, `TrainTurnsAway`, `TrainReroutes`,
`TrainDeparts`, `TrainTurns`, `TrainGone`; `FlyOver`, `Rebuild`, `Reload`. `Events`
names the rare ones a run includes: `turn` (a train turns round while it is on the
crossing), `gone` (a train is destroyed whose crossing was announced but not
reserved), `flight` (an aircraft leaves the tile above), `rebuild`, `reload`.

A departure on the crossing, or a new route there, is one step of `drive_to`:
`unreserve_route`, the search, and `vorfahren` when it finds a way. `vorfahren`
calls `move_to(0)` (`simconvoi.cc:3142`, 412-442): `leave_tile` takes every vehicle
off the crossing, `enter_tile` puts it on the tile of the last vehicle and registers
nothing, and then each drives on to its place, registering when it hops
(`simvehicle.cc:1449`). So `CarsDepart(cs, tail)` lists the vehicles `cs` of a road
convoy again but for those on the tile of its last vehicle, `TrainDeparts` lists a
train again whose last vehicle is still before the crossing, and none whose last
vehicle is on it. `TrainTurns` is the same when the train turns round: the route then starts
at the tile of the front vehicle, which drives to where the last one was.
`TrainReroutes` is `unreserve_route` alone, when the schedule is edited or the search
finds nothing. In the steps after this a train can stand on an open crossing: the
code has no other record of it.

Abstractions. A car is one vehicle; a train is two, the rear one on the crossing
before the front one has left, which is how longer trains look at the two moments
that matter. The crossing's tiles along way 1 are one row; which track a train
uses is not modelled, because `crossing_logic_t` does not know it either. The
tiles that exist in the model stay when a neighbour is built or removed. After a
departure each vehicle is on the tile on which it was before; the realignment of a
convoy on loading (`finish_rd`, `simconvoi.cc:611`), which calls `move_to`, too, is a
`Reload` with a departure after it.

Properties: `RegisterExact` (the lists name only vehicles on the tiles, and all but
those `astray`) and `RequestHolds` with all events; `Exclusive` with one train,
departures and `reload`; `TrainGetsIn` and `Reopens` (liveness). What `Exclusive` says
is the part of the promise that the code keeps: a car and a train are on the crossing
together only if all such cars, or all such trains, are `astray`. The whole promise
is false for a single train and without any rare event. A train asks, enters, its rear
vehicle enters, it departs (`TrainDeparts`: `on_way2` becomes empty, the state
`open`), a car enters beside it. Or a road vehicle departs or searches a new way on
the crossing (`CarsDepart`: `on_way1` becomes empty), a train asks, is granted and
enters. `astray` lasts until the vehicle has left, although
hopping, another departure or loading lists it again, because what was let in
meanwhile is still there. It is read by properties only.

Bounds: three cars and three tiles, so that cars follow each other, and a part of a
road convoy departs, while a train waits; two trains where the remembered request
can be overwritten; one car that asks ahead and one that does not.

Fairness (`FairSpec`): every sync step moves each vehicle that may move (weak
fairness for cars and trains on the crossing), a refused train asks in each step
(weak), and a granted train does enter if it is granted again and again (strong:
the block behind the crossing is not occupied every time it asks). No fairness
for cars to enter, for trains to announce themselves, or for events.
`Reopens` is not claimed with `gone`: then `request_close` points to a deleted
train, and only another train opens the crossing again; nor with `turn`: a train
could turn round on the crossing for ever. Departures need no exception, as they do
not move a vehicle.

## 5. `BlockReservation` and `BlockLoad`

| model | code |
|---|---|
| `way[t]` | `reserved`, `reserved2` and their directions, of the `schiene_t` on tile `t` |
| `phase[c]` | `convoi_t::state`, the states a train has between its stops |
| `route[c]`, `front[c]`, `back[c]` | the `route_t`, and `route_index - 1` of the first and of the last vehicle |
| `stop[c]`, `granted[c]` | `next_stop_index - 1` and `next_reservation_index` |
| `lost[c]` | history: this train gave up its way, or was refused it, and stands on it all the same |

`Reserved`, `Unreserved` and `CanReserve` are the operations of `schiene_t`;
`Block` is `block_reserver`, which gives back what it took when a tile is
refused; `AskFrom`, `MayGo`, `WayAsked` are `can_enter_tile` and
`is_signal_clear`. Actions: `FrontHop`, `Wait`, `Retry`, `RearHop` (driving),
`Arrive`, `Depart`, `FindRoute` (`drive_to` and `vorfahren`), `StartUp`,
`EditDone`; and as rare events `Reroute`, `NoRoute` (a search that fails),
`EditSchedule`, `Sell`, and in `BlockLoad` `Load`: reservations are not saved, so
every train reserves the tiles under it, first without a direction, and then its
way again, one after the other.

Abstractions. A train is its first and its last vehicle and those between, at
most `Length` tiles apart. The layout is data: borders, bends, four-way tiles,
tiles with an offset, signals with the borders they are seen from. Routes pass no
tile twice and come from a set the search can find. Signals are plain ones (one
kind of `is_signal_clear`); no convoys are coupled; stops on the way of a train
that is not its own are driven through; the crossing a block holds is the subject
of `CrossingLogic`.

Properties: `WayIsHeld`, `NoCollision`, `NoStrayReservation`, `LegsKnown`,
`TakenOnlyByItself`, `NoGridlock`. The first two set `lost` trains aside: a train
that gave its way back (`drive_to` does so before it searches) or was refused
after loading may well stand on tiles of another one; so does
`TakenOnlyByItself`, also in the step that makes a train lost. `NoGridlock` is claimed
while nothing rare has happened, on the layout of the run: whether trains can
block each other depends on the layout, and the run shows that the code adds no
blocking of its own, such as a refused block that keeps its first tiles.

Bounds. `MCBlock` has two tracks that cross on a four-way tile where trains can
also turn, signals on the arms, a tile with an offset next to it, and three
trains, one of them two tiles long, so that a block is refused after some of its
tiles were taken, a tile is shared in both ways, and its first holder leaves before
and after the second. `MaxTrips` lets one train come back; one rare event per run
of the system (`MaxEvents` 1), of each kind. With two (1,098,792 states, too many
for a run that is repeated) the properties hold on this layout as well, but not on
every layout: see *stale slots*, below. The system really stops when all trips are made:
these runs do not check deadlock, `NoGridlock` does instead. No fairness is assumed.

*Stale slots.* `WayIsHeld` and `NoCollision` are not true of every loaded game.
The attempt to prove that they are ended at a step that TLC then confirmed on
another layout with two rare events, `reload` and `sell`: a four-way tile with
tiles with an offset beside it, no signal on these. Train B has reserved such a
tile together with A, which stands on it. After loading, B is finished before A's
direction is known and is refused (`reserve_route`), so it asks from now on at the
tile before, where there is no signal. There `can_enter_tile` asks `can_reserve`
only. D then gets the second slot beside A, and A is sold; `~rail_vehicle_t` does
not give back the tile of the first vehicle when the end of its route is near. The
first slot is now a dead handle and the second is D's. `schiene_t::can_reserve`
(`boden/wege/schiene.h:85`) looks at the first slot only and calls the tile free;
`schiene_t::reserve` (`schiene.cc:101`) moves D up and may refuse B, which drives
onto the tile without holding it. `NoStaleSlot` names the condition under which
this does not happen: no train holds the second slot of a tile whose first slot
is stale. In a game that was not loaded, trains ask at signals only, and
those ask for the block as a whole, so that nothing depends on such a slot.

Nor did `TakenOnlyByItself` hold of a loading step as it was stated first: a train
that is loading in its stop, on a tile with an offset, can be refused the tiles
under it by `finish_rd` if a train whose route is being searched reserved them
before; the branch of `reserve_route` for standing trains (`simconvoi.cc:390`) ignores the
result of `reserve`, so nothing of the train's own changes but that it is lost.

## 6. `Freight`

| model | code |
|---|---|
| `haltAt`, `Alive` | which `halthandle_t` stands where; a handle is bound while it does |
| `waiting[h]` | `cargo_queue_t`: goods in order, each with the stops it is filed under in `ziel_index` and `zwischenziel_index` |
| `links`, `comp`, `staged` | `all_links` (connections and `catg_connected_component`) and `staged_all_links` |
| `status`, `todo`, `outdated` | `status_step`, the stops the iterator of `step_all` has not reached, `reconnect_counter` behind `schedule_counter` |
| `search` | `last_search_origin` and what `markers` and `halt_data` know from there |
| `convoy[c]` | schedule, current stop, `fracht` and `total_freight` |
| `stale` | `stale_convois` |
| `factories`, `transit` | the factories there are, and `FAB_GOODS_TRANSIT` of each |

Actions: `Ship` (`verteile_waren`: a route is searched, a stop that is too full
takes goods only in exchange for others, the factory is told), `Load`
(`hat_gehalten`: `unload_cargo` with `liefere_an` for each cargo, then
`fetch_goods_nearest_first`, which looks at what is left of each cargo when it comes
to it, also a second time when a stop is listed twice, and `load_cargo`), `Go`, `OtherSearch` (a search of
another kind forgets the last one); the stages of `step_all`: `CheckStale`,
`StartReconnecting`, `Reconnect`, `StartRerouting`, `Reroute`, `EndRerouting`;
and the rare events `EditSchedule`, `RemoveHalt`, `BuildHalt`, `RemoveFactory`,
`BuildFactory`, `Extinguish`, `EnterDepot`, `Reload`.

`SearchRouteResumable` keeps the three ways the function can go: the goods have
arrived; the search of this stop is resumed and knows what it knew, or has no destination in the
component and ends before it explores; or it explores. What an exploration can
find is any choice of first hops of routes over `links`, so nothing depends on
weights. `Told` does nothing for a factory that is gone, as `get_fab` does.

Abstractions: those in the header of the module. One category of goods, and a
search explores at once all that its origin reaches, where the code stops at the
first destination and explores on when it is resumed; a stop is one tile; convoys
are one vehicle without a line; a convoy that enters a depot leaves it in the
same step. A convoy may be in its stop whenever it likes; `Load` and `Go` are
separate, so convoys load several times, or not at all, and unload all
or what is due.

Properties: `TransitFollowsGoods`, the hardest one: the counter of a factory
changes with what is really waiting and riding, in every step, except in the two
places where the code erases goods and tells nobody - `extinguish_all_waiting_goods`
and `search_route_for_invalid_zwischenziel_goods` (`simhalt.cc:3291`) - and on
loading a game, which counts anew. The second one is allowed only in a `Load`, where
goods for that factory wait for a stop that is gone and no search that goes on there
knows a way for them (`LostAt`). Factories removed or built in the step are apart. `IndexExact`, `ConnectionsCurrent`, and
`NeverOverloaded`, which says `<=` because `discard_cargo` leaves `total_freight` as
it was (`simvehicle.cc:1683`): a convoy that comes out of a depot that is not in
its schedule has less room than its cargo leaves it.

Bounds. Three places, two convoys that meet in the middle one, two factories, of
which one needs a change of vehicles; `Capacity` 2, `Room` 1 and shipments of 2,
so that cargo is split, joined, recalled and left behind. `MaxStarts` 2 counts
shipments and buildings together: two shipments can meet in a queue, and a stop or
factory removed can be built again under the same handle with goods still under
way. No schedule of the instance visits a stop twice, where `Reachable` (up to the
next visit, `calc_reachable_halts`) differs from all other stops; the theorems hold
for every schedule. `MaxEvents` 1: each rare event in every state; `FreightDropped` has two,
both edited schedules. Deadlock is checked: convoys can always go on. No fairness
is assumed and no liveness claimed: that goods arrive is up to the players.

## 7. Runs

| run | shows |
|---|---|
| `LockstepSafety` | all safety properties, and `ImplementsReplicatedWorld`: 2 clients, 1 tool, 2 tries, 1 glitch, steps 0..2 and those waiting commands add |
| `LockstepRejoin` | `SameWorld`, `NoFalseDesync`, `ForgottenIsOld` with one client, four tries and two remembered map counters: leftovers of an earlier world, and answers that come too late |
| `LockstepLiveness` | `PausedResumes`, `JoinEnds` with two clients |
| `CrossingSingle` | `Exclusive`, `TrainGetsIn`, `Reopens` with one train that may depart on the crossing |
| `CrossingEvents` | `TypeOK`, `RegisterExact`, `RequestHolds` with two trains and all rare events |
| `BlockSafety` | `TypeOK`, `WayIsHeld`, `NoCollision`, `NoStrayReservation`, `LegsKnown`, `TakenOnlyByItself`, `NoGridlock` with three trains and any one rare event |
| `FreightSafety` | `TypeOK`, `IndexExact`, `NeverOverloaded`, `ConnectionsCurrent`, `TransitFollowsGoods` with two convoys, two shipments and any one rare event |
| `LockstepLostCommand` | *violated:* `NoWorldCommandLost` |
| `LockstepForgottenJoin` | *violated:* `JoiningIsPending` |
| `CrossingTwoTracks` | *violated:* `Exclusive` with two trains |
| `BlockEditedTrain` | *violated:* `PlatformHeld` |
| `FreightDropped` | *violated:* `RoutableGoodsKept` |

Deadlock is checked in every run but the two of `BlockLoad`, whose trains stop
after their last trip. For each property of a passing run
`PROJECT.json` names a mutant: a definition beside the original (`Due_StepLater`
beside `Due`) with a plausible mistake, under which TLC finds that property
violated.

### What the violated runs show

* **Lost commands** (`simworld.cc:5314`). A client behind the server has, when it
  executes `NWC_SYNC`, already queued commands of the new world;
  `network_world_command_t::execute` keeps them deliberately. The load done by
  the sync clears the queue. `SameWorld` and `NoFalseDesync` are therefore stated
  for clients that lost nothing.
* **Forgotten join** (`network_cmd_ingame.cc:853`). A forced sync stamped with
  the same step as the `NWC_SYNC` of a join clears that `NWC_SYNC` from the queue
  and resets `pending_join_client`. The joining client waits in vain.
* **Two tracks** (`crossing_logic.cc:109`). The second train's request replaces
  the first's; if the second turns away, the crossing opens for cars in front of
  the first, which was already told to pass.
* **Edited train** (`simconvoi.cc:1746`). The step that ends `EDIT_SCHEDULE` gives
  back the tiles under a train that stands in its stop, all but that of its last
  vehicle, and lets it load on; a comment in `block_reserver` says that nobody
  else can ever reserve those.
* **Dropped goods** (`simhalt.cc:2887`). A search that finds no destination in the
  component of its stop returns after it has noted itself as the last search,
  and before it has explored anything. The next goods at the same stop resume it, find nothing left to explore, and
  are erased although there is a route. Which goods are lost depends on their
  order in the queue.

## 8. Proofs

`LockstepProofs` assumes `BoundsAssumption` only and proves, for any clients,
tools and bounds:

* `TypeCorrect`: `Spec => []TypeOK`.
* `NeverLateTheorem` and `ClientBehindServerTheorem`, from `LockstepInvariant`.
  Neither is inductive: that a command is not late when it arrives depends on all
  that is under way before it. `LockstepInv` says, for each client, that in the
  wire and then in the send queue no clock is ahead of the server, every stamp is
  ahead of the client's barrier and of the clocks before it (`StreamInv`); that
  an `NWC_READY` on its way to the server, or echoed, carries a step no later
  than any stamp the client has still to see or to execute (`ChannelInv`); that
  the machine's queue is ordered and not in the past (`MachineInv`); and that the
  send queues are empty while the server executes (`ServerInv`). The lemmas
  `Channel...` state what sending, flushing, direct sending, losing, hearing and
  saying do to it; `LockstepStep` goes through the actions.
* `PausedOnlyWhenEmptyTheorem`: inductive together with the types, because the
  step that accepts a join is also the one that resumes the server, and a frame
  looks at `pending_join_client` before it pauses (`PauseStep`).

`SameWorldProofs` adds `NoWorldAssumption` and proves what the game is for:
`SameWorldTheorem`, `NoFalseDesyncTheorem`, `RefinementTheorem` and
`ForgottenIsOldTheorem`. The world of a machine is the result of all it has
received, so an invariant for them has to say what every packet under way will do.
`CommandLog` introduces the means: a log `L` of commands, those the server
has done and those of its queue that it will do. Nothing in the code keeps it;
`WorldInv` says that there is one such that

* `ServerWorldInv`: the server's world is that of a prefix of `L`, its queue leads
  along the rest, the checklists in its ring are those of prefixes of `L`, and the
  map counters it remembers are the latest ones (`Remembers`);
* `SeatInv`: what a connection can carry, given the state of its slot;
* `FollowInv`: the world of a faithful client is that of a prefix of `L`, and its own
  queue, the wire and the server's send queue, one behind the other, lead along the
  rest (`Plays`, `Follow`): each command of the log is there, in its place, and any
  other command is one that an `NWC_SYNC` supersedes before it comes up, so that
  its map counter is wrong by then; at most one `NWC_READY` is under way
  (`Handshake`). The same holds, for every client, of what comes behind a game that
  is still on the wire (`Games`): it makes a client faithful again.

A client whose connection the server has closed hears nothing more. For it all this
is claimed of the steps that are near only: those up to the closing, which its
barrier keeps it from passing.

When the server appends to its queue, executes or loads, the log changes too: a
sync that clears the queue cuts off the rest of the log and puts itself there. The
lemmas of `CommandLog` say how `Follow` survives this, those of `SameWorldProofs`
go through the actions, and `WorldStep` puts them together. Then `SameWorld`
compares two prefixes of one log, and `NoFalseDesync` two checklists of one step.

For the refinement, `Alike` (two faithful worlds agree as far as both go) follows
from `WorldInv`; `GamesSent` adds that a game on the wire is no later than the
server's world. Every action then turns at most one faithful world into one that is
entered, left or one entry longer.

`ForgottenIsOld` needs to know where the server is when an `NWC_READY` arrives.
`ReadyInv`: the map counter in it is one the server still recalls, or one that was
pushed out by newer ones, or that of the first `NWC_SYNC` in its queue, which is
due. The last case must not be met when the server receives; `Unheard` says so:
while it receives and has a command due at its step, no client has heard of that
step, so none has come that far.

`CrossingProofs` assumes `CrossingAssumption` and proves type correctness,
`RegisterExact` and `RequestHolds`, whose conjunction `Inv` is inductive, for all
instances and all events; and `ExclusiveTheorem`, for the orderly instances (one
train, no vehicle that asks ahead, no flight, no rebuilding; departures, turning
round, rerouting, sale and loading included). The strengthening is `Guarded`: a train
that was granted finds the crossing closed, and listed on it only cars that are
`astray`, until it is gone or a new route takes it off the lists, too. That the
assumption of one train is needed is what `CrossingTwoTracks` shows; that the
vehicles `astray` have to be set aside, the trace in section 4.

`ReplicatedWorldProofs` assumes `ReplicaAssumption` and proves `ReplicasTyped` and
`ReplicasAgree`: what `Lockstep` implements is worth implementing. `Agreement` is
inductive together with the types, because `Do` looks at the longer worlds and
`Enter` copies a prefix of one.

`BlockProofs` assumes `BlockAssumption` and `LoadAssumption` and proves, for every
layout, any trains, routes and events: of games that are loaded in between, too
(`LoadSpec`), `TypeCorrect`, `NoStrayReservationAlways`, `LegsKnownAlways` and
`TakenOnlyByItselfAlways`, from `BaseHolds`; of games that are not (`Spec`),
`WayIsHeldAlways` and `NoCollisionAlways`, from `InvHolds`; and these two of loaded
games as long as no slot is stale, `LoadWayIsHeld` and `LoadNoCollision`, from
`LoadInvHolds`. The condition `[]NoStaleSlot` is not empty: `UnsoldIsFresh` shows that
every game in which no train is sold satisfies it. Without it they are false (*stale
slots*, section 5). `LoadAssumption` says that the list of convoys has each once
(`append_unique`, `simworld.cc:536`; loading appends each once, `simworld.cc:6322`).

None but typing is inductive. `Base`, the invariant of all games, has two halves.
`WaysOK` says of each tile that its slots hold no train twice, what they say of a
direction is right or unknown, and two trains are only there together if their ways
may share it; the first part proves that reserving, giving back, a whole block and
its rollback keep this (`SlotsOK` of one tile, `Along` a route). `TrainOK` says of
each train which places it may hold, in terms of its own counters. `Inv` adds
`WayOK`: that it does hold those it drives on. For this an action needs to know that
the tile ahead was asked for as a whole block, `Sighted`: the place where the train
asks has a signal (`SignalOK`, which `Load` breaks), or no slot is stale. There is one
lemma per action (`Keeps`: what the action keeps, for the train and for all others;
no action of another train touches what a train has, `OthersKeep`).

`Load` is two loops over the list of convoys, and `Reading` and `Finishing` are the
two uses of `Folding` for them. While the first reads, a tile gives each train that
stands on it a slot without a direction or refuses it; while the second finishes
(`FinishedOK`), the trains that are done hold what they should up to the place they
were refused, and those to come hold at most the tiles under them. A refused train
is set aside as lost or stops before the tile it was refused.

`Folding` is about the loops of the code, which are folds over sequences
(`FoldLeft`) and sums (`SumFunction`). The library defines both by recursive
functions, and its induction theorems take a property as a parameter, which the
provers cannot fill in. `Folding` inducts without: a set in the place of the
property and its least counterexample (`LeastOne`, `Induction`, `SubsetInduction`).
`FoldExists` shows that the recursive function exists, `FoldSteps` that a fold takes
one step for each element, and `FoldIn` that what every step keeps, the fold keeps.
`SumsExist` and `SumsUnique` do the same for sums: `SumRemove` counts one term apart,
`SumSame` compares, `SumChanged` changes one term. `FoldCounts` joins the two: what a
fold adds to a measure is the sum of what its steps add. The step of the fold is a `CONSTANT Step(_, _, _, _, _)`; a
module that uses the lemmas takes `INSTANCE Folding WITH Step <- ...` once for each
loop, with what the loop reads besides as the first three arguments.

`FreightProofs` assumes `FreightAssumption`: the tables of stops and convoys are
finite, schedules are not empty and amounts are natural numbers. From
`CargoInvariant` it proves `TypeCorrect`, `IndexExactTheorem` and
`NeverOverloadedTheorem`, for queues, cargos and schedules of any length. `CargoInv`
takes the three together, in the types themselves: a queue is a sequence of
`Filed` goods, which are filed under their own stops, and a convoy is one of
`Convoys`, which count at least what they carry and at most what they have room
for. They need each other: that amounts are not negative depends on
`fetch_goods_nearest_first` and `recall_ware` taking no more than is there, and
that on what is left of a cargo being looked at, not what was there at first. One
lemma for each loop says what its step keeps (`UnloadKeeps`: what is in the vehicle
and what `total_freight` counts decrease together; `PickKeeps`: what is
loaded uses up the room that was left), and one for each operation what the
whole operation keeps (`LiefereIn`, `ReroutedIn`, `FetchIn`, `UnloadIn`,
`ExchangedIn`, ...); then one for each action.

`TransitFollowsGoodsTheorem` compares what a factory counts with a sum over all
queues and cargos, before and after every step, so each loop has to be shown to
lose nothing. `FoldCounts` of `Folding` is the rule for that: if every step of a fold
adds its element's weight to a measure (or at most that), the fold adds the sum of
the weights (or at most that). The measure is `Excess`: what waits at a stop for `f`
beyond what `f` has been told of, or `Brought`, with the vehicle being unloaded.
There is one lemma for each operation: `LiefereCounts`, `UnloadCounts`,
`ReroutedCounts`, `FetchCounts`, `LoadCargoCounts`, `ShippedIn`,
`StaleRemovedCounts`, and `ExchangedCounts` for all that a convoy does at a stop.
`KeptCounts` needs that `fetch_goods_nearest_first` removes only entries of which
nothing is left. `RouteInvalidCounts` is the one that can lose goods
(`search_route_for_invalid_zwischenziel_goods`): none of `f`'s if none waits for a
stop that is gone (`NoneLost`) or the search already knows a stop that reaches `f`
(`Good`). Unloading comes first and may add goods to the queue, also for a stop that
is gone; `LiefereSafe` shows that `Safe`, the one or the other, survives that,
because goods get a route from the same search. So a loss implies
that such goods waited where the convoy loads and that no search that goes on there
knew a stop for them before the step (`LostAt`), as the property says. `DriftIs` then
brings the sums over all stops and convoys down to the one stop and the one convoy
that a step touches (`HereChanged`, `ThereChanged`), and `FollowsNext` goes through
the actions.

`ConnectionsCurrentTheorem` follows from `ConnectionsInvariant`. `ConnectionsCurrent`
alone is not inductive, since reconnecting takes many steps: the strengthening
`StagedCurrent` says that every stop the iterator has passed since the last change
has staged exactly the connections of the schedules; whatever changes a schedule or
a stop must then raise `outdated`.

Only model-checked. Under fairness: `PausedResumes`, `JoinEnds`, `TrainGetsIn`,
`Reopens`, which this prover cannot do. `NoGridlock`, which depends on the layout.
What the violated runs refute.

## 9. Not modelled

Passengers and mail, foot paths and the weights of routes; coupling and reversal
of convoys; choose, pre and longblock signals; the position of a vehicle within its tile, so
that what a departure does to a crossing is modelled tile by tile (section 4);
production, finance and growth of cities,
which are arithmetic inside one step; route search; threads, which only draw and
load; scripts; partial sends on sockets and several slots per machine; formats,
display and sound. `components` of `PROJECT.json` gives the reason for each, and
`hazards` those that no property covers.

## 10. Running

    tlc -workers 2 -config LockstepSafety.cfg MCLockstep
    tlc -workers 2 -config CrossingEvents.cfg MCCrossing
    tlc -workers 2 -config BlockSafety.cfg MCBlock
    tlc -workers 2 -config FreightSafety.cfg MCFreight
    tlapm LockstepProofs.tla
    tlapm CommandLog.tla
    tlapm SameWorldProofs.tla
    tlapm CrossingProofs.tla
    tlapm ReplicatedWorldProofs.tla
    tlapm BlockProofs.tla
    tlapm Folding.tla
    tlapm FreightProofs.tla
