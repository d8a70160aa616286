---------------------------- MODULE CrossingLogic ----------------------------
(***************************************************************************)
(* A level crossing (dataobj/crossing_logic.cc) and the vehicles that ask  *)
(* it, enter it and leave it.  Vehicles of way 2 (trains) have priority    *)
(* over those of way 1 (cars): a train that asks closes the crossing, at   *)
(* once or when the cars on it have left.                                  *)
(*                                                                         *)
(* One crossing_logic_t serves several adjacent tiles along way 1, the     *)
(* usual crossing of a road with several tracks.  A car is one vehicle     *)
(* that hops over all tiles; a train is a convoy of a front and a rear     *)
(* vehicle, the rear one on the tile before the front one has left it.     *)
(***************************************************************************)
EXTENDS Integers, FiniteSets

CONSTANTS
    Car,      \* vehicles of way 1
    Ahead,    \* those that ask while they are still tiles away (rail_vehicle_t
              \* on way 1); the others ask on the tile before the crossing
    Train,    \* convoys of way 2
    NoTrain,  \* request_close == NULL
    Length,   \* tiles of the crossing along way 1
    Events    \* the rare events of a run, see AllEvents

AllEvents == {"turn", "gone", "rebuild", "flight", "reload"}

ASSUME CrossingAssumption ==
    /\ Ahead \subseteq Car
    /\ Car \cap Train = {}
    /\ NoTrain \notin Train
    /\ Length \in Nat \ {0}
    /\ Events \subseteq AllEvents

VARIABLES
    state,         \* of the crossing_logic_t
    requestClose,  \* request_close: the front vehicle of this train
    onWay1,        \* on_way1
    onWay2,        \* on_way2
    carAt,         \* carAt[c]: the tile of the crossing on which c is, or 0
    cleared,       \* cars that were told to pass and are not there yet
    train,         \* train[t]: how far the convoy t is
    astray         \* history: the cars and trains that a new route took off the
                   \* lists while on the crossing, until they have left it

logicVars == <<state, requestClose, onWay1, onWay2>>
vars == <<logicVars, carAt, cleared, train, astray>>

Vehicle == Train \X {"front", "rear"}
Front(t) == <<t, "front">>
Rear(t)  == <<t, "rear">>
Aircraft == <<NoTrain, "aircraft">>

\* Who really stands on the tiles of the crossing.
CarsOn == {c \in Car : carAt[c] # 0}
OnWay2(t) == train[t] \in {"front", "both", "rear"}
TrainsOn == {Front(t) : t \in {u \in Train : train[u] \in {"front", "both"}}}
       \cup {Rear(t) : t \in {u \in Train : train[u] \in {"both", "rear"}}}

Init ==
    /\ state = "open" /\ requestClose = NoTrain /\ onWay1 = {} /\ onWay2 = {}
    /\ carAt = [c \in Car |-> 0] /\ cleared = {}
    /\ train = [t \in Train |-> "away"] /\ astray = {}

-----------------------------------------------------------------------------
(* The operations of crossing_logic_t. *)

\* request_crossing of a vehicle of way 1: an answer, nothing changes.
MayCross_WhileClosing(c) == onWay2 = {} \/ c \in onWay1
MayCross(c) == (onWay2 = {} /\ state = "open") \/ c \in onWay1

\* request_crossing of the front vehicle of t: granted if no car is on.
Granted == onWay1 = {}
RequestClosing_JustRefuses(t) ==
    IF Granted THEN state' = "closed" /\ requestClose' = t
               ELSE UNCHANGED <<state, requestClose>>
RequestClosing(t) ==
    IF Granted THEN state' = "closed" /\ requestClose' = t
               ELSE state' = "request" /\ UNCHANGED requestClose

\* add_to_crossing of a vehicle of way 2.
AddWay2(v) ==
    /\ onWay2' = onWay2 \cup {v}
    /\ requestClose' = IF v = Front(requestClose) THEN NoTrain ELSE requestClose
    /\ state' = "closed"

\* release_crossing of a vehicle of way 1.
ReleaseWay1(c) ==
    /\ onWay1' = onWay1 \ {c}
    /\ state' = IF state = "request" /\ onWay1' = {} THEN "closed" ELSE state

\* release_crossing of every other vehicle, for all of vs in one step.
ForgetRequest(vs) ==
    requestClose' = IF Front(requestClose) \in vs THEN NoTrain ELSE requestClose
ReleaseWay2_OtherRequest(vs) ==
    /\ onWay2' = onWay2 \ vs /\ ForgetRequest(vs)
    /\ state' = IF onWay2' = {} THEN "open" ELSE state
ReleaseWay2_KeepsRequest(vs) ==
    /\ onWay2' = onWay2 \ vs /\ UNCHANGED requestClose
    /\ state' = IF onWay2' = {} /\ requestClose = NoTrain THEN "open" ELSE state
ReleaseWay2(vs) ==
    /\ onWay2' = onWay2 \ vs /\ ForgetRequest(vs)
    /\ state' = IF onWay2' = {} /\ requestClose' = NoTrain THEN "open" ELSE state

\* recalc_state, the state being s before: the vehicles on the tiles are
\* registered anew, the request is forgotten.
RecalcState(s) ==
    /\ onWay1' = CarsOn /\ onWay2' = TrainsOn
    /\ requestClose' = NoTrain
    /\ state' = IF TrainsOn # {} THEN "closed" ELSE s

-----------------------------------------------------------------------------
(* Way 1: road_vehicle_t, private_car_t, or trains over a channel. *)

\* A vehicle that asks right before the crossing and hops on in the same step.
CarEnter(c) ==
    /\ carAt[c] = 0 /\ c \notin cleared /\ MayCross(c)
    /\ carAt' = [carAt EXCEPT ![c] = 1]
    /\ onWay1' = onWay1 \cup {c}
    /\ UNCHANGED <<state, requestClose, onWay2, cleared, train, astray>>

\* A vehicle that asks ahead, and arrives later without asking again.
CarAskAhead(c) ==
    /\ c \in Ahead \ cleared /\ carAt[c] = 0 /\ MayCross(c)
    /\ cleared' = cleared \cup {c}
    /\ UNCHANGED <<logicVars, carAt, train, astray>>

CarArrive(c) ==
    /\ c \in cleared
    /\ cleared' = cleared \ {c}
    /\ carAt' = [carAt EXCEPT ![c] = 1]
    /\ onWay1' = onWay1 \cup {c}
    /\ UNCHANGED <<state, requestClose, onWay2, train, astray>>

CarHop_TooFar(c) ==
    /\ carAt[c] \in 1 .. Length
    /\ carAt' = [carAt EXCEPT ![c] = @ + 1]
    /\ UNCHANGED <<logicVars, cleared, train, astray>>

\* From tile to tile: leave_tile releases the crossing even if the next tile
\* belongs to it, hop registers the vehicle again.
CarHop_NotRegistered(c) ==
    /\ carAt[c] \in 1 .. Length - 1
    /\ carAt' = [carAt EXCEPT ![c] = @ + 1]
    /\ ReleaseWay1(c)
    /\ UNCHANGED <<requestClose, onWay2, cleared, train, astray>>
CarHop(c) ==
    /\ carAt[c] \in 1 .. Length - 1
    /\ carAt' = [carAt EXCEPT ![c] = @ + 1]
    /\ state' = IF state = "request" /\ onWay1 \ {c} = {} THEN "closed" ELSE state
    /\ onWay1' = onWay1 \cup {c}
    /\ UNCHANGED <<requestClose, onWay2, cleared, train, astray>>

\* Behind the last tile, or the vehicle is removed while on the crossing.
CarLeave(c) ==
    /\ carAt[c] # 0
    /\ carAt' = [carAt EXCEPT ![c] = 0]
    /\ ReleaseWay1(c)
    /\ astray' = astray \ {c}
    /\ UNCHANGED <<requestClose, onWay2, cleared, train>>

\* vorfahren of a road convoy that has the vehicles cs on the crossing, when it
\* departs or after a new search: move_to takes every vehicle off the crossing
\* and puts it, unregistered, on the tile of the last one; those that drive on
\* to their old place register when they hop.  (unreserve_route does the same to
\* a rail vehicle that is ahead of the last one of its convoy.)
CarsDepart(cs, tail) ==
    LET again == {c \in cs : carAt[c] # tail}
    IN  /\ cs # {}
        /\ onWay1' = (onWay1 \ cs) \cup again
        /\ state' = IF state = "request" /\ onWay1 \ cs = {} THEN "closed" ELSE state
        /\ astray' = astray \cup (cs \ again)
        /\ UNCHANGED <<requestClose, onWay2, carAt, cleared, train>>

-----------------------------------------------------------------------------
(* Way 2: rail_vehicle_t::can_enter_tile, hop, leave_tile. *)

TrainBecomes(t, s) == /\ train' = [train EXCEPT ![t] = s]
                      /\ UNCHANGED <<carAt, cleared>>

\* crossing_reservation_index: a request some tiles ahead, the answer unused.
TrainAnnounce(t) ==
    /\ train[t] = "away"
    /\ RequestClosing(t) /\ UNCHANGED <<onWay1, onWay2, astray>>
    /\ TrainBecomes(t, "announced")

\* next_block is the crossing: once granted, next_stop_index lies behind it.
TrainAsk(t) ==
    /\ train[t] \in {"away", "announced", "asking"}
    /\ RequestClosing(t) /\ UNCHANGED <<onWay1, onWay2, astray>>
    /\ TrainBecomes(t, IF Granted THEN "granted" ELSE "asking")

\* Granted, but the block behind the crossing cannot be reserved: ask again.
TrainBlocked(t) ==
    /\ train[t] = "granted" /\ UNCHANGED <<logicVars, astray>>
    /\ TrainBecomes(t, "asking")

TrainEnter(t) ==
    /\ train[t] = "granted" /\ AddWay2(Front(t)) /\ UNCHANGED <<onWay1, astray>>
    /\ TrainBecomes(t, "front")

TrainRearEnters(t) ==
    /\ train[t] = "front" /\ AddWay2(Rear(t)) /\ UNCHANGED <<onWay1, astray>>
    /\ TrainBecomes(t, "both")

TrainFrontLeaves(t) ==
    /\ train[t] = "both"
    /\ ReleaseWay2({Front(t)}) /\ UNCHANGED <<onWay1, astray>>
    /\ TrainBecomes(t, "rear")

TrainLeaves(t) ==
    /\ train[t] = "rear"
    /\ ReleaseWay2({Rear(t)}) /\ astray' = astray \ {t} /\ UNCHANGED onWay1
    /\ TrainBecomes(t, "away")

\* convoi_t::unreserve_route, before another route or the sale of the train:
\* the front vehicle releases every crossing ahead of the rear vehicle.
TrainTurnsAway(t) ==
    /\ train[t] \in {"announced", "asking", "granted"}
    /\ ReleaseWay2({Front(t)}) /\ UNCHANGED <<onWay1, astray>>
    /\ TrainBecomes(t, "away")

\* unreserve_route, and no vorfahren after it: the schedule was edited, or the
\* search finds no route.
TrainReroutes(t) ==
    /\ train[t] = "front"
    /\ ReleaseWay2({Front(t)}) /\ astray' = astray \cup {t} /\ UNCHANGED onWay1
    /\ TrainBecomes(t, "front")

\* vorfahren at every departure and with every new route: move_to takes all
\* vehicles off the crossing and puts them, unregistered, on the tile of the
\* rear one.  A train whose rear is still before the crossing registers again
\* when its front hops on it; one whose rear is on the crossing stays there
\* and is on no list.
TrainDeparts(t) ==
    \/ /\ train[t] = "front"
       /\ AddWay2(Front(t)) /\ UNCHANGED <<onWay1, astray>>
       /\ TrainBecomes(t, "front")
    \/ /\ train[t] \in {"both", "rear"}
       /\ ReleaseWay2({Front(t), Rear(t)}) /\ astray' = astray \cup {t}
       /\ UNCHANGED onWay1
       /\ TrainBecomes(t, train[t])

\* The same when the train turns round: all start from the tile of the front
\* vehicle, which drives to where the rear one was.
TrainTurns(t) ==
    /\ "turn" \in Events
    /\ \/ /\ train[t] = "front"
          /\ ReleaseWay2({Front(t), Rear(t)}) /\ astray' = astray \cup {t}
          /\ TrainBecomes(t, "rear")
       \/ /\ train[t] = "rear"
          /\ onWay2' = (onWay2 \ {Rear(t)}) \cup {Front(t)}
          /\ ForgetRequest({Front(t)}) /\ state' = "closed"
          /\ UNCHANGED astray
          /\ TrainBecomes(t, "front")
    /\ UNCHANGED onWay1

\* ~rail_vehicle_t ends at the first tile that is not reserved: a crossing that
\* was only announced keeps its request.  Another train takes t's place.
TrainGone(t) ==
    /\ "gone" \in Events /\ train[t] = "announced" /\ UNCHANGED <<logicVars, astray>>
    /\ TrainBecomes(t, "away")

-----------------------------------------------------------------------------
(* The world around. *)

\* An aircraft leaves the tile above which it flew: leave_tile releases the
\* crossing for it, too.
FlyOver ==
    /\ "flight" \in Events
    /\ ReleaseWay2({Aircraft})
    /\ UNCHANGED <<onWay1, carAt, cleared, train, astray>>

\* crossing_logic_t::add and remove: a tile is built to the crossing or taken
\* away, the modelled ones stay.
Rebuild ==
    /\ "rebuild" \in Events
    /\ RecalcState("open") /\ UNCHANGED <<carAt, cleared, train, astray>>

\* The game is saved and loaded, by the player or by NWC_SYNC: crossing_t::rdwr
\* keeps the state, finish_rd calculates the rest.
Reload ==
    /\ "reload" \in Events
    /\ RecalcState(state) /\ UNCHANGED <<carAt, cleared, train, astray>>

-----------------------------------------------------------------------------
CarMoves(c) == CarHop(c) \/ CarLeave(c)
TrainMoves(t) == TrainRearEnters(t) \/ TrainFrontLeaves(t) \/ TrainLeaves(t)

Next == \/ \E c \in Car : \/ CarEnter(c) \/ CarAskAhead(c) \/ CarArrive(c) \/ CarMoves(c)
        \/ \E cs \in SUBSET CarsOn, tail \in 0 .. Length : CarsDepart(cs, tail)
        \/ \E t \in Train : \/ TrainAnnounce(t) \/ TrainAsk(t) \/ TrainBlocked(t)
                            \/ TrainEnter(t) \/ TrainMoves(t)
                            \/ TrainTurnsAway(t) \/ TrainReroutes(t) \/ TrainGone(t)
                            \/ TrainDeparts(t) \/ TrainTurns(t)
        \/ FlyOver \/ Rebuild \/ Reload

Spec == Init /\ [][Next]_vars

\* Every sync step moves every vehicle that may move, a train that was refused
\* asks in every sync step, and the block behind a crossing is not occupied
\* whenever a train asks for it.
FairSpec ==
    /\ Spec
    /\ \A c \in Car : WF_vars(CarMoves(c))
    /\ \A t \in Train : /\ WF_vars(TrainAsk(t) /\ train[t] # "away")
                        /\ SF_vars(TrainEnter(t)) /\ WF_vars(TrainMoves(t))

-----------------------------------------------------------------------------
(* Properties. *)

TypeOK ==
    /\ state \in {"open", "request", "closed"}
    /\ requestClose \in Train \cup {NoTrain}
    /\ onWay1 \subseteq Car /\ onWay2 \subseteq Vehicle
    /\ carAt \in [Car -> 0 .. Length] /\ cleared \subseteq Ahead
    /\ train \in [Train -> {"away", "announced", "asking", "granted",
                            "front", "both", "rear"}]
    /\ astray \subseteq Car \cup Train

\* The lists on_way1 and on_way2 name only vehicles that are on the tiles,
\* however they came there, across loading and rebuilding, and all of them but
\* those that a new route (unreserve_route, move_to) took off while they were
\* on the crossing.
RegisterExact ==
    /\ onWay1 \subseteq CarsOn /\ CarsOn \ onWay1 \subseteq astray
    /\ onWay2 \subseteq TrainsOn /\ \A v \in TrainsOn \ onWay2 : v[1] \in astray

\* As long as request_close remembers a train, the crossing is not opened, and
\* no vehicle of way 1 gets on it but those that were told so before; one that
\* was on it and on no list registers again when it hops.
RequestHolds ==
    requestClose # NoTrain => state # "open" /\ onWay1 \subseteq Ahead \cup astray

\* "returns true, if the crossing can be passed by this vehicle": a car and a
\* train are on the crossing at the same time only if all such cars, or all
\* such trains, were taken off the lists there: then crossing_logic_t cannot
\* know of them.
Exclusive == CarsOn \subseteq astray \/ {t \in Train : OnWay2(t)} \subseteq astray

\* A train that was refused gets its turn, although cars keep coming, or it
\* turns away.
TrainGetsIn == \A t \in Train : train[t] = "asking" ~> train[t] # "asking"

\* The crossing opens again for the cars, whatever train closed it.
Reopens == state # "open" ~> state = "open"

=============================================================================
