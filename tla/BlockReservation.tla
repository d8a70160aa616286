------------------------- MODULE BlockReservation -------------------------
(***************************************************************************)
(* Railway tracks and the trains that reserve them (boden/wege/schiene.cc, *)
(* rail_vehicle_t in vehicle/simvehicle.cc, convoi_t in simconvoi.cc).     *)
(* A train reserves, all or nothing, the tiles up to the next signal of    *)
(* its route before it passes the signal it stands at; its last vehicle    *)
(* gives every tile back.  A tile has two slots: two trains may hold it    *)
(* when their ways over it do not touch.                                   *)
(*                                                                         *)
(* A train is its first and its last vehicle, at the places front and back *)
(* of its route, and vehicles on every tile between.  Routes do not pass a *)
(* tile twice; signals are plain ones; no convoys are coupled, so each     *)
(* train is its own most parent convoi.                                    *)
(***************************************************************************)
EXTENDS Integers, Sequences, FiniteSets

CONSTANTS
    Tile, Train,
    NoTrain,   \* an unbound convoihandle_t
    Side,      \* the four borders of a tile
    NoSide,    \* ribi_t::none, as a heading
    Toward,    \* Toward[s][t]: the border of s that leads to its neighbour t
    Bends,     \* the ribis that are bends
    FourWay,   \* tiles with track to all sides
    Offset,    \* tiles with two ends whose way has a vehicle offset (mode 0)
    Faces,     \* Faces[t]: the borders from which a signal on t is seen
    Halt,      \* Halt[t]: the stop t belongs to, or t itself
    Routes,    \* Routes[c]: the routes the search can find for c
    Length,    \* tiles between the first and the last vehicle, at most
    Start,     \* Start[c]: the route along which c stands at the start
    MaxTrips,  \* MaxTrips[c], a bound: how often c departs
    Events,    \* the rare events of a run, see AllEvents
    MaxEvents  \* bound: how many of them happen

AllEvents == {"reroute", "noroute", "edit", "sell", "reload"}

Injective(r) == \A i, j \in DOMAIN r : r[i] = r[j] => i = j

ASSUME BlockAssumption ==
    /\ NoTrain \notin Train /\ NoSide \notin Side
    /\ Toward \in [Tile -> [Tile -> Side]]
    /\ Faces \in [Tile -> SUBSET Side]
    /\ {} \notin Bends
    /\ Length \in [Train -> Nat \ {0}] /\ Start \in [Train -> Seq(Tile)]
    /\ \A c \in Train : /\ Routes[c] \subseteq Seq(Tile)
                        /\ Start[c] \in Routes[c]
                        /\ \A r \in Routes[c] : Injective(r) /\ Len(r) > Length[c]
    /\ \A c, d \in Train : \A i \in 1..Length[c], j \in 1..Length[d] :
          Start[c][i] = Start[d][j] => c = d
    /\ MaxTrips \in [Train -> Nat \ {0}] /\ MaxEvents \in Nat
    /\ Events \subseteq AllEvents

VARIABLES
    way,      \* way[t]: the slots of the schiene_t on t, first and second
    phase,    \* phase[c]: state of the convoi_t
    route,    \* route[c]
    front,    \* front[c]: place of the first vehicle, its route_index - 1
    back,     \* back[c]: place of the last vehicle
    stop,     \* stop[c]: place of the signal to ask, next_stop_index - 1, or 0
    granted,  \* granted[c]: last place reserved, next_reservation_index
    trips, events,  \* how often trains departed and rare events happened
    lost      \* history: a refused or a given up reservation left c on a way
              \* that is not its own

vars == <<way, phase, route, front, back, stop, granted, trips, events, lost>>

Phases == {"routing", "noroute", "canstart", "driving", "waiting", "loading",
           "edit", "gone"}
NoLeg == [corner |-> {}, heading |-> NoSide]
Slot == [cnv : Train \cup {NoTrain}, corner : SUBSET Side, heading : Side \cup {NoSide}]
Free == [cnv |-> NoTrain, corner |-> {}, heading |-> NoSide]
SlotOf(c, leg) == [cnv |-> c, corner |-> leg.corner, heading |-> leg.heading]

\* get_corner_set, get_travel_dir: the borders a route crosses on its place
\* i, and the direction in which it comes there.
Leg(r, i) ==
    [corner |-> (IF i > 1 THEN {Toward[r[i]][r[i-1]]} ELSE {})
                \cup (IF i < Len(r) THEN {Toward[r[i]][r[i+1]]} ELSE {}),
     heading |-> IF i > 1 THEN Toward[r[i-1]][r[i]] ELSE NoSide]

\* Where the train is and where it still goes.
Occupied(c) == {route[c][i] : i \in back[c]..front[c]}
Standing(c, t) == phase[c] # "gone" /\ t \in Occupied(c)
PlaceOf(r, t) == CHOOSE i \in DOMAIN r : r[i] = t
LegOn(c, t) == Leg(route[c], PlaceOf(route[c], t))

-----------------------------------------------------------------------------
(* schiene_t: one track tile with slots w.  A handle is bound until the    *)
(* train is sold.                                                          *)

Bound(s) == s.cnv \in Train /\ phase[s.cnv] # "gone"
Holds(w, c) == c \in {w.first.cnv, w.second.cnv}

\* can_co_reserve_dirs, can_co_reserve_offset
DisjointBends_AnyWays(s, leg) == s.corner \cap leg.corner = {}   \* a mutant: straight ways, too
DisjointBends(s, leg) ==
    s.corner \in Bends /\ leg.corner \in Bends /\ s.corner \cap leg.corner = {}
OppositeHeadings(s, leg) ==
    s.heading # NoSide /\ leg.heading # NoSide /\ s.heading # leg.heading
MayShare(t, s, leg) ==
    \/ t \in FourWay /\ DisjointBends(s, leg)
    \/ t \in Offset /\ OppositeHeadings(s, leg)

\* A train that reserves its tile again only adds a direction not known yet.
Completed(s, leg) ==
    [s EXCEPT !.corner = IF @ = {} THEN leg.corner ELSE @,
              !.heading = IF @ = NoSide THEN leg.heading ELSE @]
Promoted(w) == IF ~Bound(w.first) /\ Bound(w.second)
               THEN [first |-> w.second, second |-> Free] ELSE w

\* reserve: the slots afterwards; c was refused if it does not hold them.
Reserved(t, w, c, leg) ==
    IF c = w.first.cnv THEN [w EXCEPT !.first = Completed(@, leg)]
    ELSE IF c = w.second.cnv THEN [w EXCEPT !.second = Completed(@, leg)]
    ELSE LET p == Promoted(w)
         IN  IF ~Bound(p.first) THEN [p EXCEPT !.first = SlotOf(c, leg)]
             ELSE IF ~Bound(p.second) /\ MayShare(t, p.first, leg)
             THEN [p EXCEPT !.second = SlotOf(c, leg)]
             ELSE p

\* unreserve.  Mutants: always the first slot; the second is not promoted.
Unreserved_First(w, c) ==
    IF Holds(w, c) THEN [first |-> w.second, second |-> Free] ELSE w
Unreserved_NoPromotion(w, c) ==
    IF c = w.first.cnv THEN [first |-> Free, second |-> Free]
    ELSE IF c = w.second.cnv THEN [w EXCEPT !.second = Free] ELSE w
Unreserved(w, c) ==
    IF c = w.first.cnv THEN [first |-> w.second, second |-> Free]
    ELSE IF c = w.second.cnv THEN [w EXCEPT !.second = Free]
    ELSE w

\* can_reserve without a corner set: may c enter t, coming with this heading?
CanReserve(t, c, heading) ==
    LET w == way[t]
    IN  \/ ~Bound(w.first) \/ Holds(w, c)
        \/ /\ t \in Offset /\ ~Bound(w.second)
           /\ OppositeHeadings(w.first, [corner |-> {}, heading |-> heading])

-----------------------------------------------------------------------------
(* rail_vehicle_t: block_reserver along the route r of c from place s on.  *)

HasSignal(t) == Faces[t] # {}
\* The block ends at the next signal that is not at the end of the route; on
\* its first place a signal counts from behind, too.
EndsBlock(r, s, i) ==
    \/ i = Len(r)
    \/ HasSignal(r[i]) /\ (i = s \/ Toward[r[i]][r[i-1]] \in Faces[r[i]])
BlockEnd(r, s) ==
    LET ends == {i \in s..Len(r) : EndsBlock(r, s, i)}
    IN  CHOOSE i \in ends : \A j \in ends : i <= j

Refusals(w, c, r, s) ==
    {i \in s..BlockEnd(r, s) : ~Holds(Reserved(r[i], w[r[i]], c, Leg(r, i)), c)}
BlockFree(w, c, r, s) == Refusals(w, c, r, s) = {}

\* Every tile of r between the places s and e reserved.
Taken(w, c, r, s, e) ==
    [t \in Tile |-> IF \E i \in s..e : r[i] = t
                    THEN Reserved(t, w[t], c, Leg(r, PlaceOf(r, t))) ELSE w[t]]
GivenBack(w, c, r, s, e) ==
    [t \in Tile |-> IF \E i \in s..e : r[i] = t THEN Unreserved(w[t], c) ELSE w[t]]

\* All tiles of the block, or none: those up to the first refusal go back.
\* Mutants: nothing goes back; the first tile is forgotten.
FirstRefusal(w, c, r, s) == CHOOSE i \in Refusals(w, c, r, s) :
                                \A j \in Refusals(w, c, r, s) : i <= j
Block_NoRollback(w, c, r, s) == Taken(w, c, r, s, BlockEnd(r, s))
Block_LateRollback(w, c, r, s) ==
    LET all == Taken(w, c, r, s, BlockEnd(r, s))
    IN  IF BlockFree(w, c, r, s) THEN all
        ELSE GivenBack(all, c, r, s + 1, FirstRefusal(w, c, r, s))
Block(w, c, r, s) ==
    IF BlockFree(w, c, r, s) THEN Taken(w, c, r, s, BlockEnd(r, s))
    ELSE LET k == FirstRefusal(w, c, r, s)
         IN  GivenBack(Taken(w, c, r, s, k), c, r, s, k)
BlockLimit_Next(w, c, r, s) == BlockEnd(r, s) + 1   \* a mutant: not the last place
BlockLimit(w, c, r, s) == IF BlockFree(w, c, r, s) THEN BlockEnd(r, s) ELSE s - 1
BlockStop(r, s) == IF BlockEnd(r, s) < Len(r) THEN BlockEnd(r, s) ELSE 0

\* leave_tile of the last vehicle: another train on the tile keeps it.
Neighbours(t, c) == {d \in Train \ {c} : Standing(d, t)}
LegNoted(d, t) == IF phase[d] = "noroute" THEN NoLeg ELSE LegOn(d, t)
KeptByOther(t, w, c) ==
    IF Neighbours(t, c) = {} THEN w
    ELSE LET d == CHOOSE d \in Neighbours(t, c) : TRUE IN Reserved(t, w, d, LegNoted(d, t))
LeftBy(t, w, c) == KeptByOther(t, Unreserved(w, c), c)

-----------------------------------------------------------------------------
(* What a train that does not lose its reservation has under and before it.*)

\* The last place that is the train's own: up to the signal it has not asked
\* yet, or up to the end of its route.
Limit(c) == IF phase[c] \notin {"driving", "waiting"} THEN front[c]
            ELSE IF stop[c] = 0 THEN Len(route[c])
            ELSE IF stop[c] > front[c] THEN stop[c] ELSE front[c]
HoldsWay(c) == \A i \in back[c]..Limit(c) : Holds(way[route[c][i]], c)

\* An action that may leave c on ways that are not its own says so.
Noted(c) == lost' = [lost EXCEPT ![c] = ~HoldsWay(c)']

Init ==
    /\ way = [t \in Tile |->
                IF \E c \in Train : \E i \in 1..Length[c] : Start[c][i] = t
                THEN LET c == CHOOSE c \in Train :
                                  \E i \in 1..Length[c] : Start[c][i] = t
                     IN  [first |-> SlotOf(c, Leg(Start[c], PlaceOf(Start[c], t))),
                          second |-> Free]
                ELSE [first |-> Free, second |-> Free]]
    /\ phase = [c \in Train |-> "canstart"]
    /\ route = Start
    /\ front = Length /\ back = [c \in Train |-> 1]
    /\ stop = [c \in Train |-> 0] /\ granted = Length
    /\ trips = [c \in Train |-> 1] /\ events = 0
    /\ lost = [c \in Train |-> FALSE]

Rare(e) == e \in Events /\ events < MaxEvents /\ events' = events + 1

-----------------------------------------------------------------------------
(* can_enter_tile of the first vehicle of c.                               *)

LookAhead == 3   \* tiles from which a signal is asked in advance

\* The place from which a block is to be reserved now, or 0.
AskFrom(c) ==
    IF stop[c] = 0 \/ stop[c] > front[c] + LookAhead + 1 THEN 0
    ELSE IF stop[c] < front[c] THEN front[c] + 1    \* signal disappeared
    ELSE IF HasSignal(route[c][stop[c]]) THEN stop[c] + 1 ELSE 0

NextFree(c) == CanReserve(route[c][front[c] + 1], c,
                          Leg(route[c], front[c] + 1).heading)

\* A block is tried; c goes on if that worked or if its signal is still ahead.
Tries(c) == NextFree(c) /\ AskFrom(c) # 0
Clear(c) == Tries(c) /\ BlockFree(way, c, route[c], AskFrom(c))
MayGo(c) == NextFree(c) /\ (~Tries(c) \/ Clear(c) \/ stop[c] > front[c])
WayAsked(c) == IF Tries(c) THEN Block(way, c, route[c], AskFrom(c)) ELSE way
PlacesAsked(c) ==
    /\ granted' = IF Tries(c)
                  THEN [granted EXCEPT ![c] = BlockLimit(way, c, route[c], AskFrom(c))]
                  ELSE granted
    /\ stop' = IF Clear(c) THEN [stop EXCEPT ![c] = BlockStop(route[c], AskFrom(c))]
               ELSE stop

-----------------------------------------------------------------------------
(* The train c.                                                            *)

\* The first vehicle hops on and reserves the tile it enters, enter_tile.
FrontHop(c) ==
    /\ phase[c] = "driving" /\ front[c] < Len(route[c])
    /\ front[c] - back[c] < Length[c] /\ MayGo(c)
    /\ LET i == front[c] + 1
           t == route[c][i]
           w == WayAsked(c)
       IN  way' = [w EXCEPT ![t] = Reserved(t, @, c, Leg(route[c], i))]
    /\ PlacesAsked(c)
    /\ front' = [front EXCEPT ![c] = @ + 1]
    /\ UNCHANGED <<phase, route, back, trips, events, lost>>

\* The way is not free: the train stops, and asks again from then on.
Wait(c) ==
    /\ phase[c] = "driving" /\ front[c] < Len(route[c]) /\ ~MayGo(c)
    /\ phase' = [phase EXCEPT ![c] = "waiting"]
    /\ way' = WayAsked(c) /\ PlacesAsked(c)
    /\ UNCHANGED <<route, front, back, trips, events, lost>>

Retry(c) ==
    /\ phase[c] = "waiting"
    /\ phase' = [phase EXCEPT ![c] = IF MayGo(c) THEN "driving" ELSE @]
    /\ way' = WayAsked(c) /\ PlacesAsked(c)
    /\ UNCHANGED <<route, front, back, trips, events, lost>>

\* The last vehicle hops and gives the tile back it leaves.
RearHop(c) ==
    /\ phase[c] = "driving" /\ front[c] - back[c] = Length[c]
    /\ LET t == route[c][back[c]] IN way' = [way EXCEPT ![t] = LeftBy(t, @, c)]
    /\ back' = [back EXCEPT ![c] = @ + 1]
    /\ UNCHANGED <<phase, route, front, stop, granted, trips, events, lost>>

Arrive(c) ==
    /\ phase[c] = "driving" /\ front[c] = Len(route[c])
    /\ phase' = [phase EXCEPT ![c] = "loading"]
    /\ UNCHANGED <<way, route, front, back, stop, granted, trips, events, lost>>

Depart(c) ==
    /\ phase[c] = "loading" /\ trips[c] < MaxTrips[c]
    /\ phase' = [phase EXCEPT ![c] = "routing"]
    /\ trips' = [trips EXCEPT ![c] = @ + 1]
    /\ UNCHANGED <<way, route, front, back, stop, granted, events, lost>>

\* can_enter_tile of a train that is about to start, at place f of r and
\* with the reservations w: the first block, unless it stands at a signal.
Starts(w, c, r, f, s) ==
    LET drive == HasSignal(r[f]) \/ BlockFree(w, c, r, f + 1)
    IN  /\ phase' = [phase EXCEPT ![c] = IF drive THEN "driving" ELSE "canstart"]
        /\ way' = IF HasSignal(r[f]) THEN w ELSE Block(w, c, r, f + 1)
        /\ stop' = [stop EXCEPT ![c] = IF HasSignal(r[f]) THEN f
                                       ELSE IF drive THEN BlockStop(r, f + 1) ELSE s]
        /\ granted' = [granted EXCEPT ![c] = IF HasSignal(r[f]) THEN f
                                             ELSE BlockLimit(w, c, r, f + 1)]

StartUp(c) ==
    /\ phase[c] = "canstart" /\ Starts(way, c, route[c], front[c], stop[c])
    /\ UNCHANGED <<route, front, back, trips, events, lost>>

\* drive_to and vorfahren: everything from the tile after the last vehicle on
\* is given back, the train is laid anew on the tiles it stands on, along r,
\* reserves these and tries to start.
Relaid_LastTileKept(c, r) ==   \* a mutant: the last tile is not given back
    LET end == IF phase[c] = "routing" THEN Len(route[c]) ELSE front[c]
        w == GivenBack(way, c, route[c], back[c] + 1, end)
    IN  [t \in Tile |-> IF t \in Occupied(c)
                        THEN Reserved(t, w[t], c, Leg(r, PlaceOf(r, t))) ELSE w[t]]
Relaid(c, r) ==
    LET end == IF phase[c] = "routing" THEN Len(route[c]) ELSE front[c]
        w == GivenBack(way, c, route[c], back[c] + 1, end)
        left == [w EXCEPT ![route[c][back[c]]] = LeftBy(route[c][back[c]], @, c)]
        leg(t) == [Leg(r, PlaceOf(r, t)) EXCEPT   \* enter_tile, if it turned
                     !.corner = IF t = r[1] /\ t # route[c][back[c]] THEN @ ELSE {}]
    IN  [t \in Tile |-> IF t \in Occupied(c) THEN Reserved(t, left[t], c, leg(t))
                                             ELSE left[t]]
FindRoute(c, r) ==
    LET n == front[c] - back[c] + 1 IN
    /\ phase[c] \in {"routing", "noroute"}
    /\ n < Len(r) /\ {r[i] : i \in 1..n} = Occupied(c)
    /\ route' = [route EXCEPT ![c] = r]
    /\ back' = [back EXCEPT ![c] = 1] /\ front' = [front EXCEPT ![c] = n]
    /\ Starts(Relaid(c, r), c, r, n, 0)
    /\ UNCHANGED <<trips, events>>
    /\ Noted(c)

\* The search fails: all has been given back but the tile of the last vehicle.
NoRoute(c) ==
    /\ Rare("noroute") /\ phase[c] = "routing"
    /\ phase' = [phase EXCEPT ![c] = "noroute"]
    /\ way' = GivenBack(way, c, route[c], back[c] + 1, Len(route[c]))
    /\ granted' = [granted EXCEPT ![c] = 0]
    /\ UNCHANGED <<route, front, back, stop, trips>>
    /\ Noted(c)

\* suche_neue_route: the next way is gone, or now a one-way.
Reroute(c) ==
    /\ Rare("reroute") /\ phase[c] \in {"driving", "waiting", "canstart"}
    /\ front[c] < Len(route[c])
    /\ phase' = [phase EXCEPT ![c] = "routing"]
    /\ UNCHANGED <<way, route, front, back, stop, granted, trips, lost>>

\* set_schedule of a train with a route.
EditSchedule(c) ==
    /\ Rare("edit") /\ phase[c] \in {"driving", "waiting", "canstart", "loading"}
    /\ phase' = [phase EXCEPT ![c] = "edit"]
    /\ UNCHANGED <<way, route, front, back, stop, granted, trips, lost>>

\* step in EDIT_SCHEDULE: everything is given back; a train in the stop in
\* which its route ends goes on or loads if it shall still go there.
EditDone(c) ==
    /\ phase[c] = "edit"
    /\ \E p \in {"routing"} \cup
                (IF Halt[route[c][front[c]]] = Halt[route[c][Len(route[c])]]
                 THEN {IF front[c] = Len(route[c]) THEN "loading" ELSE "driving"}
                 ELSE {}) :
          phase' = [phase EXCEPT ![c] = p]
    /\ way' = GivenBack(way, c, route[c], back[c] + 1, Len(route[c]))
    /\ granted' = [granted EXCEPT ![c] = back[c]]
    /\ UNCHANGED <<route, front, back, stop, trips, events>>
    /\ Noted(c)

\* destroy: the first vehicle gives the way ahead back unless the end of the
\* route is near, the others the tiles they stand on.
Ahead(c) ==
    IF front[c] + 1 >= Len(route[c]) - 1 THEN {}
    ELSE {i \in back[c] + 1..Len(route[c]) :
            ~\E j, k \in back[c] + 1..i : /\ j < k /\ Holds(way[route[c][j]], c)
                                          /\ ~Holds(way[route[c][k]], c)}
Sell(c) ==
    /\ Rare("sell") /\ phase[c] # "gone"
    /\ phase' = [phase EXCEPT ![c] = "gone"]
    /\ LET ahead == {route[c][i] : i \in Ahead(c)}
           head == IF front[c] > back[c] THEN {route[c][front[c]]} ELSE {}
           freed == [t \in Tile |-> IF t \in ahead \cup (Occupied(c) \ head)
                                   THEN Unreserved(way[t], c) ELSE way[t]]
       IN  way' = [t \in Tile |-> IF t \in Occupied(c) THEN KeptByOther(t, freed[t], c)
                                                       ELSE freed[t]]
    /\ UNCHANGED <<route, front, back, stop, granted, trips, lost>>

Runs(c) ==
    \/ FrontHop(c) \/ RearHop(c) \/ Arrive(c) \/ Wait(c) \/ Retry(c) \/ StartUp(c)
    \/ Depart(c) \/ \E r \in Routes[c] : FindRoute(c, r)
    \/ EditDone(c)
Next == \E c \in Train :
    Runs(c) \/ NoRoute(c) \/ Reroute(c) \/ EditSchedule(c) \/ Sell(c)

Spec == Init /\ [][Next]_vars

-----------------------------------------------------------------------------
(* Properties *)

TypeOK ==
    /\ way \in [Tile -> [first : Slot, second : Slot]]
    /\ phase \in [Train -> Phases] /\ lost \in [Train -> BOOLEAN]
    /\ route \in [Train -> Seq(Tile)]
    /\ {front, back, stop, granted, trips} \subseteq [Train -> Nat]
    /\ events \in 0..MaxEvents
    /\ \A c \in Train :
          /\ route[c] \in Routes[c]
          /\ 1 <= back[c] /\ back[c] <= front[c] /\ front[c] <= Len(route[c])
          /\ front[c] - back[c] <= Length[c]
          /\ stop[c] <= Len(route[c]) /\ granted[c] <= Len(route[c])
          /\ trips[c] <= MaxTrips[c]

Live(c) == phase[c] # "gone"

\* A train has under it and before it, up to the signal it asks next or to the
\* end of its route, only ways it holds: no action of another train and no
\* refused block takes one of them away.
WayIsHeld == \A c \in Train : Live(c) /\ ~lost[c] => HoldsWay(c)

\* Two trains on one tile that both keep what they reserved run over it
\* without touching: on bends at different corners, or past each other on a
\* way with an offset.  Their ways are those of their routes, whatever the
\* slots say of them.
Untouched(t, p, q) ==
    \/ {p.corner, q.corner} \subseteq Bends /\ p.corner \cap q.corner = {}
    \/ t \in Offset /\ NoSide \notin {p.heading, q.heading} /\ p.heading # q.heading
NoCollision ==
    \A t \in Tile, a, b \in Train :
        a # b /\ Standing(a, t) /\ Standing(b, t) /\ ~lost[a] /\ ~lost[b]
        => Untouched(t, LegOn(a, t), LegOn(b, t))

\* A train holds nothing behind its last vehicle and nothing beyond its last
\* block: no refusal, new route or arrival leaves a stray reservation.
NoStrayReservation ==
    \A c \in Train, t \in Tile :
        Live(c) /\ Holds(way[t], c) =>
            \E i \in back[c]..Len(route[c]) :
                route[c][i] = t /\ (i <= front[c] \/ i <= granted[c])

\* What a slot says of the way of its train over the tile is right.
LegsKnown ==
    \A t \in Tile : \A s \in {way[t].first, way[t].second} :
        Bound(s) => /\ s.corner \in {{}, LegOn(s.cnv, t).corner}
                    /\ s.heading \in {NoSide, LegOn(s.cnv, t).heading}

\* Nobody loses a tile by what another train does: not by its reserving or
\* giving back of a shared tile, not by its being sold, not by its being loaded
\* first, unless the train is among those that "lost" sets aside.
Served == {"driving", "waiting", "canstart", "loading"}
TakenOnlyByItself ==
    [][\A c \in Train :
          /\ phase[c] \in Served /\ ~lost[c] /\ ~lost'[c]
          /\ phase'[c] = phase[c] /\ front'[c] = front[c] /\ back'[c] = back[c]
          /\ stop'[c] = stop[c] /\ granted'[c] = granted[c]
          => \A t \in Tile : Holds(way[t], c) => Holds(way'[t], c)]_vars

\* A train in a stop "holds the tiles it stands on, and nobody else can ever
\* reserve those" (a comment in block_reserver); not so after an edited schedule.
PlatformHeld ==
    \A c \in Train : phase[c] = "loading" => \A t \in Occupied(c) : Holds(way[t], c)

\* No gridlock: as long as nothing rare happens, some train can go on until
\* all have arrived.  A train whose block is refused holds no part of it.
MayMove(c) ==
    CASE phase[c] = "waiting" -> MayGo(c)
      [] phase[c] = "canstart" -> \/ HasSignal(route[c][front[c]])
                                  \/ BlockFree(way, c, route[c], front[c] + 1)
      [] phase[c] = "loading" -> trips[c] < MaxTrips[c]
      [] OTHER -> TRUE
NoGridlock == events = 0 /\ (\E c \in Train : phase[c] # "loading")
              => \E c \in Train : MayMove(c)

=============================================================================
