------------------------------- MODULE Freight -------------------------------
(***************************************************************************)
(* Goods on their way from a producer to the factories that use them       *)
(* (src/simhalt.cc, src/simfab.cc, src/vehicle/simvehicle.cc).  A factory  *)
(* only counts what is in transit to it: it is told of every shipment, and *)
(* whoever takes goods out of the world has to tell it.  Goods remember    *)
(* handles of stops (their ziel and the next stop to leave the vehicle,    *)
(* the zwischenziel); stops are removed and built again, also under the    *)
(* same handle, while goods wait or ride, and all stops are reconnected    *)
(* and then their goods rerouted a few at a time between other steps.      *)
(*                                                                         *)
(* Abstractions: one category of goods without time based routing (the     *)
(* first transit halt is the only one that is read); stops of one place;   *)
(* convoys of one vehicle and without a line; first come first served is   *)
(* off; overcrowding, foot paths and revenue are left out; of several best *)
(* routes any may be found; a search explores at once what its origin      *)
(* reaches.                                                                *)
(***************************************************************************)
EXTENDS Integers, FiniteSets, SequencesExt

CONSTANTS
    Place,          \* where stops can be
    Halt,           \* the handles of stops
    NoHalt,         \* halthandle_t(), never bound
    Convoy, Factory,
    Source,         \* the places whose stops the producer reaches
    Covers,         \* [Factory -> SUBSET Place]: whose stops reach the factory
    Stations,       \* [Place -> Halt], the stops at the beginning
    Timetable,      \* [Convoy -> Seq(Place)], the first schedules
    Timetables,     \* the schedules a player may set
    Capacity,       \* of a convoy
    Room, Slack,    \* get_capacity(2) of a stop, and the 9 of verteile_waren
    Amounts,        \* the shipments of the producer
    Events,         \* the rare events of a run
    MaxStarts,      \* BOUND: shipments and buildings together
    MaxEvents       \* BOUND: of the other events

Schedules == Seq(Place) \ {<<>>}

\* The handles of all stops are of one finite table, the convoys of another.
ASSUME FreightAssumption ==
    /\ IsFiniteSet(Halt) /\ IsFiniteSet(Convoy) /\ NoHalt \notin Halt
    /\ Source \subseteq Place
    /\ Stations \in [Place -> Halt \cup {NoHalt}] /\ Covers \in [Factory -> SUBSET Place]
    /\ Timetable \in [Convoy -> Schedules] /\ Timetables \subseteq Schedules
    /\ Capacity \in Nat /\ Room \in Nat /\ Slack \in Nat /\ Amounts \subseteq Nat

VARIABLES
    haltAt,         \* [Place -> Halt or NoHalt]
    waiting,        \* [Halt -> Seq of cargos], the queue and its indices
    links, comp,    \* all_links: connections and catg_connected_component
    staged,         \* staged_all_links: {} or {connections}
    status, todo,   \* status_step, and the stops it has not come to yet
    outdated,       \* reconnect_counter # schedule_counter
    search,         \* last_search_origin and what halt_data knows from there
    convoy,         \* [Convoy -> schedule, stop, load and total_freight]
    stale,          \* stale_convois
    factories,      \* the factories that exist
    transit,        \* FAB_GOODS_TRANSIT
    started, rare   \* how much of the bounds is used

haltVars == <<haltAt, links, comp, staged, status, todo>>
boundVars == <<started, rare>>
vars == <<haltAt, waiting, links, comp, staged, status, todo, outdated, search,
          convoy, stale, factories, transit, started, rare>>

------------------------------------------------------------------------------
(* Stops, their connections and the search for a route.                     *)

\* The elements of a sequence that are in S, in order.
Selected(seq, S) == FoldLeft(LAMBDA s, x : IF x \in S THEN Append(s, x) ELSE s, <<>>, seq)

HaltsAt(P) == {haltAt[p] : p \in P} \ {NoHalt}
Alive == HaltsAt(Place)
Connected(h, f) == h \in HaltsAt(Covers[f])

Serves(c) == HaltsAt(Range(convoy[c].schedule))
Connections(h) == (UNION {Serves(c) : c \in {k \in Convoy : h \in Serves(k)}}) \ {h}

\* The stops that can be reached from S over L without passing h.
Reached(L, S, h) ==
    LET hops[n \in 0..Cardinality(Halt)] ==
            IF n = 0 THEN S
            ELSE hops[n - 1] \cup (((UNION {L[x] : x \in hops[n - 1]}) \cap Alive) \ {h})
    IN  hops[Cardinality(Halt)]

FirstHops(h, d) == {n \in (links[h] \cap Alive) \ {h} : d \in Reached(links, {n}, h)}
Components(L) == [h \in Halt |-> IF h \in Alive THEN Reached(L, {h}, NoHalt) ELSE {}]
SameComponent(h, d) == comp[h] = {} \/ comp[d] = {} \/ comp[h] = comp[d]

\* What an exploration from h finds: the first hop to each stop.
Explorations(h) ==
    LET hops == [d \in Halt |-> IF d \in Alive THEN FirstHops(h, d) ELSE {}]
    IN  {e \in [Halt -> (UNION {hops[d] : d \in Halt}) \cup {NoHalt}] :
             \A d \in Halt : IF hops[d] = {} THEN e[d] = NoHalt ELSE e[d] \in hops[d]}

Nothing == [d \in Halt |-> NoHalt]
NoSearch == [origin |-> NoHalt, known |-> Nothing]

Routed(g, ziel, via) == [g EXCEPT !.ziel = ziel, !.via = via]

\* A search from the stop of the last one goes on with what that one knows, and
\* finds nothing more if it ended before it began to explore.
SearchRouteResumable(s, h, g, e) ==
    LET ends == HaltsAt(Covers[g.factory])
        resumed == s.origin = h
        known == IF resumed THEN s.known ELSE Nothing
        To(k, D) == IF D = {} THEN Routed(g, NoHalt, NoHalt)
                    ELSE LET d == CHOOSE x \in D : TRUE IN Routed(g, d, k[d])
        Found(k, r) == [search |-> [origin |-> h, known |-> k], goods |-> r]
        Marked(k) == {d \in ends : k[d] # NoHalt}
    IN  CASE h \in ends -> Found(known, Routed(g, h, NoHalt))
          [] h \notin ends /\ (resumed \/ \A d \in ends : ~SameComponent(h, d)) ->
                Found(known, To(known, Marked(known)))
          [] OTHER -> Found(e, To(e, {d \in Marked(e) : SameComponent(h, d)}))

------------------------------------------------------------------------------
(* Counting, and the queue of waiting goods.                                *)

SumOf(seq, f) == SumFunction([i \in DOMAIN seq |-> IF seq[i].factory = f THEN seq[i].amount ELSE 0])
Total(load) == SumFunction([i \in DOMAIN load |-> load[i].amount])
GoodsOf(queue) == [i \in DOMAIN queue |-> queue[i].goods]

\* update_transit, apply_transit and liefere_an of a factory that may be gone.
Told(counter, f, n) == IF f \in factories THEN [counter EXCEPT ![f] = @ + n] ELSE counter
ToldAll(counter, goods) ==
    [f \in Factory |-> IF f \in factories THEN counter[f] - SumOf(goods, f) ELSE counter[f]]

\* All that is really on its way to f.
UnderWay(f) == SumFunction([h \in Halt |-> SumOf(GoodsOf(waiting[h]), f)])
               + SumFunction([c \in Convoy |-> SumOf(convoy[c].load, f)])

\* A cargo with the stops it is filed under in ziel_index and zwischenziel_index.
Indexed(g) == [goods |-> g, at |-> [ziel |-> g.ziel, via |-> g.via]]

Joinable(queue, g) == {i \in DOMAIN queue : /\ queue[i].at.ziel = g.ziel
                                            /\ queue[i].goods.ziel = g.ziel
                                            /\ queue[i].goods.factory = g.factory}
First(S) == CHOOSE i \in S : \A j \in S : i <= j
Lesser(a, b) == IF a < b THEN a ELSE b

VereinigeWaren_NotFiled(h, queue, g) ==    \* a mutant: update_index forgotten
    LET i == First(Joinable(queue, g))
        newer == g.via \in Alive /\ g.via # h
    IN  [queue EXCEPT ![i].goods.amount = @ + g.amount,
                      ![i].goods.via = IF newer THEN g.via ELSE @]

VereinigeWaren(h, queue, g) ==
    LET i == First(Joinable(queue, g))
        there == queue[i].goods
        newer == g.via \in Alive /\ g.via # h
        more == [there EXCEPT !.amount = @ + g.amount,
                              !.via = IF newer THEN g.via ELSE @]
    IN  [queue EXCEPT ![i] = IF newer THEN Indexed(more) ELSE [@ EXCEPT !.goods = more]]

Queued(h, queue, g) == IF Joinable(queue, g) # {} THEN VereinigeWaren(h, queue, g)
                       ELSE Append(queue, Indexed(g))

\* side: what a step at stop h works on, its queue, the search and the counters.
Side(h) == [queue |-> waiting[h], search |-> search, transit |-> transit]

StarteMitRoute(side, h, g) ==
    IF g.ziel = h THEN [side EXCEPT !.transit = Told(@, g.factory, -g.amount)]
    ELSE [side EXCEPT !.queue = Queued(h, @, g)]

LiefereAn(side, h, g, e) ==
    LET r == SearchRouteResumable(side.search, h, g, e)
    IN  IF Connected(h, g.factory)
          THEN [side EXCEPT !.transit = Told(@, g.factory, -g.amount)]
        ELSE IF Joinable(side.queue, g) # {}
          THEN [side EXCEPT !.queue = VereinigeWaren(h, @, g)]
        ELSE IF r.goods.ziel = NoHalt
          THEN [side EXCEPT !.search = r.search, !.transit = Told(@, g.factory, -g.amount)]
        ELSE [side EXCEPT !.search = r.search,
                          !.queue = IF r.goods.ziel # g.ziel THEN Queued(h, @, r.goods)
                                    ELSE Append(@, Indexed(r.goods))]

\* search_route_for_invalid_zwischenziel_goods: goods without a route are erased,
\* and nobody is told.
RouteInvalid(side, h, e) ==
    FoldLeft(LAMBDA s, cargo :
        LET r == SearchRouteResumable(s.search, h, cargo.goods, e)
        IN  IF cargo.at.via \in Alive THEN [s EXCEPT !.queue = Append(@, cargo)]
            ELSE [s EXCEPT !.search = r.search,
                           !.queue = IF r.goods.ziel \in Alive
                                     THEN Append(@, Indexed(r.goods)) ELSE @],
        [side EXCEPT !.queue = <<>>], side.queue)

\* fetch_goods_nearest_first: stop after stop, until the room is used up.
Fetch(queue, room, stops) ==
    LET places == [i \in DOMAIN queue |-> i]
        picks == FoldLeft(LAMBDA p, h : p \o Selected(places, {i \in DOMAIN queue : queue[i].at.via = h}),
                          <<>>, stops)
        Pick(s, i) ==
            LET there == s.rest[i].goods
                n == Lesser(there.amount, s.room)
            IN  IF s.room = 0 THEN s
                ELSE [room |-> s.room - n,
                      load |-> IF n = 0 THEN s.load ELSE <<[there EXCEPT !.amount = n]>> \o s.load,
                      rest |-> [s.rest EXCEPT ![i].goods.amount = @ - n],
                      gone |-> IF n = there.amount THEN s.gone \cup {i} ELSE s.gone]
        end == FoldLeft(Pick, [room |-> room, load |-> <<>>, rest |-> queue, gone |-> {}], picks)
        kept == Selected(places, DOMAIN queue \ end.gone)
    IN  [queue |-> [k \in DOMAIN kept |-> end.rest[kept[k]]], load |-> end.load]

------------------------------------------------------------------------------
(* Vehicles.                                                                *)

\* The stops of a convoy from its current one on.
StopsFrom(con) ==
    LET n == Len(con.schedule)
        round == [k \in 1..n |-> haltAt[con.schedule[((con.stop + k - 2) % n) + 1]]]
    IN  Selected(round, Halt)

\* calc_reachable_halts: those after the current one, up to the next visit of h,
\* where the convoy will load again.
Reachable(con, h) ==
    LET stops == StopsFrom(con)
        again == {i \in 2..Len(stops) : stops[i] = h}
    IN  SubSeq(stops, 2, IF again = {} THEN Len(stops) ELSE First(again) - 1)

UnloadCargo(side, h, con, all, e) ==
    FoldLeft(LAMBDA s, g :
        IF g.ziel \notin Alive \/ g.via \notin Alive
          THEN [s EXCEPT !.side.transit = Told(@, g.factory, -g.amount), !.total = @ - g.amount]
        ELSE IF g.ziel = h \/ g.via = h \/ all
          THEN [s EXCEPT !.side = LiefereAn(@, h, g, e), !.total = @ - g.amount]
        ELSE [s EXCEPT !.load = Append(@, g)],
        [side |-> side, load |-> <<>>, total |-> con.total], con.load)

LoadCargo(load, fetched) ==
    LET Same(g) == {i \in DOMAIN load : load[i].ziel = g.ziel /\ load[i].factory = g.factory}
    IN  FoldLeft(LAMBDA s, g : IF Same(g) = {} THEN Append(s, g)
                               ELSE [s EXCEPT ![First(Same(g))].amount = @ + g.amount],
                 load, fetched)

\* Goods that cannot leave the convoy where they wanted to leave it at its next
\* stop; total_freight is counted anew.
RemoveStaleCargo(con, counter) ==
    LET stops == StopsFrom(con)
        Sent(g) == IF g.via \in Range(stops) THEN g
                   ELSE Routed(g, IF g.ziel \in Alive THEN g.ziel ELSE Head(stops), Head(stops))
        load == IF stops = <<>> THEN <<>> ELSE [i \in DOMAIN con.load |-> Sent(con.load[i])]
    IN  [con |-> [con EXCEPT !.load = load, !.total = Total(load)],
         transit |-> IF stops = <<>> THEN ToldAll(counter, con.load) ELSE counter]

\* a mutant: the factories are not told
Discarded_Untold(con, counter) == [con |-> [con EXCEPT !.load = <<>>], transit |-> counter]

Discarded(con, counter) ==
    [con |-> [con EXCEPT !.load = <<>>],
     transit |-> ToldAll(counter, con.load)]

------------------------------------------------------------------------------
(* The producer, and the convoys at their stops.                            *)

\* How much of f's goods is in the first cargo found at h.
AmountFor(h, f) ==
    LET its == {i \in DOMAIN waiting[h] : waiting[h][i].goods.factory = f}
    IN  IF its = {} THEN 0 ELSE waiting[h][First(its)].goods.amount

\* recall_ware: n of the goods of f that wait at h go back to the producer.
Recalled(side, f, n) ==
    LET i == First({k \in DOMAIN side.queue : /\ side.queue[k].goods.factory = f
                                              /\ side.queue[k].goods.amount > 0})
    IN  [side EXCEPT !.queue[i].goods.amount = @ - n, !.transit = Told(@, f, -n)]

\* The routes search_route can find for goods of f that start at h.
RoutesFrom(h, f) ==
    IF Connected(h, f) THEN {[ziel |-> h, via |-> NoHalt]}
    ELSE {[ziel |-> d, via |-> n] : d \in {x \in HaltsAt(Covers[f]) : SameComponent(h, x)},
                                    n \in Halt} \cap
         UNION {{[ziel |-> d, via |-> n] : n \in FirstHops(h, d)} : d \in Alive}

\* Whose goods make room at h for those of f: a stop that is too full takes none
\* while goods of f wait there, and else some for those it has most of.
Space(h) == Room - Total(GoodsOf(waiting[h]))
MakingRoom(h, f) ==
    IF Space(h) >= 0 THEN {f}
    ELSE IF AmountFor(h, f) # 0 THEN {}
    ELSE {g \in Factory : /\ AmountFor(h, g) > 0
                          /\ \A x \in Factory : AmountFor(h, x) <= AmountFor(h, g)}

\* Stop h when m for f start there, and goods of g go back to make room.
Shipped(h, f, m, r, g) ==
    LET menge == IF Slack + Space(h) < 0 THEN 0 ELSE Lesser(m, Slack + Space(h))
        n == IF Space(h) < 0 THEN Lesser(AmountFor(h, g) \div 2, 1 - Space(h)) ELSE 0
        side == IF Space(h) < 0 THEN Recalled(Side(h), g, n) ELSE Side(h)
        goods == [factory |-> f, amount |-> menge + n, ziel |-> r.ziel, via |-> r.via]
    IN  [StarteMitRoute(side, h, goods) EXCEPT
            !.transit = Told(@, f, goods.amount),
            !.search = IF Connected(h, f) THEN @ ELSE NoSearch]

\* verteile_waren: a shipment to f starts at a stop of the producer.
Ship(f) ==
    /\ started < MaxStarts
    /\ f \in factories
    /\ \E h \in HaltsAt(Source), m \in Amounts :
       \E r \in RoutesFrom(h, f), g \in MakingRoom(h, f) :
            LET x == Shipped(h, f, m, r, g)
            IN  /\ waiting' = [waiting EXCEPT ![h] = x.queue]
                /\ search' = x.search
                /\ transit' = x.transit
    /\ started' = started + 1
    /\ UNCHANGED <<haltVars, outdated, convoy, stale, factories, rare>>

\* total_freight decides how much more is loaded; a mutant counts the cargo.
FreeCapacity_OfCargo(un) == Capacity - Total(un.load)
FreeCapacity(un) == Capacity - un.total

\* What hat_gehalten does with a convoy at h: it unloads, then loads.
Exchanged(h, con, all, e) ==
    LET un == UnloadCargo(Side(h), h, con, all, e)
        room == FreeCapacity(un)
        ready == IF room > 0 /\ un.side.queue # <<>> THEN RouteInvalid(un.side, h, e)
                 ELSE un.side
        got == Fetch(ready.queue, room, IF room > 0 THEN Reachable(con, h) ELSE <<>>)
    IN  [side |-> [ready EXCEPT !.queue = got.queue],
         con |-> [con EXCEPT !.load = LoadCargo(un.load, got.load),
                             !.total = un.total + Total(got.load)]]

\* A stop of the convoy at which nothing is to be loaded or unloaded is a Go.
Load(c) ==
    /\ \E h \in HaltsAt({convoy[c].schedule[convoy[c].stop]}) :
       /\ convoy[c].load # <<>> \/ waiting[h] # <<>>
       /\ \E e \in Explorations(h), all \in BOOLEAN :
            LET x == Exchanged(h, convoy[c], all, e)
            IN  /\ waiting' = [waiting EXCEPT ![h] = x.side.queue]
                /\ search' = x.side.search
                /\ transit' = x.side.transit
                /\ convoy' = [convoy EXCEPT ![c] = x.con]
    /\ UNCHANGED <<haltVars, outdated, stale, factories, boundVars>>

Go_NoWrap(c) ==     \* a mutant: no first stop after the last
    /\ convoy' = [convoy EXCEPT ![c].stop = @ + 1]
    /\ UNCHANGED <<haltVars, waiting, outdated, search, stale, factories, transit, boundVars>>

Go(c) ==
    /\ convoy' = [convoy EXCEPT ![c].stop = (@ % Len(convoy[c].schedule)) + 1]
    /\ UNCHANGED <<haltVars, waiting, outdated, search, stale, factories, transit, boundVars>>

\* A search for passengers, or for goods of another category.
OtherSearch ==
    /\ search # NoSearch
    /\ search' = NoSearch
    /\ UNCHANGED <<haltVars, waiting, outdated, convoy, stale, factories, transit, boundVars>>

------------------------------------------------------------------------------
(* step_all: stale convoys, then all stops reconnect, then all reroute.     *)

CheckStale(c) ==
    /\ c \in stale
    /\ LET r == RemoveStaleCargo(convoy[c], transit)
       IN  /\ convoy' = [convoy EXCEPT ![c] = r.con]
           /\ transit' = r.transit
    /\ stale' = stale \ {c}
    /\ UNCHANGED <<haltVars, waiting, outdated, search, factories, boundVars>>

StartReconnecting_GoesOn ==     \* a mutant: stops that have reconnected do not again
    /\ outdated
    /\ outdated' = FALSE
    /\ status' = "reconnecting"
    /\ todo' = IF status = "reconnecting" THEN todo ELSE Alive
    /\ UNCHANGED <<haltAt, links, comp, staged, waiting, search, convoy, stale, factories,
                   transit, boundVars>>

StartReconnecting ==
    /\ outdated
    /\ outdated' = FALSE
    /\ status' = "reconnecting"
    /\ todo' = Alive
    /\ UNCHANGED <<haltAt, links, comp, staged, waiting, search, convoy, stale, factories,
                   transit, boundVars>>

Reconnect(h) ==
    /\ ~outdated /\ status = "reconnecting" /\ h \in todo
    /\ staged' = [staged EXCEPT ![h] = {Connections(h)}]
    /\ todo' = todo \ {h}
    /\ UNCHANGED <<haltAt, links, comp, status, waiting, outdated, search, convoy, stale,
                   factories, transit, boundVars>>

\* rebuild_connected_components commits what was staged.
StartRerouting ==
    /\ ~outdated /\ status = "reconnecting" /\ todo = {}
    /\ links' = [h \in Halt |-> IF staged[h] = {} THEN links[h] ELSE UNION staged[h]]
    /\ comp' = Components(links')
    /\ staged' = [h \in Halt |-> {}]
    /\ status' = "rerouting"
    /\ todo' = Alive
    /\ UNCHANGED <<haltAt, waiting, outdated, search, convoy, stale, factories, transit,
                   boundVars>>

\* reroute_goods: empty entries and goods that have arrived leave the queue, then
\* a route is searched for each of the others.
Rerouted(side, h, e) ==
    LET cargos == Range(side.queue)
        arrived == {cargo \in cargos : Connected(h, cargo.goods.factory)}
        empty == {cargo \in cargos : cargo.goods.amount = 0}
    IN  FoldLeft(LAMBDA s, cargo :
            LET r == SearchRouteResumable(s.search, h, cargo.goods, e)
            IN  IF r.goods.ziel = NoHalt
                  THEN [s EXCEPT !.search = r.search,
                                 !.transit = Told(@, cargo.goods.factory, -cargo.goods.amount)]
                ELSE [s EXCEPT !.search = r.search, !.queue = Append(@, Indexed(r.goods))],
            [side EXCEPT !.queue = <<>>,
                         !.transit = ToldAll(@, GoodsOf(Selected(side.queue, arrived)))],
            Selected(side.queue, cargos \ (arrived \cup empty)))

Reroute(h) ==
    /\ ~outdated /\ status = "rerouting" /\ h \in todo
    /\ \E e \in Explorations(h) :
         LET side == Rerouted(Side(h), h, e)
         IN  /\ waiting' = [waiting EXCEPT ![h] = side.queue]
             /\ search' = side.search
             /\ transit' = side.transit
    /\ todo' = todo \ {h}
    /\ UNCHANGED <<haltAt, links, comp, staged, status, outdated, convoy, stale, factories,
                   boundVars>>

EndRerouting ==
    /\ ~outdated /\ status = "rerouting" /\ todo = {}
    /\ status' = "idle"
    /\ UNCHANGED <<haltAt, links, comp, staged, todo, waiting, outdated, search, convoy, stale,
                   factories, transit, boundVars>>

------------------------------------------------------------------------------
(* Rare events.                                                             *)

Rare(kind) == kind \in Events /\ rare < MaxEvents /\ rare' = rare + 1 /\ UNCHANGED started

Again(kind) == kind \in Events /\ started < MaxStarts /\ started' = started + 1 /\ UNCHANGED rare

EditSchedule(c, s) ==
    /\ Rare("edit") /\ s # convoy[c].schedule
    /\ \E k \in DOMAIN s :
         LET r == RemoveStaleCargo([convoy[c] EXCEPT !.schedule = s, !.stop = k], transit)
         IN  convoy' = [convoy EXCEPT ![c] = r.con] /\ transit' = r.transit
    /\ outdated' = TRUE
    /\ UNCHANGED <<haltVars, waiting, search, stale, factories>>

RemoveHalt(p) ==
    /\ Rare("remove") /\ haltAt[p] # NoHalt
    /\ LET h == haltAt[p]
       IN  /\ transit' = ToldAll(transit, GoodsOf(waiting[h]))
           /\ waiting' = [waiting EXCEPT ![h] = <<>>]
           /\ links' = [links EXCEPT ![h] = {}]
           /\ comp' = [comp EXCEPT ![h] = {}]
           /\ staged' = [staged EXCEPT ![h] = {}]
           /\ todo' = todo \ {h}
           /\ stale' = stale \cup {c \in Convoy : h \in Serves(c)}
    /\ haltAt' = [haltAt EXCEPT ![p] = NoHalt]
    /\ outdated' = TRUE
    /\ UNCHANGED <<status, search, convoy, factories>>

\* A new stop takes a free handle, and is marked as explored by the last search
\* with what halt_data happens to hold.
BuildHalt(p, h) ==
    /\ Again("build") /\ haltAt[p] = NoHalt /\ h \notin Alive
    /\ haltAt' = [haltAt EXCEPT ![p] = h]
    /\ outdated' = TRUE
    /\ \E via \in IF search.origin = NoHalt THEN {NoHalt} ELSE Halt \cup {NoHalt} :
          search' = [search EXCEPT !.known[h] = via]
    /\ UNCHANGED <<links, comp, staged, status, todo, waiting, convoy, stale, factories, transit>>

RemoveFactory(f) ==
    /\ Rare("factory") /\ f \in factories
    /\ factories' = factories \ {f}
    /\ transit' = [transit EXCEPT ![f] = 0]
    /\ UNCHANGED <<haltVars, waiting, outdated, search, convoy, stale>>

BuildFactory(f) ==
    /\ Again("factory") /\ f \notin factories
    /\ factories' = factories \cup {f}
    /\ UNCHANGED <<haltVars, waiting, outdated, search, convoy, stale, transit>>

Extinguish(h) ==
    /\ Rare("extinguish") /\ waiting[h] # <<>>
    /\ waiting' = [waiting EXCEPT ![h] = <<>>]
    /\ UNCHANGED <<haltVars, outdated, search, convoy, stale, factories, transit>>

\* convoi_arrived: the cargo is discarded; only a schedule that lists the depot
\* is set again, which counts total_freight anew.  The convoy is started again at
\* once, and convoi_t::start has all stops reconnect.
EnterDepot(c, listed) ==
    /\ Rare("depot")
    /\ LET d == Discarded(convoy[c], transit)
           r == IF listed THEN RemoveStaleCargo(d.con, d.transit) ELSE d
       IN  convoy' = [convoy EXCEPT ![c] = r.con] /\ transit' = r.transit
    /\ outdated' = TRUE
    /\ UNCHANGED <<haltVars, waiting, search, stale, factories>>

\* The game is saved, and loaded by a program that has just been started: goods
\* are counted as they are read, all stops reconnect before the game goes on, and
\* searches are not saved.
Reload ==
    /\ Rare("reload")
    /\ LET Bound(h) == IF h \in Alive THEN h ELSE NoHalt
           Read(g) == Routed(g, Bound(g.ziel), Bound(g.via))
           Full(queue) == {cargo \in Range(queue) : cargo.goods.amount > 0}
           queues == [h \in Halt |-> Selected(waiting[h], Full(waiting[h]))]
       IN  /\ waiting' = [h \in Halt |->
                  [i \in DOMAIN queues[h] |-> Indexed(Read(queues[h][i].goods))]]
           /\ convoy' = [c \in Convoy |->
                  [convoy[c] EXCEPT !.load = [i \in DOMAIN @ |-> Read(@[i])],
                                    !.total = Total(convoy[c].load)]]
    /\ transit' = [f \in Factory |-> IF f \in factories THEN UnderWay(f) ELSE 0]
    /\ links' = [h \in Halt |-> IF h \in Alive THEN Connections(h) ELSE {}]
    /\ comp' = Components(links')
    /\ staged' = [h \in Halt |-> {}]
    /\ status' = "rerouting"
    /\ todo' = Alive
    /\ outdated' = FALSE
    /\ search' = NoSearch
    /\ stale' = {}
    /\ UNCHANGED <<haltAt, factories>>

------------------------------------------------------------------------------
Init ==
    /\ haltAt = Stations
    /\ waiting = [h \in Halt |-> <<>>]
    /\ convoy = [c \in Convoy |-> [schedule |-> Timetable[c], stop |-> 1, load |-> <<>>, total |-> 0]]
    /\ links = [h \in Halt |-> Connections(h)]
    /\ comp = Components(links)
    /\ staged = [h \in Halt |-> {}]
    /\ status = "idle"
    /\ todo = {}
    /\ outdated = FALSE
    /\ search = NoSearch
    /\ stale = {}
    /\ factories = Factory
    /\ transit = [f \in Factory |-> 0]
    /\ started = 0
    /\ rare = 0

StepAll ==
    \/ StartReconnecting \/ StartRerouting \/ EndRerouting
    \/ \E h \in Halt : Reconnect(h) \/ Reroute(h)
    \/ \E c \in Convoy : CheckStale(c)

Player ==
    \/ Reload
    \/ \E c \in Convoy : \/ \E s \in Timetables : EditSchedule(c, s)
                         \/ \E listed \in BOOLEAN : EnterDepot(c, listed)
    \/ \E p \in Place : RemoveHalt(p) \/ \E h \in Halt : BuildHalt(p, h)
    \/ \E f \in Factory : RemoveFactory(f) \/ BuildFactory(f)
    \/ \E h \in Halt : Extinguish(h)

Next ==
    \/ \E f \in Factory : Ship(f)
    \/ \E c \in Convoy : Load(c) \/ Go(c)
    \/ OtherSearch \/ StepAll \/ Player

Spec == Init /\ [][Next]_vars

------------------------------------------------------------------------------
(* Properties.                                                              *)

\* Goods (ware_t), and goods filed in the indices of a stop.
Target == Halt \cup {NoHalt}
Goods == [factory : Factory, amount : Nat, ziel : Target, via : Target]
Cargo == [goods : Goods, at : [ziel : Target, via : Target]]

\* Every variable keeps its type: amounts never become negative (menge and
\* total_freight are unsigned), and a convoy has room for what it counts.
TypeOK ==
    /\ haltAt \in [Place -> Target] /\ todo \subseteq Alive
    /\ waiting \in [Halt -> Seq(Cargo)]
    /\ links \in [Halt -> SUBSET Halt] /\ comp \in [Halt -> SUBSET Halt]
    /\ staged \in [Halt -> SUBSET SUBSET Halt]
    /\ status \in {"idle", "reconnecting", "rerouting"} /\ outdated \in BOOLEAN
    /\ search \in [origin : Target, known : [Halt -> Target]]
    /\ convoy \in [Convoy -> [schedule : Schedules, stop : Nat, load : Seq(Goods), total : 0..Capacity]]
    /\ \A c \in Convoy : convoy[c].stop \in DOMAIN convoy[c].schedule
    /\ stale \subseteq Convoy /\ factories \subseteq Factory /\ transit \in [Factory -> Int]
    /\ started \in Nat /\ rare \in Nat

\* What the factory believes to be under way, but is not.
Drift(f) == transit[f] - UnderWay(f)

\* Goods for f wait at h for a stop that is gone, and the search from h, if it
\* goes on, knows no way to f.
LostAt(h, f) ==
    /\ \E i \in DOMAIN waiting[h] : /\ waiting[h][i].goods.factory = f
                                    /\ waiting[h][i].goods.via \notin Alive
    /\ search.origin = h => \A d \in HaltsAt(Covers[f]) : search.known[d] = NoHalt

\* The counter of a factory that stays follows the goods through joining,
\* splitting, loading, rerouting, the end of a stop and an edited schedule.  It
\* goes wrong only when a player clears a stop (extinguish_all_waiting_goods), or
\* when a convoy loads where such goods wait and no search has found them a route
\* (search_route_for_invalid_zwischenziel_goods); a reload corrects it.
TransitFollowsGoods ==
    [][\A f \in factories \cap factories' : Drift(f)' # Drift(f) =>
          \/ Reload /\ Drift(f)' = 0
          \/ /\ Drift(f)' > Drift(f)
             /\ \/ \E h \in Halt : Extinguish(h)
                \/ \E c \in Convoy : Load(c) /\ LostAt(haltAt[convoy[c].schedule[convoy[c].stop]], f)
      ]_vars

\* fetch_goods looks for goods in the index only: whatever changes the route of
\* waiting goods also files them anew, else no convoy would take them any more.
IndexExact ==
    \A h \in Halt : \A i \in DOMAIN waiting[h] : waiting[h][i] = Indexed(waiting[h][i].goods)

\* A convoy is never overloaded: total_freight, from which hat_gehalten computes
\* the room that is left, may exceed what is in the vehicle (a discarded cargo
\* still counts) but never fall short of it.
NeverOverloaded ==
    \A c \in Convoy : Total(convoy[c].load) <= convoy[c].total /\ convoy[c].total <= Capacity

\* The stops reconnect one by one while players change schedules and stops.  When
\* all have and no change is pending, the connections that goods are routed by
\* are those of the schedules, and no stop that is gone is among them.
ConnectionsCurrent ==
    ~outdated /\ status # "reconnecting" => \A h \in Alive : links[h] = Connections(h)

\* reroute_goods removes "all goods whose destination was removed from the map"
\* (src/simhalt.cc:1628), and only those: goods that a stop can still send to
\* their factory survive its rerouting.
Routable(h, f) == \E d \in HaltsAt(Covers[f]) : FirstHops(h, d) # {}
RoutableGoodsKept ==
    [][\A h \in Halt, f \in Factory :
          /\ status = "rerouting" /\ h \in todo \ todo' /\ h \in Alive'
          /\ Routable(h, f) /\ ~Connected(h, f)
          => SumOf(GoodsOf(waiting[h]), f)' >= SumOf(GoodsOf(waiting[h]), f)]_vars
=============================================================================
