---------------------------- MODULE CrossingProofs ----------------------------
(* Proofs about CrossingLogic, for any number of cars, trains and tiles. *)
EXTENDS CrossingLogic, TLAPS

\* The cases in which a crossing separates the cars and trains it knows of: one
\* train uses it, every car asks right before it, and neither an aircraft nor a
\* rebuilding comes between.
Orderly ==
    /\ \A t, u \in Train : t = u
    /\ Ahead = {}
    /\ Events \cap {"rebuild", "flight"} = {}

\* A train that was told to pass, or that is on the crossing, finds it closed
\* and without cars; only those that a new route took off the lists are apart.
Guarded ==
    \A t \in Train \ astray : train[t] \in {"granted", "front", "both", "rear"}
                        => state = "closed" /\ onWay1 \subseteq astray

Inv == TypeOK /\ RegisterExact /\ RequestHolds

CarStep(c) == CarEnter(c) \/ CarAskAhead(c) \/ CarArrive(c) \/ CarMoves(c)
TrainStep(t) == \/ TrainAnnounce(t) \/ TrainAsk(t) \/ TrainBlocked(t)
                \/ TrainEnter(t) \/ TrainMoves(t)
                \/ TrainTurnsAway(t) \/ TrainReroutes(t) \/ TrainGone(t)
                \/ TrainDeparts(t) \/ TrainTurns(t)

\* The type invariant holds initially.
LEMMA InitTypeOK == Init => TypeOK
  BY CrossingAssumption DEF Init, TypeOK, CrossingAssumption, Vehicle

\* Every step keeps the types.
LEMMA NextTypeOK == TypeOK /\ [Next]_vars => TypeOK'
<1> SUFFICES ASSUME TypeOK, [Next]_vars PROVE TypeOK'
  OBVIOUS
<1> USE CrossingAssumption DEF TypeOK, CrossingAssumption
<1>1. ASSUME NEW c \in Car, CarStep(c) PROVE TypeOK'
  <2>1. CASE CarEnter(c) \/ CarAskAhead(c) \/ CarArrive(c)
    BY <2>1 DEF CarEnter, CarAskAhead, CarArrive, logicVars
  <2>2. CASE CarHop(c)
    BY <2>2 DEF CarHop
  <2>3. CASE CarLeave(c)
    BY <2>3 DEF CarLeave, ReleaseWay1
  <2> QED BY <1>1, <2>1, <2>2, <2>3 DEF CarStep, CarMoves
<1>2. ASSUME NEW t \in Train, TrainStep(t) PROVE TypeOK'
  <2>1. CASE TrainAnnounce(t) \/ TrainAsk(t)
    BY <2>1 DEF TrainAnnounce, TrainAsk, RequestClosing, TrainBecomes
  <2>2. CASE TrainBlocked(t) \/ TrainGone(t)
    BY <2>2 DEF TrainBlocked, TrainGone, TrainBecomes, logicVars
  <2>3. CASE TrainEnter(t) \/ TrainRearEnters(t)
    BY <2>3 DEF TrainEnter, TrainRearEnters, AddWay2, TrainBecomes, Vehicle, Front, Rear
  <2>4. CASE TrainFrontLeaves(t) \/ TrainLeaves(t)
    BY <2>4 DEF TrainFrontLeaves, TrainLeaves, ReleaseWay2, ForgetRequest, TrainBecomes
  <2>5. CASE TrainTurnsAway(t) \/ TrainReroutes(t)
    BY <2>5 DEF TrainTurnsAway, TrainReroutes, ReleaseWay2, ForgetRequest, TrainBecomes
  <2>6. CASE TrainDeparts(t)
    BY <2>6 DEF TrainDeparts, AddWay2, ReleaseWay2, ForgetRequest, TrainBecomes, Vehicle, Front
  <2>7. CASE TrainTurns(t)
    BY <2>7 DEF TrainTurns, ReleaseWay2, ForgetRequest, TrainBecomes, Vehicle, Front
  <2> QED BY <1>2, <2>1, <2>2, <2>3, <2>4, <2>5, <2>6, <2>7 DEF TrainStep, TrainMoves
<1>3. CASE FlyOver
  BY <1>3 DEF FlyOver, ReleaseWay2, ForgetRequest
<1>4. CASE Rebuild \/ Reload
  BY <1>4 DEF Rebuild, Reload, RecalcState, CarsOn, TrainsOn, Vehicle, Front, Rear
<1>5. CASE UNCHANGED vars
  BY <1>5 DEF vars, logicVars
<1>6. ASSUME NEW cs \in SUBSET CarsOn, NEW tail \in 0 .. Length, CarsDepart(cs, tail) PROVE TypeOK'
  <2>1. cs \subseteq Car
    BY DEF CarsOn
  <2> QED BY <1>6, <2>1 DEF CarsDepart
<1> QED BY <1>1, <1>2, <1>3, <1>4, <1>5, <1>6 DEF Next, CarStep, TrainStep

\* Every variable keeps its type.
THEOREM CrossingTypeCorrect == Spec => []TypeOK
<1> QED BY InitTypeOK, NextTypeOK, PTL DEF Spec

-----------------------------------------------------------------------------
\* Which vehicles of a train are on the crossing.
LEMMA TrainsOnMember ==
    ASSUME TypeOK, NEW t \in Train
    PROVE  /\ Front(t) \in TrainsOn <=> train[t] \in {"front", "both"}
           /\ Rear(t) \in TrainsOn <=> train[t] \in {"both", "rear"}
  BY DEF TypeOK, TrainsOn, Front, Rear

\* A vehicle on the crossing is one end of its train.
LEMMA TrainsOnEnds ==
    ASSUME NEW v \in TrainsOn
    PROVE  v[1] \in Train /\ v \in {Front(v[1]), Rear(v[1])}
  BY DEF TrainsOn, Front, Rear

\* A train changes TrainsOn only where it enters and leaves.
LEMMA TrainsOnFront ==
    ASSUME TypeOK, NEW t \in Train, train' = [train EXCEPT ![t] = "front"]
    PROVE  TrainsOn' = (TrainsOn \ {Rear(t)}) \cup {Front(t)}
  BY DEF TypeOK, TrainsOn, Front, Rear

LEMMA TrainsOnBoth ==
    ASSUME TypeOK, NEW t \in Train, train' = [train EXCEPT ![t] = "both"]
    PROVE  TrainsOn' = TrainsOn \cup {Front(t), Rear(t)}
  BY DEF TypeOK, TrainsOn, Front, Rear

LEMMA TrainsOnRear ==
    ASSUME TypeOK, NEW t \in Train, train' = [train EXCEPT ![t] = "rear"]
    PROVE  TrainsOn' = (TrainsOn \ {Front(t)}) \cup {Rear(t)}
  BY DEF TypeOK, TrainsOn, Front, Rear

\* A train that is away is on no tile.
LEMMA TrainsOnAway ==
    ASSUME TypeOK, NEW t \in Train, train' = [train EXCEPT ![t] = "away"]
    PROVE  TrainsOn' = TrainsOn \ {Front(t), Rear(t)}
  BY DEF TypeOK, TrainsOn, Front, Rear

\* The lists are exact initially.
LEMMA InitRegister == Init => RegisterExact /\ RequestHolds
  BY DEF Init, RegisterExact, RequestHolds, CarsOn, TrainsOn

\* Every step keeps the lists exact.
LEMMA NextRegister == Inv /\ [Next]_vars => RegisterExact'
<1> SUFFICES ASSUME Inv, [Next]_vars PROVE RegisterExact'
  OBVIOUS
<1> USE CrossingAssumption DEF Inv, CrossingAssumption
<1>1. ASSUME NEW c \in Car, CarStep(c) PROVE RegisterExact'
  <2>a. TrainsOn' = TrainsOn /\ onWay2' = onWay2 /\ (\A v \in TrainsOn \ onWay2 : v[1] \in astray')
    <3>1. train' = train /\ onWay2' = onWay2 /\ (astray' = astray \/ astray' = astray \ {c})
      BY <1>1 DEF CarStep, CarEnter, CarAskAhead, CarArrive, CarMoves, CarHop, CarLeave, logicVars
    <3>2. \A v \in TrainsOn \ onWay2 : v[1] \in astray /\ v[1] # c
      BY TrainsOnEnds DEF RegisterExact
    <3> QED BY <3>1, <3>2 DEF TrainsOn
  <2>b. SUFFICES onWay1' \subseteq CarsOn' /\ CarsOn' \ onWay1' \subseteq astray'
    BY <2>a DEF RegisterExact
  <2>1. CASE CarEnter(c) \/ CarAskAhead(c) \/ CarArrive(c)
    BY <2>1 DEF CarEnter, CarAskAhead, CarArrive, logicVars, RegisterExact, CarsOn, TypeOK
  <2>2. CASE CarHop(c)
    BY <2>2 DEF CarHop, RegisterExact, CarsOn, TypeOK
  <2>3. CASE CarLeave(c)
    BY <2>3 DEF CarLeave, ReleaseWay1, RegisterExact, CarsOn, TypeOK
  <2> QED BY <1>1, <2>1, <2>2, <2>3 DEF CarStep, CarMoves
<1>2. ASSUME NEW t \in Train, TrainStep(t) PROVE RegisterExact'
  <2>0. CarsOn' = CarsOn /\ onWay1' = onWay1
    BY <1>2 DEF TrainStep, TrainAnnounce, TrainAsk, TrainBlocked, TrainEnter, TrainMoves,
                TrainRearEnters, TrainFrontLeaves, TrainLeaves, TrainTurnsAway, TrainReroutes,
                TrainGone, TrainDeparts, TrainTurns, TrainBecomes, logicVars, CarsOn
  <2>a. /\ TypeOK /\ Front(t) # Rear(t) /\ Front(t)[1] = t /\ Rear(t)[1] = t
        /\ onWay2 \subseteq TrainsOn
        /\ \A v \in TrainsOn \ onWay2 : v[1] \in astray
    BY DEF Front, Rear, RegisterExact
  <2>c. astray' \in {astray, astray \cup {t}, astray \ {t}}
    BY <1>2 DEF TrainStep, TrainAnnounce, TrainAsk, TrainBlocked, TrainEnter, TrainMoves,
                TrainRearEnters, TrainFrontLeaves, TrainLeaves, TrainTurnsAway, TrainReroutes,
                TrainGone, TrainDeparts, TrainTurns, TrainBecomes, logicVars
  <2>d. CarsOn' \ onWay1' \subseteq astray'
    BY <2>0, <2>c DEF RegisterExact, CarsOn
  <2>b. SUFFICES onWay2' \subseteq TrainsOn' /\ \A v \in TrainsOn' \ onWay2' : v[1] \in astray'
    BY <2>0, <2>d DEF RegisterExact
  <2>1. CASE TrainAnnounce(t) \/ TrainAsk(t) \/ TrainBlocked(t) \/ TrainGone(t)
    <3>1. onWay2' = onWay2 /\ astray' = astray
      BY <2>1 DEF TrainAnnounce, TrainAsk, TrainBlocked, TrainGone, logicVars
    <3>2. TrainsOn' = TrainsOn
      BY <2>1 DEF TrainAnnounce, TrainAsk, TrainBlocked, TrainGone, TrainBecomes, TrainsOn, TypeOK
    <3> QED BY <2>a, <3>1, <3>2
  <2>2. CASE TrainEnter(t)
    <3>1. train' = [train EXCEPT ![t] = "front"] /\ onWay2' = onWay2 \cup {Front(t)} /\ astray' = astray
      BY <2>2 DEF TrainEnter, AddWay2, TrainBecomes
    <3>2. train[t] = "granted"
      BY <2>2 DEF TrainEnter
    <3>3. Front(t) \notin TrainsOn /\ Rear(t) \notin TrainsOn
      BY <2>a, <3>2, TrainsOnMember
    <3>4. TrainsOn' = TrainsOn \cup {Front(t)}
      BY <2>a, <3>1, <3>3, TrainsOnFront
    <3> QED BY <2>a, <3>1, <3>4
  <2>3. CASE TrainRearEnters(t)
    <3>1. train' = [train EXCEPT ![t] = "both"] /\ onWay2' = onWay2 \cup {Rear(t)} /\ astray' = astray
      BY <2>3 DEF TrainRearEnters, AddWay2, TrainBecomes
    <3>2. train[t] = "front"
      BY <2>3 DEF TrainRearEnters
    <3>3. Front(t) \in TrainsOn
      BY <2>a, <3>2, TrainsOnMember
    <3>4. TrainsOn' = TrainsOn \cup {Front(t), Rear(t)}
      BY <2>a, <3>1, TrainsOnBoth
    <3>5. TrainsOn' = TrainsOn \cup {Rear(t)}
      BY <3>3, <3>4
    <3> QED BY <2>a, <3>1, <3>5
  <2>4. CASE TrainFrontLeaves(t)
    <3>1. train' = [train EXCEPT ![t] = "rear"] /\ onWay2' = onWay2 \ {Front(t)} /\ astray' = astray
      BY <2>4 DEF TrainFrontLeaves, ReleaseWay2, TrainBecomes
    <3>2. train[t] = "both"
      BY <2>4 DEF TrainFrontLeaves
    <3>3. Rear(t) \in TrainsOn
      BY <2>a, <3>2, TrainsOnMember
    <3>4. TrainsOn' = (TrainsOn \ {Front(t)}) \cup {Rear(t)}
      BY <2>a, <3>1, TrainsOnRear
    <3>5. TrainsOn' = TrainsOn \ {Front(t)}
      BY <2>a, <3>3, <3>4
    <3> QED BY <2>a, <3>1, <3>5
  <2>5. CASE TrainLeaves(t)
    <3>1. /\ train' = [train EXCEPT ![t] = "away"] /\ onWay2' = onWay2 \ {Rear(t)}
          /\ astray' = astray \ {t}
      BY <2>5 DEF TrainLeaves, ReleaseWay2, TrainBecomes
    <3>2. train[t] = "rear"
      BY <2>5 DEF TrainLeaves
    <3>3. Front(t) \notin TrainsOn
      BY <2>a, <3>2, TrainsOnMember
    <3>4. TrainsOn' = TrainsOn \ {Front(t), Rear(t)}
      BY <2>a, <3>1, TrainsOnAway
    <3>5. \A v \in TrainsOn' : v \in TrainsOn /\ v # Rear(t) /\ v[1] # t
      BY <3>4, TrainsOnEnds
    <3> QED BY <2>a, <3>1, <3>3, <3>4, <3>5
  <2>6. CASE TrainTurnsAway(t)
    <3>1. train' = [train EXCEPT ![t] = "away"] /\ onWay2' = onWay2 \ {Front(t)} /\ astray' = astray
      BY <2>6 DEF TrainTurnsAway, ReleaseWay2, TrainBecomes
    <3>2. train[t] \in {"announced", "asking", "granted"}
      BY <2>6 DEF TrainTurnsAway
    <3>3. Front(t) \notin TrainsOn /\ Rear(t) \notin TrainsOn
      BY <2>a, <3>2, TrainsOnMember
    <3>4. TrainsOn' = TrainsOn \ {Front(t), Rear(t)}
      BY <2>a, <3>1, TrainsOnAway
    <3>5. TrainsOn' = TrainsOn
      BY <3>3, <3>4
    <3> QED BY <2>a, <3>1, <3>3, <3>5
  <2>7. CASE TrainReroutes(t)
    <3>1. train' = train /\ onWay2' = onWay2 \ {Front(t)} /\ astray' = astray \cup {t}
      BY <2>7, <2>a DEF TrainReroutes, ReleaseWay2, TrainBecomes, TypeOK
    <3>2. TrainsOn' = TrainsOn
      BY <3>1 DEF TrainsOn
    <3> QED BY <2>a, <3>1, <3>2
  <2>8. CASE TrainDeparts(t)
    <3>1. train' = train
      BY <2>8, <2>a DEF TrainDeparts, TrainBecomes, TypeOK
    <3>2. TrainsOn' = TrainsOn
      BY <3>1 DEF TrainsOn
    <3>3. CASE train[t] = "front"
      <4>1. onWay2' = onWay2 \cup {Front(t)} /\ astray' = astray
        BY <2>8, <3>3 DEF TrainDeparts, AddWay2
      <4>2. Front(t) \in TrainsOn
        BY <2>a, <3>3, TrainsOnMember
      <4> QED BY <2>a, <3>2, <4>1, <4>2
    <3>4. CASE train[t] # "front"
      <4>1. onWay2' = onWay2 \ {Front(t), Rear(t)} /\ astray' = astray \cup {t}
        BY <2>8, <3>4 DEF TrainDeparts, ReleaseWay2
      <4> QED BY <2>a, <3>2, <4>1
    <3> QED BY <3>3, <3>4
  <2>9. CASE TrainTurns(t)
    <3>1. CASE train[t] = "front"
      <4>1. /\ train' = [train EXCEPT ![t] = "rear"] /\ onWay2' = onWay2 \ {Front(t), Rear(t)}
            /\ astray' = astray \cup {t}
        BY <2>9, <3>1 DEF TrainTurns, ReleaseWay2, TrainBecomes
      <4>2. TrainsOn' = (TrainsOn \ {Front(t)}) \cup {Rear(t)}
        BY <2>a, <4>1, TrainsOnRear
      <4> QED BY <2>a, <4>1, <4>2
    <3>2. CASE train[t] = "rear"
      <4>1. /\ train' = [train EXCEPT ![t] = "front"]
            /\ onWay2' = (onWay2 \ {Rear(t)}) \cup {Front(t)} /\ astray' = astray
        BY <2>9, <3>2 DEF TrainTurns, TrainBecomes
      <4>2. TrainsOn' = (TrainsOn \ {Rear(t)}) \cup {Front(t)}
        BY <2>a, <4>1, TrainsOnFront
      <4> QED BY <2>a, <4>1, <4>2
    <3> QED BY <2>9, <3>1, <3>2 DEF TrainTurns
  <2> QED BY <1>2, <2>1, <2>2, <2>3, <2>4, <2>5, <2>6, <2>7, <2>8, <2>9 DEF TrainStep, TrainMoves
<1>3. CASE FlyOver
  <2>1. onWay2' = onWay2
    BY <1>3 DEF FlyOver, ReleaseWay2, Aircraft, RegisterExact, TrainsOn, Front, Rear
  <2> QED BY <1>3, <2>1 DEF FlyOver, RegisterExact, CarsOn, TrainsOn
<1>4. CASE Rebuild \/ Reload
  BY <1>4 DEF Rebuild, Reload, RecalcState, RegisterExact, CarsOn, TrainsOn
<1>5. CASE UNCHANGED vars
  BY <1>5 DEF vars, logicVars, RegisterExact, CarsOn, TrainsOn
<1>6. ASSUME NEW cs \in SUBSET CarsOn, NEW tail \in 0 .. Length, CarsDepart(cs, tail)
      PROVE  RegisterExact'
  <2>1. PICK again \in SUBSET cs : /\ onWay1' = (onWay1 \ cs) \cup again
                                   /\ astray' = astray \cup (cs \ again)
    <3> DEFINE again == {c \in cs : carAt[c] # tail}
    <3>1. again \in SUBSET cs
      OBVIOUS
    <3> QED BY <1>6, <3>1 DEF CarsDepart
  <2>2. CarsOn' = CarsOn /\ TrainsOn' = TrainsOn /\ onWay2' = onWay2
    BY <1>6 DEF CarsDepart, CarsOn, TrainsOn
  <2> QED BY <2>1, <2>2 DEF RegisterExact
<1> QED BY <1>1, <1>2, <1>3, <1>4, <1>5, <1>6 DEF Next, CarStep, TrainStep

\* Every step keeps RequestHolds: who opens the crossing has seen that no train
\* is remembered, and no car enters a crossing that is not open.
LEMMA NextRequestHolds == Inv /\ [Next]_vars => RequestHolds'
<1> SUFFICES ASSUME Inv, [Next]_vars PROVE RequestHolds'
  OBVIOUS
<1> USE CrossingAssumption DEF Inv, CrossingAssumption, RequestHolds
<1>1. ASSUME NEW c \in Car, CarStep(c) PROVE RequestHolds'
  <2>1. CASE CarEnter(c)
    BY <2>1 DEF CarEnter, MayCross, RegisterExact, CarsOn
  <2>2. CASE CarAskAhead(c)
    BY <2>2 DEF CarAskAhead, logicVars
  <2>3. CASE CarArrive(c)
    BY <2>3 DEF CarArrive, TypeOK
  <2>4. CASE CarHop(c)
    <3>1. c \in onWay1 \cup astray
      BY <2>4 DEF CarHop, RegisterExact, CarsOn
    <3> QED BY <2>4, <3>1 DEF CarHop
  <2>5. CASE CarLeave(c)
    BY <2>5 DEF CarLeave, ReleaseWay1
  <2> QED BY <1>1, <2>1, <2>2, <2>3, <2>4, <2>5 DEF CarStep, CarMoves
<1>2. ASSUME NEW t \in Train, TrainStep(t) PROVE RequestHolds'
  <2>0. ASSUME NEW x \in onWay1, x \in Ahead \cup astray PROVE x \in Ahead \cup astray'
    <3>1. x # t
      BY DEF RegisterExact, CarsOn
    <3> QED BY <1>2, <2>0, <3>1
            DEF TrainStep, TrainAnnounce, TrainAsk, TrainBlocked, TrainEnter, TrainMoves,
                TrainRearEnters, TrainFrontLeaves, TrainLeaves, TrainTurnsAway, TrainReroutes,
                TrainGone, TrainDeparts, TrainTurns, TrainBecomes, logicVars
  <2>1. CASE TrainAnnounce(t) \/ TrainAsk(t)
    BY <2>1 DEF TrainAnnounce, TrainAsk, RequestClosing, Granted
  <2>2. CASE TrainBlocked(t) \/ TrainGone(t)
    BY <2>2 DEF TrainBlocked, TrainGone, logicVars
  <2>3. CASE TrainEnter(t) \/ TrainRearEnters(t)
    BY <2>3 DEF TrainEnter, TrainRearEnters, AddWay2
  <2>4. CASE TrainFrontLeaves(t) \/ TrainLeaves(t) \/ TrainTurnsAway(t) \/ TrainReroutes(t)
    BY <2>0, <2>4 DEF TrainFrontLeaves, TrainLeaves, TrainTurnsAway, TrainReroutes, ReleaseWay2,
                      ForgetRequest
  <2>5. CASE TrainDeparts(t)
    BY <2>0, <2>5 DEF TrainDeparts, AddWay2, ReleaseWay2, ForgetRequest
  <2>6. CASE TrainTurns(t)
    BY <2>0, <2>6 DEF TrainTurns, ReleaseWay2, ForgetRequest
  <2> QED BY <1>2, <2>1, <2>2, <2>3, <2>4, <2>5, <2>6 DEF TrainStep, TrainMoves
<1>3. CASE FlyOver
  BY <1>3 DEF FlyOver, ReleaseWay2, ForgetRequest
<1>4. CASE Rebuild \/ Reload
  BY <1>4 DEF Rebuild, Reload, RecalcState
<1>5. CASE UNCHANGED vars
  BY <1>5 DEF vars, logicVars
<1>6. ASSUME NEW cs \in SUBSET CarsOn, NEW tail \in 0 .. Length, CarsDepart(cs, tail)
      PROVE  RequestHolds'
  <2>1. \A c \in cs : c \in onWay1 \cup astray
    BY DEF RegisterExact
  <2> QED BY <1>6, <2>1 DEF CarsDepart
<1> QED BY <1>1, <1>2, <1>3, <1>4, <1>5, <1>6 DEF Next, CarStep, TrainStep

\* Types, lists and the request together are inductive.
LEMMA CrossingInvariant == Spec => []Inv
<1>1. Init => Inv
  BY InitTypeOK, InitRegister DEF Inv
<1>2. Inv /\ [Next]_vars => Inv'
  BY NextTypeOK, NextRegister, NextRequestHolds DEF Inv
<1> QED BY <1>1, <1>2, PTL DEF Spec

\* on_way1 and on_way2 always name only vehicles that are on the crossing, and
\* all of them but those that a new route took off there.
THEOREM RegisterExactTheorem == Spec => []RegisterExact
<1>1. Inv => RegisterExact
  BY DEF Inv
<1> QED BY <1>1, CrossingInvariant, PTL

\* A remembered request keeps the crossing shut, whatever else happens.
THEOREM RequestHoldsTheorem == Spec => []RequestHolds
<1>1. Inv => RequestHolds
  BY DEF Inv
<1> QED BY <1>1, CrossingInvariant, PTL

-----------------------------------------------------------------------------
\* In an orderly case every step keeps the crossing closed for its train.
LEMMA NextGuarded == Orderly /\ Inv /\ Guarded /\ [Next]_vars => Guarded'
<1> SUFFICES ASSUME Orderly, Inv, Guarded, [Next]_vars, NEW u \in Train, u \notin astray',
                    train'[u] \in {"granted", "front", "both", "rear"}
             PROVE  state' = "closed" /\ onWay1' \subseteq astray'
  BY DEF Guarded
<1> USE CrossingAssumption DEF Inv, Orderly, CrossingAssumption
<1>a. ASSUME u \notin astray, train[u] \in {"granted", "front", "both", "rear"}
      PROVE  state = "closed" /\ onWay1 \subseteq astray /\ CarsOn \subseteq astray
  BY <1>a DEF Guarded, RegisterExact
<1>1. ASSUME NEW c \in Car, CarStep(c) PROVE state' = "closed" /\ onWay1' \subseteq astray'
  <2>1. train' = train /\ astray' \in {astray, astray \ {c}}
    BY <1>1 DEF CarStep, CarEnter, CarAskAhead, CarArrive, CarMoves, CarHop, CarLeave, logicVars
  <2>2. u # c /\ u \notin astray
    BY <2>1
  <2>3. state = "closed" /\ onWay1 \subseteq astray /\ CarsOn \subseteq astray
    BY <1>a, <2>1, <2>2
  <2>4. cleared = {}
    BY DEF TypeOK
  <2>5. carAt[c] # 0 => c \in astray
    BY <2>3 DEF CarsOn
  <2>6. CASE CarEnter(c) \/ CarAskAhead(c) \/ CarArrive(c)
    BY <2>3, <2>4, <2>5, <2>6 DEF CarEnter, MayCross, CarAskAhead, CarArrive, RegisterExact, CarsOn
  <2>7. CASE CarHop(c)
    BY <2>3, <2>5, <2>7 DEF CarHop
  <2>8. CASE CarLeave(c)
    BY <2>3, <2>8 DEF CarLeave, ReleaseWay1
  <2> QED BY <1>1, <2>6, <2>7, <2>8 DEF CarStep, CarMoves
<1>2. ASSUME NEW t \in Train, TrainStep(t) PROVE state' = "closed" /\ onWay1' \subseteq astray'
  <2>0. t = u
    OBVIOUS
  <2>1. CASE TrainAnnounce(t) \/ TrainTurnsAway(t) \/ TrainGone(t)
    BY <2>0, <2>1 DEF TrainAnnounce, TrainTurnsAway, TrainGone, TrainBecomes, TypeOK
  <2>2. CASE TrainAsk(t)
    BY <2>0, <2>2 DEF TrainAsk, RequestClosing, Granted, TrainBecomes, TypeOK
  <2>3. CASE TrainBlocked(t)
    BY <2>0, <2>3 DEF TrainBlocked, TrainBecomes, TypeOK
  <2>4. CASE TrainEnter(t) \/ TrainRearEnters(t)
    <3>1. train[u] \in {"granted", "front"} /\ astray' = astray
      BY <2>0, <2>4 DEF TrainEnter, TrainRearEnters
    <3> QED BY <1>a, <2>4, <3>1 DEF TrainEnter, TrainRearEnters, AddWay2
  <2>5. CASE TrainFrontLeaves(t)
    <3>1. train[t] = "both" /\ t \notin astray
      BY <2>0, <2>5 DEF TrainFrontLeaves
    <3>2. Rear(t) \in onWay2
      <4>1. Rear(t)[1] = t
        BY DEF Rear
      <4> QED BY <3>1, <4>1, TrainsOnMember DEF RegisterExact
    <3>3. Rear(t) # Front(t)
      BY DEF Rear, Front
    <3>4. onWay2' # {}
      BY <2>5, <3>2, <3>3 DEF TrainFrontLeaves, ReleaseWay2
    <3> QED BY <1>a, <2>0, <2>5, <3>1, <3>4 DEF TrainFrontLeaves, ReleaseWay2
  <2>6. CASE TrainLeaves(t)
    BY <2>0, <2>6 DEF TrainLeaves, TrainBecomes, TypeOK
  <2>7. CASE TrainReroutes(t)
    BY <2>0, <2>7 DEF TrainReroutes
  <2>8. CASE TrainDeparts(t)
    BY <1>a, <2>0, <2>8 DEF TrainDeparts, AddWay2
  <2>9. CASE TrainTurns(t)
    BY <1>a, <2>0, <2>9 DEF TrainTurns
  <2> QED BY <1>2, <2>1, <2>2, <2>3, <2>4, <2>5, <2>6, <2>7, <2>8, <2>9 DEF TrainStep, TrainMoves
<1>3. CASE FlyOver \/ Rebuild
  BY <1>3 DEF FlyOver, Rebuild
<1>4. CASE Reload
  BY <1>4, <1>a DEF Reload, RecalcState
<1>5. CASE UNCHANGED vars
  BY <1>5, <1>a DEF vars, logicVars
<1>6. ASSUME NEW cs \in SUBSET CarsOn, NEW tail \in 0 .. Length, CarsDepart(cs, tail)
      PROVE  state' = "closed" /\ onWay1' \subseteq astray'
  <2>1. train' = train /\ u \notin astray
    BY <1>6 DEF CarsDepart
  <2>2. state = "closed" /\ onWay1 \subseteq astray /\ CarsOn \subseteq astray
    BY <1>a, <2>1
  <2> QED BY <1>6, <2>2 DEF CarsDepart
<1> QED BY <1>1, <1>2, <1>3, <1>4, <1>5, <1>6 DEF Next, CarStep, TrainStep

\* In an orderly case a car and a train are on the crossing together only if a
\* new route took all such cars, or all such trains, off the lists.
THEOREM ExclusiveTheorem ==
    ASSUME Orderly
    PROVE  Spec => []Exclusive
<1>1. Init => Guarded
  BY DEF Init, Guarded
<1>2. Inv /\ Guarded => Exclusive
  <2> SUFFICES ASSUME Inv, Guarded, NEW t \in Train \ astray, OnWay2(t)
               PROVE  CarsOn \subseteq astray
    BY DEF Exclusive
  <2> QED BY DEF OnWay2, Guarded, Inv, RegisterExact
<1>3. Inv /\ Guarded /\ [Next]_vars => Guarded'
  BY Orderly, NextGuarded
<1> QED BY <1>1, <1>2, <1>3, CrossingInvariant, PTL DEF Spec

=============================================================================
