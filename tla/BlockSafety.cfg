SPECIFICATION LoadSpec
CONSTANTS
    ta = ta  tb = tb  tc = tc
    Train = {ta, tb, tc}
    NoTrain = NoTrain
    NoSide = NoSide
    Tile <- MCTile
    Side <- MCSide
    Toward <- MCToward
    Bends <- MCBends
    FourWay <- MCFourWay
    Offset <- MCOffset
    Faces <- MCFaces
    Halt <- MCHalt
    Routes <- MCRoutes
    Start <- MCStart
    Length <- MCLength
    MaxTrips <- MCTrips
    Order <- MCOrder
    Events = {"reroute","noroute","edit","sell","reload"}
    MaxEvents = 1
INVARIANTS TypeOK WayIsHeld NoCollision NoStrayReservation LegsKnown NoGridlock
PROPERTIES TakenOnlyByItself
CHECK_DEADLOCK FALSE
