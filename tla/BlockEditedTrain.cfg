SPECIFICATION LoadSpec
CONSTANTS
    ta = ta  tb = tb  tc = tc
    Train = {ta, tb, tc}
    NoTrain = NoTrain
    NoSide = NoSide
    Tile <- MCTile
    Side <- MCSide
    Toward <- MCToward
    Bends <- MCBends
    FourWay <- MCFourWay
    Offset <- MCOffset
    Faces <- MCFaces
    Halt <- MCHalt
    Routes <- MCRoutes
    Start <- MCStart
    Length <- MCLength
    MaxTrips <- MCTrips
    Order <- MCOrder
    Events = {"edit"}
    MaxEvents = 1
INVARIANT PlatformHeld
CHECK_DEADLOCK FALSE
