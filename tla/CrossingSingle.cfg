SPECIFICATION FairSpec
CONSTANTS
    c1 = c1
    c2 = c2
    c3 = c3
    t1 = t1
    t2 = t2
    Car = {c1, c2, c3}
    Ahead = {}
    Train = {t1}
    NoTrain = NoTrain
    Length = 3
    Events = {"reload"}
INVARIANT Exclusive
PROPERTIES TrainGetsIn Reopens
