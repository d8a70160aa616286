SPECIFICATION Spec
CONSTANTS
    c1 = c1
    c2 = c2
    c3 = c3
    t1 = t1
    t2 = t2
    Car = {c1, c2}
    Ahead = {c2}
    Train = {t1, t2}
    NoTrain = NoTrain
    Length = 2
    Events = {"turn", "gone", "rebuild", "flight", "reload"}
SYMMETRY Sym
INVARIANTS TypeOK RegisterExact RequestHolds
