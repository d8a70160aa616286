SPECIFICATION Spec
CONSTANTS
    pa = pa  pb = pb  pc = pc
    ha = ha  hb = hb  hc = hc
    va = va  vb = vb
    fa = fa  fb = fb
    Place = {pa, pb, pc}
    Halt = {ha, hb, hc}
    NoHalt = NoHalt
    Convoy = {va, vb}
    Factory = {fa, fb}
    Source <- MCSource
    Covers <- MCCovers
    Stations <- MCStations
    Timetable <- MCTimetable
    Timetables <- MCTimetables
    Capacity = 2
    Room = 1
    Slack = 1
    Amounts = {2}
    Events = {"edit","remove","build","factory","extinguish","depot","reload"}
    MaxStarts = 2
    MaxEvents = 1
INVARIANTS TypeOK IndexExact NeverOverloaded ConnectionsCurrent
PROPERTIES TransitFollowsGoods
