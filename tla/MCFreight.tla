------------------------------ MODULE MCFreight ------------------------------
(* Two factories at two places; the goods of fa can only be brought on from *)
(* pb, those of fb only from pc, so fb needs a change of vehicles.          *)
EXTENDS Freight, TLC

CONSTANTS pa, pb, pc, ha, hb, hc, va, vb, fa, fb    \* model values

MCStations == pa :> ha @@ pb :> hb @@ pc :> hc
MCCovers == fa :> {pb} @@ fb :> {pc}
MCTimetable == va :> <<pa, pb>> @@ vb :> <<pb, pc>>
MCTimetables == {<<pa, pc>>}
MCSource == {pa}
=============================================================================
