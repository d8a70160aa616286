------------------------------ MODULE MCBlock ------------------------------
(* A crossing of two tracks on which trains may also turn: tile <<0, 0>>,  *)
(* with a signal on the arms from which the trains come.                   *)
EXTENDS BlockLoad

CONSTANTS ta, tb, tc   \* model values
MCOrder == <<tc, tb, ta>>

MCSide == {"n", "e", "s", "w"}
MCTile == ((-3..3) \X {0}) \cup ({0} \X (-2..2))
MCToward == [p \in MCTile |-> [q \in MCTile |->
    CASE q[1] > p[1] -> "e" [] q[1] < p[1] -> "w"
      [] q[2] > p[2] -> "s" [] OTHER -> "n"]]
MCBends == {{"n", "e"}, {"e", "s"}, {"s", "w"}, {"n", "w"}}
MCFourWay == {<<0, 0>>}
MCOffset == {<<1, 0>>}
MCFaces == [t \in MCTile |-> CASE t = <<-1, 0>> -> {"w"} [] t = <<1, 0>> -> {"e"}
                              [] OTHER -> {}]
MCHalt == [t \in MCTile |-> CASE t[1] >= 1 -> <<3, 0>> [] t[1] <= -2 -> <<-3, 0>> [] OTHER -> t]
Flip(r) == [i \in DOMAIN r |-> r[Len(r) + 1 - i]]
RouteA == <<<<-1, 0>>, <<0, 0>>, <<0, -1>>, <<0, -2>>>>
RouteB == <<<<2, 0>>, <<1, 0>>, <<0, 0>>, <<0, 1>>, <<0, 2>>>>
RouteC == <<<<-3, 0>>, <<-2, 0>>, <<-1, 0>>, <<0, 0>>, <<1, 0>>, <<2, 0>>, <<3, 0>>>>
MCStart == [d \in Train |-> IF d = ta THEN RouteA ELSE IF d = tb THEN RouteB ELSE RouteC]
MCLength == [d \in Train |-> IF d = tc THEN 2 ELSE 1]
MCTrips == [d \in Train |-> IF d = tc THEN 2 ELSE 1]
\* There and back, from every place of the way.
MCRoutes == [d \in Train |->
    {SubSeq(r, i, Len(r)) : r \in {MCStart[d], Flip(MCStart[d])},
                            i \in 1..Len(MCStart[d]) - MCLength[d]}]
=============================================================================
