----------------------------- MODULE BlockLoad -----------------------------
(***************************************************************************)
(* BlockReservation with games that are saved and loaded.  The slots of a  *)
(* track are not saved: the trains reserve their ways again, one after the *)
(* other in the order of the list of convois (karte_t::load,               *)
(* convoi_t::rdwr, convoi_t::finish_rd).                                   *)
(***************************************************************************)
EXTENDS BlockReservation, SequencesExt

CONSTANT Order   \* the list of convois

\* convoi_array has every convoi once (append_unique, and one append per convoi
\* that is loaded).
ASSUME LoadAssumption ==
    Order \in Seq(Train) /\ ToSet(Order) = Train /\ Injective(Order)

\* convoi_t::rdwr: every vehicle reserves the tile it stands on, of which it
\* does not know yet how it crosses it.
Reread(w, c) ==
    [t \in Tile |-> IF Standing(c, t) THEN Reserved(t, w[t], c, NoLeg) ELSE w[t]]

\* convoi_t::finish_rd, reserve_route: the way c had reserved up to the first
\* tile it is refused, which becomes the place where it asks next; a train in
\* a stop has nothing but the tiles under it.
Claimed(c) == CASE phase[c] \in {"driving", "waiting", "canstart"} -> granted[c]
                [] phase[c] = "loading" -> front[c]
                [] OTHER -> back[c] - 1
Denied(w, c) ==
    IF phase[c] = "loading" THEN {}
    ELSE {i \in back[c]..Claimed(c) :
            ~Holds(Reserved(route[c][i], w[route[c][i]], c, Leg(route[c], i)), c)}
Regained(w, c) ==
    IF Denied(w, c) = {} THEN Claimed(c) ELSE Min(Denied(w, c)) - 1
Finished(st, c) ==
    LET e == Regained(st.way, c)
    IN  [way |-> Taken(st.way, c, route[c], back[c], e),
         stop |-> IF Denied(st.way, c) = {} THEN st.stop ELSE [st.stop EXCEPT ![c] = e],
         granted |-> IF Denied(st.way, c) = {} THEN st.granted
                     ELSE [st.granted EXCEPT ![c] = e]]

Load ==
    /\ Rare("reload")
    /\ LET blank == [t \in Tile |-> [first |-> Free, second |-> Free]]
           read == FoldLeft(Reread, blank, Order)
           done == FoldLeft(Finished, [way |-> read, stop |-> stop, granted |-> granted],
                            Order)
       IN  way' = done.way /\ stop' = done.stop /\ granted' = done.granted
    /\ UNCHANGED <<phase, route, front, back, trips>>
    /\ lost' = [c \in Train |-> ~HoldsWay(c)']

LoadNext == Next \/ Load
LoadSpec == Init /\ [][LoadNext]_vars

\* No train holds the second slot of a tile whose first slot is a sold train's:
\* can_reserve takes such a tile for free, reserve refuses it.  Without such a
\* slot the trains of a loaded game keep their ways.
NoStaleSlot == \A t \in Tile : Bound(way[t].second) => Bound(way[t].first)

=============================================================================
