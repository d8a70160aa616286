-------------------------- MODULE ReplicatedWorld --------------------------
(***************************************************************************)
(* What the network game promises (simworld.cc: every machine executes the *)
(* same commands at the same sync steps): replicas of one world that start *)
(* from nothing or from a copy and do the same things to it, in the same   *)
(* order, although not at the same time.                                   *)
(***************************************************************************)
EXTENDS Naturals, Sequences

CONSTANTS Replica, Server, Entry, Absent

\* The server is one of the replicas, and no world looks like the absent one.
ReplicaAssumption == Server \in Replica /\ Absent \notin Seq(Entry)

VARIABLE world   \* world[r]: what was done to the replica r, or Absent

Present(r) == world[r] # Absent

Init == world = [r \in Replica |-> IF r = Server THEN <<>> ELSE Absent]

\* r does x, unless somebody did something else in its place.
Do(r, x) ==
    /\ Present(r)
    /\ \A q \in Replica : Present(q) /\ Len(world[q]) > Len(world[r])
                          => world[q][Len(world[r]) + 1] = x
    /\ world' = [world EXCEPT ![r] = Append(@, x)]

\* r gets a copy of the server's world, maybe not the latest one.
Enter(r) ==
    /\ ~Present(r)
    /\ \E n \in 0..Len(world[Server]) :
          world' = [world EXCEPT ![r] = SubSeq(world[Server], 1, n)]

\* r leaves the game, or is none of the faithful replicas any more.
Leave(r) == r # Server /\ Present(r) /\ world' = [world EXCEPT ![r] = Absent]

\* r does what its world ends with afterwards (Entry may be infinite).
Advance(r) == /\ world'[r] \in Seq(Entry) /\ world'[r] # <<>>
              /\ Do(r, world'[r][Len(world'[r])])

Next == \E r \in Replica : Enter(r) \/ Leave(r) \/ Advance(r)

Spec == Init /\ [][Next]_world

-----------------------------------------------------------------------------
(* Properties *)

TypeOK == world \in [Replica -> Seq(Entry) \cup {Absent}] /\ Present(Server)

\* Two replicas never did different things in the same place: one of the
\* worlds is the other one, as it was earlier.
Agreement ==
    \A p, q \in Replica : Present(p) /\ Present(q) =>
        \A i \in 1..Len(world[p]) : i <= Len(world[q]) => world[p][i] = world[q][i]

=============================================================================
