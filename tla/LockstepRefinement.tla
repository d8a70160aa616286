-------------------------- MODULE LockstepRefinement --------------------------
(***************************************************************************)
(* The lockstep network game implements a replicated world.  The replicas  *)
(* are the worlds of the server and of the faithful clients: those that    *)
(* play, whose simulation has not diverged and that lost no command.       *)
(***************************************************************************)
EXTENDS Lockstep

\* The clients c with InGame(c) and IsClean(c).
Faithful == {c \in Client \ (glitches \cup lost) : client[c].state = "ingame"}

\* The server is replica NoClient; NoClient also stands for "no world".
FaithfulWorld == [m \in Client \cup {NoClient} |->
    IF m = NoClient THEN sWorld ELSE IF m \in Faithful THEN client[m].world ELSE NoClient]

\* A history of things done is never mistaken for no world.
ASSUME NoWorldAssumption == NoClient \notin World

Replicas == INSTANCE ReplicatedWorld WITH
    Replica <- Client \cup {NoClient}, Server <- NoClient, Absent <- NoClient,
    Entry <- [step : Nat, what : Tool \cup {Reload}], world <- FaithfulWorld

\* Every step of every machine is a step of ReplicatedWorld, or none.  Of a
\* step it says what SameWorld says of states, and more: a faithful machine does
\* to its world what another one has done in the same place, or is the first
\* there (do_network_world_command), one thing at a time and never undoing one;
\* and the game a client loads is the server's, as it was at some time.
ImplementsReplicatedWorld == Replicas!Spec

=============================================================================
