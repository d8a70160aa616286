--------------------------- MODULE LockstepProofs ---------------------------
(***************************************************************************)
(* That no machine of a network game is ever asked to act in the past, and *)
(* that no client runs ahead of the server, for every number of clients,   *)
(* tools, steps and syncs.                                                 *)
(*                                                                         *)
(* The argument: the server stamps every command with the step after its   *)
(* own, and tells its own step afterwards and through the same queue.  So   *)
(* on its way to a client a stamp is preceded by smaller clocks only, and  *)
(* what a client has seen of the clock, its barrier, is below every stamp  *)
(* it has not seen.  The packets that bypass the send queue are the        *)
(* exceptions to be argued about: NWC_SYNC and NWC_JOIN to a joining       *)
(* client, the game with its NWC_READY, and the echo of an NWC_READY.      *)
(***************************************************************************)
EXTENDS Lockstep, TLAPS

\* The packets with a stamp that may not be missed, and the step of the server
\* (or of the client, for an NWC_READY) that a packet tells.
Stamped(p) == p.kind \in {"tool", "sync"}
Clock(p) == IF p.kind \in {"step", "ready"} THEN p.step
            ELSE IF p.kind = "check" THEN p.srvStep ELSE 0

Sorted(q) == \A i, j \in DOMAIN q : i <= j => q[i].step <= q[j].step

\* What is on its way to a client through the queue q: its clocks are not ahead
\* of the server, s, its stamps are ahead of the barrier b and of the clocks
\* before them.
StreamInv(q, b, s) ==
    /\ \A i \in DOMAIN q : Clock(q[i]) <= s /\ (Stamped(q[i]) => q[i].step > b)
    /\ \A i, j \in DOMAIN q : i < j /\ Stamped(q[j]) => Clock(q[i]) < q[j].step

\* An NWC_READY of step r takes a client to no step later than the stamps of q.
Below(r, q) == \A i \in DOMAIN q : Stamped(q[i]) => r < q[i].step
NotAbove(r, q) == \A i \in DOMAIN q : Stamped(q[i]) => r <= q[i].step

\* The connection of one client: the wire tc and the send queue sq to it, the
\* wire ts from it, its machine m, and the server's step s.
ChannelInv(tc, sq, ts, m, s) ==
    /\ StreamInv(tc, m.barrier, s) /\ StreamInv(sq, m.barrier, s)
    /\ \A i \in DOMAIN tc : Below(Clock(tc[i]), sq)
    /\ \A i \in DOMAIN sq : sq[i].kind \in {"tool", "sync", "check", "step"}
    /\ \A i \in DOMAIN ts : ts[i].kind = "ready" =>
           /\ ts[i].step <= s
           /\ Below(ts[i].step, tc) /\ Below(ts[i].step, sq) /\ NotAbove(ts[i].step, m.queue)
    /\ \A i \in DOMAIN tc : tc[i].kind = "ready" =>
           \/ i > 1 /\ tc[i - 1].kind = "game"
           \/ Below(tc[i].step, tc) /\ NotAbove(tc[i].step, m.queue)

MachineInv(m, s) ==
    /\ m.step <= m.barrier /\ m.barrier <= s
    /\ Sorted(m.queue) /\ NotAbove(m.step, m.queue)
    /\ m.state # "ingame" => m.step = 0 /\ m.barrier = 0 /\ m.queue = <<>>

ServerInv ==
    /\ Sorted(sQueue)
    /\ \A i \in DOMAIN sQueue : sQueue[i].step >= sStep
    /\ loop = "execute" => \A c \in Client : sendq[c] = <<>>

\* The inductive invariant.
ClientInv(c) ==
    /\ ChannelInv(toClient[c], sendq[c], toServer[c], client[c], sStep)
    /\ MachineInv(client[c], sStep)
    /\ why[c] # "late"

LockstepInv == ServerInv /\ \A c \in Client : ClientInv(c)

-----------------------------------------------------------------------------
(* Sequences. *)

\* Taking the first element off a sequence.
LEMMA TailFacts ==
    ASSUME NEW S, NEW q \in Seq(S), q # <<>>
    PROVE  /\ Head(q) \in S /\ Head(q) = q[1] /\ 1 \in DOMAIN q
           /\ Tail(q) \in Seq(S)
           /\ Len(Tail(q)) = Len(q) - 1
           /\ \A i \in DOMAIN Tail(q) : i + 1 \in DOMAIN q /\ Tail(q)[i] = q[i + 1]
  OBVIOUS

\* Adding an element at the end of a sequence.
LEMMA AppendFacts ==
    ASSUME NEW S, NEW q \in Seq(S), NEW e \in S
    PROVE  /\ Append(q, e) \in Seq(S)
           /\ DOMAIN Append(q, e) = DOMAIN q \cup {Len(q) + 1}
           /\ \A i \in DOMAIN q : Append(q, e)[i] = q[i] /\ i < Len(q) + 1
           /\ Append(q, e)[Len(q) + 1] = e
  OBVIOUS

\* What command_queue_append returns: the old commands and the new one, and
\* nothing else, in an ordered queue if the old one was ordered.
LEMMA QueueAppendFacts ==
    ASSUME NEW q \in Seq(WorldCmd), NEW cmd \in WorldCmd
    PROVE  /\ CommandQueueAppend(q, cmd) \in Seq(WorldCmd)
           /\ \A i \in DOMAIN CommandQueueAppend(q, cmd) :
                 \/ CommandQueueAppend(q, cmd)[i] = cmd
                 \/ \E j \in DOMAIN q : CommandQueueAppend(q, cmd)[i] = q[j]
           /\ Sorted(q) => Sorted(CommandQueueAppend(q, cmd))
<1> DEFINE r == CommandQueueAppend(q, cmd)
<1>1. /\ Len(q) \in Nat /\ DOMAIN q = 1 .. Len(q)
      /\ \A i \in 1 .. Len(q) : q[i] \in WorldCmd
  OBVIOUS
<1>2. cmd.step \in Nat /\ \A i \in 1 .. Len(q) : q[i].step \in Nat
  BY <1>1 DEF WorldCmd, ToolCmd, SyncCmd, CheckCmd
<1>3. r = [i \in 1 .. Len(q) + 1 |->
              IF i <= Len(q) /\ q[i].step <= cmd.step THEN q[i]
              ELSE IF i = 1 \/ q[i - 1].step <= cmd.step THEN cmd ELSE q[i - 1]]
  BY DEF CommandQueueAppend
<1>4. /\ DOMAIN r = 1 .. Len(q) + 1
      /\ \A i \in 1 .. Len(q) + 1 :
            \/ i \in 1 .. Len(q) /\ q[i].step <= cmd.step /\ r[i] = q[i]
            \/ /\ i \notin 1 .. Len(q) \/ q[i].step > cmd.step
               /\ i = 1 \/ q[i - 1].step <= cmd.step
               /\ r[i] = cmd
            \/ /\ i \notin 1 .. Len(q) \/ q[i].step > cmd.step
               /\ i - 1 \in 1 .. Len(q) /\ q[i - 1].step > cmd.step /\ r[i] = q[i - 1]
  <2> HIDE DEF r
  <2>1. DOMAIN r = 1 .. Len(q) + 1
    BY <1>3
  <2>2. ASSUME NEW i \in 1 .. Len(q) + 1
        PROVE r[i] = IF i <= Len(q) /\ q[i].step <= cmd.step THEN q[i]
              ELSE IF i = 1 \/ q[i - 1].step <= cmd.step THEN cmd ELSE q[i - 1]
    BY <1>3
  <2>3. QED
    BY <1>1, <1>2, <2>1, <2>2
<1> HIDE DEF r
<1>5. \A i \in 1 .. Len(q) + 1 : r[i] \in WorldCmd
  BY <1>1, <1>4
<1>6. r \in Seq(WorldCmd)
  <2>1. Len(q) + 1 \in Nat /\ r = [i \in 1 .. Len(q) + 1 |-> r[i]]
    BY <1>1, <1>3
  <2>2. QED
    BY <1>5, <2>1
<1>7. ASSUME Sorted(q) PROVE Sorted(r)
  <2> SUFFICES ASSUME NEW i \in 1 .. Len(q) + 1, NEW j \in 1 .. Len(q) + 1, i < j
               PROVE r[i].step <= r[j].step
    BY <1>2, <1>4, <1>5 DEF Sorted, WorldCmd, ToolCmd, SyncCmd, CheckCmd
  <2>1. \A x, y \in 1 .. Len(q) : x <= y => q[x].step <= q[y].step
    BY <1>1, <1>7 DEF Sorted
  <2>2. i \in 1 .. Len(q) /\ q[i].step <= cmd.step /\ r[i] = q[i] => r[i].step <= r[j].step
    BY <1>1, <1>2, <1>4, <2>1
  <2>3. CASE /\ i \notin 1 .. Len(q) \/ q[i].step > cmd.step
             /\ r[i] = cmd
    <3>1. ~(j \in 1 .. Len(q) /\ q[j].step <= cmd.step)
      <4> SUFFICES ASSUME j \in 1 .. Len(q), q[j].step <= cmd.step PROVE FALSE
        OBVIOUS
      <4>1. i \in 1 .. Len(q) /\ q[i].step <= q[j].step
        BY <1>1, <2>1
      <4>2. QED
        BY <1>2, <2>3, <4>1
    <3>2. r[j] = cmd \/ (j - 1 \in 1 .. Len(q) /\ q[j - 1].step > cmd.step /\ r[j] = q[j - 1])
      BY <1>4, <3>1
    <3>3. QED
      BY <1>2, <2>3, <3>2
  <2>4. CASE i - 1 \in 1 .. Len(q) /\ q[i - 1].step > cmd.step /\ r[i] = q[i - 1]
    <3>1. \A x \in 1 .. Len(q) : i - 1 <= x => q[i - 1].step <= q[x].step /\ q[x].step > cmd.step
      BY <1>2, <2>1, <2>4
    <3>2. /\ ~(j \in 1 .. Len(q) /\ q[j].step <= cmd.step)
          /\ ~(j = 1 \/ q[j - 1].step <= cmd.step)
      <4>1. j - 1 \in 1 .. Len(q) /\ i - 1 <= j - 1 /\ i - 1 <= j /\ j # 1
        BY <1>1, <2>4
      <4>2. QED
        BY <1>2, <3>1, <4>1
    <3>3. j - 1 \in 1 .. Len(q) /\ r[j] = q[j - 1] /\ i - 1 <= j - 1
      BY <1>4, <3>2
    <3>4. QED
      BY <2>4, <3>1, <3>3
  <2>5. QED
    BY <1>4, <2>2, <2>3, <2>4
<1>8. QED
  BY <1>1, <1>4, <1>6, <1>7 DEF r

-----------------------------------------------------------------------------
(* Types. *)

\* Every stretch of play is a world, and so is the checklist taken of it.
LEMMA WorldFacts ==
    ASSUME NEW w \in World, NEW s \in Nat, NEW x \in Tool \cup {Reload, Glitch}
    PROVE  Append(w, Done(s, x)) \in World
  BY DEF World, Entry, Done

\* The ring of checklists holds worlds at every step.
LEMMA RingFacts ==
    ASSUME NEW ring \in [0 .. ChecklistCount - 1 -> World], NEW s \in Nat, NEW w \in World
    PROVE  /\ LCHKLST(ring, s) \in World
           /\ SetChecklist(ring, s, w) \in [0 .. ChecklistCount - 1 -> World]
<1>1. s % ChecklistCount \in 0 .. ChecklistCount - 1
  BY BoundsAssumption
<1>2. QED
  BY <1>1 DEF LCHKLST, SetChecklist

\* A ring never written is a ring.
LEMMA NoChecklistsFacts == NoChecklists \in [0 .. ChecklistCount - 1 -> World]
  BY DEF NoChecklists, Blank, World, Entry, Done

\* A client outside of a game is a machine with an empty queue.
LEMMA OutsideFacts ==
    ASSUME NEW m \in Nat, NEW st \in {"offline", "waitJoin", "waitSync", "waitGame"}
    PROVE  Outside(st, m) \in Machine
  BY NoChecklistsFacts DEF Outside, Reset, Machine, World

\* A client that loaded the game is a machine with an empty queue, too.
LEMMA LoadedFacts ==
    ASSUME NEW m \in Nat, NEW w \in World
    PROVE  Loaded(m, w) \in Machine
<1>1. Loaded(m, w) = [state |-> "ingame", step |-> 0, barrier |-> 0, map |-> m, queue |-> <<>>,
                      world |-> w, chk |-> NoChecklists, paused |-> TRUE]
  BY DEF Loaded, Reset
<1>2. QED
  BY <1>1, NoChecklistsFacts DEF Machine

\* The packets the machines build are packets.
LEMMA PacketFacts ==
    ASSUME NEW s \in Nat, NEW m \in Nat, NEW w \in World
    PROVE  /\ ReadyPacket(s, m, w) \in ServerPacket /\ ReadyPacket(s, m, w) \in ClientPacket
           /\ \A t \in Tool : /\ ToolPacket(s, m, t, s, w) \in ClientPacket
           /\ EOF \in ServerPacket /\ EOF \in ClientPacket
           /\ [kind |-> "join"] \in ClientPacket
           /\ \A b \in BOOLEAN : [kind |-> "join", answer |-> b] \in ServerPacket
           /\ [kind |-> "game", world |-> w] \in ServerPacket
           /\ [kind |-> "step", step |-> s, map |-> m] \in ServerPacket
           /\ [kind |-> "check", step |-> s + 1, map |-> m, srvStep |-> s, chk |-> w] \in ServerPacket
  BY DEF ReadyPacket, ToolPacket, EOF, ServerPacket, ClientPacket, WorldCmd, Ready, ToolCmd,
         CheckCmd, SyncCmd

\* The commands the server builds are commands, and packets.
LEMMA CommandFacts ==
    ASSUME TypeOK
    PROVE  /\ \A t \in Tool : ToolPacket(sStep + 1, sMap, t, sStep, LCHKLST(sChk, sStep)) \in WorldCmd
           /\ \A c \in Client \cup {NoClient} : SyncPacket(c) \in WorldCmd
           /\ WorldCmd \subseteq ServerPacket
<1>1. LCHKLST(sChk, sStep) \in World
  BY RingFacts DEF TypeOK, World
<1>2. QED
  BY <1>1 DEF TypeOK, ToolPacket, SyncPacket, WorldCmd, ToolCmd, SyncCmd, ServerPacket

\* What a packet's kind says of it.
LEMMA KindFacts ==
    /\ \A p \in ClientPacket : /\ p.kind = "tool" => p \in ToolCmd
                               /\ p.kind = "ready" => p \in Ready
    /\ \A p \in ServerPacket : /\ p.kind \in {"tool", "sync", "check"} => p \in WorldCmd
                               /\ p.kind = "tool" => p \in ToolCmd
                               /\ p.kind = "sync" => p \in SyncCmd
                               /\ p.kind = "check" => p \in CheckCmd
                               /\ p.kind = "ready" => p \in Ready
                               /\ p.kind = "step" => p.step \in Nat
                               /\ p.kind = "game" => p.world \in World
                               /\ p.kind = "join" => p.answer \in BOOLEAN
  BY DEF ClientPacket, ServerPacket, WorldCmd, ToolCmd, SyncCmd, CheckCmd, Ready

\* Sending to everybody, or one packet to one client, keeps the queues typed.
LEMMA SendFacts ==
    ASSUME NEW q \in [Client -> Seq(ServerPacket)], NEW p \in ServerPacket, NEW c \in Client
    PROVE  /\ [q EXCEPT ![c] = Append(@, p)] \in [Client -> Seq(ServerPacket)]
           /\ [q EXCEPT ![c] = <<>>] \in [Client -> Seq(ServerPacket)]
           /\ q[c] # <<>> => [q EXCEPT ![c] = Tail(@)] \in [Client -> Seq(ServerPacket)]
  OBVIOUS

\* A packet for every connection keeps the send queues typed.
LEMMA SendAllFacts ==
    ASSUME TypeOK, NEW p \in ServerPacket
    PROVE  SendAll(p) \in [Client -> Seq(ServerPacket)]
  BY DEF SendAll, TypeOK

\* So does a packet that bypasses them.
LEMMA SendDirectFacts ==
    ASSUME NEW q \in [Client -> Seq(ServerPacket)], NEW c \in Client,
           NEW p \in ServerPacket, NEW r \in ServerPacket
    PROVE  /\ [q EXCEPT ![c] = @ \o <<p>>] \in [Client -> Seq(ServerPacket)]
           /\ [q EXCEPT ![c] = @ \o <<p>> \o <<r>>] \in [Client -> Seq(ServerPacket)]
           /\ [q EXCEPT ![c] = @ \o <<p, r>>] \in [Client -> Seq(ServerPacket)]
<1>1. q[c] \in Seq(ServerPacket) /\ <<p>> \in Seq(ServerPacket)
      /\ <<r>> \in Seq(ServerPacket) /\ <<p, r>> \in Seq(ServerPacket)
  OBVIOUS
<1>2. q[c] \o <<p>> \in Seq(ServerPacket) /\ q[c] \o <<p, r>> \in Seq(ServerPacket)
  BY <1>1
<1>3. q[c] \o <<p>> \o <<r>> \in Seq(ServerPacket)
  BY <1>1, <1>2
<1>4. QED
  BY <1>2, <1>3

\* The ways in which a game ends.
LEMMA EndingFacts ==
    /\ "ok" \in Ending /\ "late" \in Ending /\ "desync" \in Ending
    /\ "map" \in Ending /\ "kicked" \in Ending /\ "forgotten" \in Ending
  BY DEF Ending

\* Every step keeps the types.
LEMMA TypeStep == TypeOK /\ [Next]_vars => TypeOK'
<1> SUFFICES ASSUME TypeOK, [Next]_vars PROVE TypeOK'
  OBVIOUS
<1> USE DEF serverVars, wireVars, ghostVars
<1>1. CASE UNCHANGED vars
  BY <1>1 DEF vars, TypeOK
<1>2. ASSUME NEW cmd \in WorldCmd, Broadcast(cmd)
      PROVE  sendq' \in [Client -> Seq(ServerPacket)] /\ sQueue' \in Seq(WorldCmd)
  <2>1. cmd \in ServerPacket
    BY CommandFacts
  <2>2. SendAll(cmd) \in [Client -> Seq(ServerPacket)]
    BY <2>1, SendAllFacts
  <2>3. CommandQueueAppend(sQueue, cmd) \in Seq(WorldCmd)
    BY QueueAppendFacts DEF TypeOK
  <2>4. QED
    BY <1>2, <2>2, <2>3 DEF Broadcast
<1>3. ASSUME NEW c \in Client, TakePacket(c), toServer[c] # <<>>
      PROVE  toServer' \in [Client -> Seq(ClientPacket)]
  BY <1>3 DEF TakePacket, TypeOK
<1>4. ASSUME NEW c \in Client, RemoveClient(c), why' \in [Client -> Ending]
      PROVE  TypeOK'
  <2>1. EOF \in ServerPacket
    BY DEF EOF, ServerPacket
  <2>2. /\ sendq' \in [Client -> Seq(ServerPacket)] /\ toClient' \in [Client -> Seq(ServerPacket)]
        /\ toServer' \in [Client -> Seq(ClientPacket)]
        /\ slot' \in [Client -> {"inactive", "connected", "playing"}]
        /\ pending' \in Client \cup {NoClient}
    BY <1>4, <2>1 DEF RemoveClient, TypeOK
  <2>3. QED
    BY <1>4, <2>2 DEF RemoveClient, TypeOK
<1>5. ASSUME NEW c \in Client, NEW reason \in {"kicked", "forgotten"}, Kick(c, reason) PROVE TypeOK'
  <2>1. why' \in [Client -> Ending]
    BY <1>5, EndingFacts DEF Kick, TypeOK
  <2>2. QED
    BY <1>4, <1>5, <2>1 DEF Kick
<1>6. ASSUME NEW c \in Client, SrvReceiveJoin(c) PROVE TypeOK'
  <2>1. toServer' \in [Client -> Seq(ClientPacket)]
    BY <1>3, <1>6 DEF SrvReceiveJoin, Received
  <2>2. /\ SyncPacket(c) \in WorldCmd /\ SyncPacket(c) \in ServerPacket
        /\ \A b \in BOOLEAN : [kind |-> "join", answer |-> b] \in ServerPacket
    BY CommandFacts, PacketFacts DEF ServerPacket
  <2>3. CASE pending = NoClient
    <3>1. /\ toClient' = [toClient EXCEPT ![c] =
                 @ \o <<[kind |-> "join", answer |-> TRUE]>> \o <<SyncPacket(c)>>]
          /\ Broadcast(SyncPacket(c)) /\ nextMap' = nextMap + 1 /\ pending' = c
          /\ sPaused' = FALSE
      BY <1>6, <2>3 DEF SrvReceiveJoin, AcceptJoin
    <3>2. toClient' \in [Client -> Seq(ServerPacket)]
      BY <2>2, <3>1, SendDirectFacts DEF TypeOK
    <3>3. sendq' \in [Client -> Seq(ServerPacket)] /\ sQueue' \in Seq(WorldCmd)
      BY <1>2, <2>2, <3>1
    <3>4. QED
      <4>1. nextMap' \in Nat /\ pending' \in Client \cup {NoClient}
        BY <3>1 DEF TypeOK
      <4>2. sPaused' \in BOOLEAN
        BY <3>1
      <4>3. QED
        BY <1>6, <2>1, <3>2, <3>3, <4>1, <4>2 DEF SrvReceiveJoin, TypeOK
  <2>4. CASE pending # NoClient
    <3>1. /\ toClient' = [toClient EXCEPT ![c] = @ \o <<[kind |-> "join", answer |-> FALSE]>>]
          /\ UNCHANGED <<sendq, sQueue, nextMap, pending, sPaused>>
      BY <1>6, <2>4 DEF SrvReceiveJoin
    <3>2. toClient' \in [Client -> Seq(ServerPacket)]
      BY <2>2, <3>1, SendDirectFacts DEF TypeOK
    <3>3. QED
      BY <1>6, <2>1, <3>1, <3>2 DEF SrvReceiveJoin, TypeOK
  <2>5. QED
    BY <2>3, <2>4
<1>7. ASSUME NEW c \in Client, SrvReceiveTool(c) PROVE TypeOK'
  <2> DEFINE cmd == Head(toServer[c])
             new == ToolPacket(sStep + 1, sMap, cmd.tool, sStep, LCHKLST(sChk, sStep))
  <2>1. toServer[c] # <<>> /\ cmd.kind = "tool"
    BY <1>7 DEF SrvReceiveTool, Received
  <2>2. cmd \in ClientPacket
    BY <1>7, <2>1 DEF TypeOK
  <2>3. new \in WorldCmd
    <3>1. cmd \in ToolCmd
      BY <2>1, <2>2, KindFacts
    <3>2. QED
      BY <3>1, CommandFacts DEF ToolCmd
  <2>4. \/ Kick(c, "kicked")
        \/ TakePacket(c) /\ UNCHANGED <<serverVars, sendq, toClient, client, ghostVars>>
        \/ /\ TakePacket(c) /\ Broadcast(new)
           /\ UNCHANGED <<sStep, sMap, sWorld, sChk, sPaused, loop, allMaps, nextMap, pending,
                          slot, toClient, client, ghostVars>>
    BY <1>7 DEF SrvReceiveTool
  <2> HIDE DEF new
  <2>5. CASE TakePacket(c) /\ UNCHANGED <<serverVars, sendq, toClient, client, ghostVars>>
    BY <1>3, <2>1, <2>5 DEF TypeOK
  <2>6. CASE /\ TakePacket(c) /\ Broadcast(new)
             /\ UNCHANGED <<sStep, sMap, sWorld, sChk, sPaused, loop, allMaps, nextMap, pending,
                            slot, toClient, client, ghostVars>>
    BY <1>2, <1>3, <2>1, <2>3, <2>6 DEF TypeOK
  <2>7. QED
    BY <1>5, <2>4, <2>5, <2>6
<1>8. ASSUME NEW c \in Client, SrvReceiveReady(c) PROVE TypeOK'
  <2>1. toServer[c] # <<>> /\ Head(toServer[c]) \in ServerPacket
    BY <1>8, KindFacts DEF SrvReceiveReady, Received, TypeOK, ServerPacket
  <2>2. \/ Kick(c, "kicked") \/ Kick(c, "forgotten")
        \/ /\ TakePacket(c)
           /\ toClient' = [toClient EXCEPT ![c] = Append(@, Head(toServer[c]))]
           /\ UNCHANGED <<serverVars, sendq, client, ghostVars>>
    BY <1>8 DEF SrvReceiveReady, EchoReady
  <2>3. ASSUME /\ TakePacket(c)
               /\ toClient' = [toClient EXCEPT ![c] = Append(@, Head(toServer[c]))]
               /\ UNCHANGED <<serverVars, sendq, client, ghostVars>>
        PROVE  TypeOK'
    <3>1. toServer' \in [Client -> Seq(ClientPacket)]
      BY <1>3, <2>1, <2>3
    <3>2. toClient' \in [Client -> Seq(ServerPacket)]
      BY <2>1, <2>3, SendFacts DEF TypeOK
    <3>3. QED
      BY <2>3, <3>1, <3>2 DEF TypeOK
  <2>4. QED
    BY <1>5, <2>2, <2>3
<1>9. ASSUME NEW c \in Client, SrvReceiveEOF(c) PROVE TypeOK'
  BY <1>4, <1>9 DEF SrvReceiveEOF, TypeOK
<1>10. ASSUME NEW t \in Tool, SrvTool(t) PROVE TypeOK'
  <2>1. /\ issued' \subseteq Tool
        /\ sendq' \in [Client -> Seq(ServerPacket)] /\ sQueue' \in Seq(WorldCmd)
    BY <1>2, <1>10, CommandFacts DEF SrvTool, TypeOK
  <2>2. QED
    BY <1>10, <2>1 DEF SrvTool, TypeOK
<1>11. ASSUME NEW c \in Client \cup {NoClient}, NEW m \in Nat, SrvReload(c, m)
       PROVE  /\ sQueue' \in Seq(WorldCmd) /\ sWorld' \in World /\ sMap' \in Nat
              /\ allMaps' \in Seq(Nat) /\ sPaused' \in BOOLEAN
              /\ pending' \in Client \cup {NoClient}
              /\ toClient' \in [Client -> Seq(ServerPacket)]
              /\ slot' \in [Client -> {"inactive", "connected", "playing"}]
  <2>1. sWorld' \in World
    BY <1>11, WorldFacts DEF SrvReload, TypeOK
  <2>2. allMaps' \in Seq(Nat)
    <3>1. <<m>> \o allMaps \in Seq(Nat) /\ Len(<<m>> \o allMaps) = Len(allMaps) + 1
      BY DEF TypeOK
    <3>2. \A n \in 1 .. Len(allMaps) + 1 : SubSeq(<<m>> \o allMaps, 1, n) \in Seq(Nat)
      BY <3>1
    <3>3. allMaps' = SubSeq(<<m>> \o allMaps, 1,
                 IF Len(allMaps) = MaxMapCounters THEN MaxMapCounters ELSE Len(allMaps) + 1)
      BY <1>11 DEF SrvReload, AppendMapCounter
    <3>4. /\ MaxMapCounters \in Nat /\ MaxMapCounters > 0 /\ Len(allMaps) \in Nat
      BY BoundsAssumption DEF TypeOK
    <3>5. (IF Len(allMaps) = MaxMapCounters THEN MaxMapCounters ELSE Len(allMaps) + 1)
              \in 1 .. Len(allMaps) + 1
      BY <3>4
    <3>6. QED
      BY <3>2, <3>3, <3>5
  <2>3. ASSUME c # NoClient /\ slot[c] # "inactive"
        PROVE  /\ toClient' \in [Client -> Seq(ServerPacket)]
               /\ slot' \in [Client -> {"inactive", "connected", "playing"}]
    <3>1. /\ [kind |-> "game", world |-> sWorld'] \in ServerPacket
          /\ ReadyPacket(sStep, m, LCHKLST(sChk, sStep)) \in ServerPacket
      BY <2>1, PacketFacts, RingFacts DEF TypeOK, World
    <3>2. /\ toClient' = [toClient EXCEPT ![c] =
                 @ \o <<[kind |-> "game", world |-> sWorld'],
                        ReadyPacket(sStep, m, LCHKLST(sChk, sStep))>>]
          /\ slot' = [slot EXCEPT ![c] = "playing"]
      BY <1>11, <2>3 DEF SrvReload
    <3>3. toClient' \in [Client -> Seq(ServerPacket)]
      BY <2>3, <3>1, <3>2, SendDirectFacts DEF TypeOK
    <3>4. slot' \in [Client -> {"inactive", "connected", "playing"}]
      BY <3>2 DEF TypeOK
    <3>5. QED
      BY <3>3, <3>4
  <2>4. ASSUME ~(c # NoClient /\ slot[c] # "inactive")
        PROVE  /\ toClient' \in [Client -> Seq(ServerPacket)]
               /\ slot' \in [Client -> {"inactive", "connected", "playing"}]
    <3>1. UNCHANGED <<toClient, slot>>
      BY <1>11, <2>4 DEF SrvReload
    <3>2. QED
      BY <3>1 DEF TypeOK
  <2>5. /\ toClient' \in [Client -> Seq(ServerPacket)]
        /\ slot' \in [Client -> {"inactive", "connected", "playing"}]
    BY <2>3, <2>4
  <2>6. sQueue' = <<>> /\ sMap' = m /\ sPaused' = FALSE /\ pending' = NoClient
    BY <1>11 DEF SrvReload
  <2>7. /\ sQueue' \in Seq(WorldCmd) /\ sMap' \in Nat
        /\ pending' \in Client \cup {NoClient}
    BY <2>6
  <2>8. sPaused' \in BOOLEAN
    BY <2>6
  <2>9. QED
    BY <2>1, <2>2, <2>5, <2>7, <2>8
<1>12. CASE SrvForceSync
  <2>1. CASE sPaused /\ GetPlayingClients = {} /\ SrvReload(NoClient, nextMap)
    <3>1. nextMap \in Nat /\ nextMap' \in Nat /\ tries' \in Nat
      BY <1>12 DEF SrvForceSync, TypeOK
    <3>2. QED
      BY <1>11, <2>1, <3>1 DEF SrvReload, TypeOK
  <2>2. CASE Broadcast(SyncPacket(NoClient))
             /\ UNCHANGED <<sStep, sMap, sWorld, sChk, sPaused, loop, allMaps, pending, slot,
                            toClient, toServer, client, issued, glitches, lost, why>>
    BY <1>2, <1>12, <2>2, CommandFacts DEF SrvForceSync, TypeOK
  <2>3. QED
    BY <1>12, <2>1, <2>2 DEF SrvForceSync
<1>13. CASE SrvFlush
  <2>1. \A c \in Client : toClient[c] \o sendq[c] \in Seq(ServerPacket)
    BY DEF TypeOK
  <2>2. QED
    BY <1>13, <2>1 DEF SrvFlush, TypeOK
<1>14. CASE SrvExecuteTool
  <2>1. sQueue # <<>> /\ Head(sQueue) \in ToolCmd
    BY <1>14, KindFacts DEF SrvExecuteTool, SrvExecute, Due, TypeOK, ServerPacket
  <2>2. sWorld' \in World
    BY <1>14, <2>1, WorldFacts DEF SrvExecuteTool, TypeOK, ToolCmd
  <2>3. sQueue' \in Seq(WorldCmd)
    BY <1>14, <2>1 DEF SrvExecuteTool, TypeOK
  <2>4. QED
    BY <1>14, <2>2, <2>3 DEF SrvExecuteTool, TypeOK
<1>15. CASE SrvExecuteSync
  <2>1. sQueue # <<>> /\ Head(sQueue) \in SyncCmd
    BY <1>15, KindFacts DEF SrvExecuteSync, SrvExecute, Due, TypeOK, ServerPacket
  <2>2. Head(sQueue).client \in Client \cup {NoClient} /\ Head(sQueue).newMap \in Nat
    BY <2>1 DEF SyncCmd
  <2>3. QED
    BY <1>11, <1>15, <2>2 DEF SrvExecuteSync, SrvReload, TypeOK
<1>16. CASE SrvFrame
  <2>1. sChk' \in [0 .. ChecklistCount - 1 -> World]
    <3>1. /\ sStep + 1 \in Nat /\ sWorld \in World
          /\ sChk \in [0 .. ChecklistCount - 1 -> World]
          /\ sChk' = SetChecklist(sChk, sStep + 1, sWorld)
      BY <1>16 DEF SrvFrame, TypeOK
    <3>2. QED
      BY <3>1, RingFacts
  <2>2. sendq' \in [Client -> Seq(ServerPacket)]
    <3>1. /\ [kind |-> "check", step |-> sStep + 2, map |-> sMap, srvStep |-> sStep + 1,
                  chk |-> sWorld] \in ServerPacket
          /\ [kind |-> "step", step |-> sStep + 1, map |-> sMap] \in ServerPacket
      BY DEF TypeOK, ServerPacket, WorldCmd, CheckCmd
    <3>2. \E p \in ServerPacket : sendq' = SendAll(p)
      BY <1>16, <3>1 DEF SrvFrame
    <3>3. ASSUME NEW p \in ServerPacket PROVE SendAll(p) \in [Client -> Seq(ServerPacket)]
      BY DEF SendAll, TypeOK
    <3>4. QED
      BY <3>2, <3>3
  <2>3. sPaused' \in BOOLEAN
    BY <1>16 DEF SrvFrame, ShouldPause
  <2>4. QED
    BY <1>16, <2>1, <2>2, <2>3 DEF SrvFrame, TypeOK
<1>17. CASE SrvIdle
  BY <1>17 DEF SrvIdle, TypeOK

<1>18. ASSUME NEW c \in Client, NEW m \in Machine, CliBecomes(c, m),
              toClient' \in [Client -> Seq(ServerPacket)],
              toServer' \in [Client -> Seq(ClientPacket)], lost' \subseteq Client
       PROVE  TypeOK'
  <2>1. client' \in [Client -> Machine]
    BY <1>18 DEF CliBecomes, TypeOK
  <2>2. QED
    BY <1>18, <2>1 DEF CliBecomes, TypeOK
<1>19. ASSUME NEW c \in Client, CliTake(c), toClient[c] # <<>>
       PROVE  toClient' \in [Client -> Seq(ServerPacket)]
  BY <1>19, SendFacts DEF CliTake, TypeOK
<1>20. ASSUME NEW c \in Client, NEW reason \in Ending,
              LeaveNow(c, reason)
       PROVE  /\ client' \in [Client -> Machine]
              /\ toClient' \in [Client -> Seq(ServerPacket)]
              /\ toServer' \in [Client -> Seq(ClientPacket)]
              /\ why' \in [Client -> Ending]
  <2>1. Outside("offline", 0) \in Machine
    BY OutsideFacts
  <2>2. EOF \in ClientPacket
    BY DEF EOF, ClientPacket
  <2>3. client' \in [Client -> Machine] /\ toServer' \in [Client -> Seq(ClientPacket)]
    BY <1>20, <2>1, <2>2 DEF LeaveNow, TypeOK
  <2>4. toClient' \in [Client -> Seq(ServerPacket)]
    BY <1>20 DEF LeaveNow, TypeOK
  <2>5. why' \in [Client -> Ending]
    BY <1>20 DEF LeaveNow, TypeOK
  <2>6. QED
    BY <2>3, <2>4, <2>5
<1>21. ASSUME NEW c \in Client, NEW reason \in Ending,
              Leave(c, reason)
       PROVE  TypeOK'
  <2>1. /\ client' \in [Client -> Machine]
        /\ toClient' \in [Client -> Seq(ServerPacket)]
        /\ toServer' \in [Client -> Seq(ClientPacket)]
        /\ why' \in [Client -> Ending]
    BY <1>20, <1>21 DEF Leave
  <2>2. QED
    BY <1>21, <2>1 DEF Leave, TypeOK
<1>22. ASSUME NEW c \in Client PROVE client[c] \in Machine
  BY DEF TypeOK
<1>23. ASSUME NEW c \in Client, toClient[c] # <<>> PROVE Head(toClient[c]) \in ServerPacket
  BY <1>23 DEF TypeOK
<1>24. ASSUME NEW c \in Client, Connect(c) PROVE TypeOK'
  <2>1. Outside("waitJoin", 0) \in Machine
    BY OutsideFacts
  <2>2. <<[kind |-> "join"]>> \in Seq(ClientPacket)
    BY DEF ClientPacket
  <2>3. client' \in [Client -> Machine] /\ toServer' \in [Client -> Seq(ClientPacket)]
    BY <1>24, <2>1, <2>2 DEF Connect, TypeOK
  <2>4. toClient' \in [Client -> Seq(ServerPacket)]
    BY <1>24 DEF Connect, TypeOK
  <2>5. /\ slot' \in [Client -> {"inactive", "connected", "playing"}]
        /\ why' \in [Client -> Ending]
        /\ tries' \in Nat /\ glitches' \subseteq Client /\ lost' \subseteq Client
    BY <1>24, EndingFacts DEF Connect, TypeOK
  <2>6. QED
    BY <1>24, <2>3, <2>4, <2>5 DEF Connect, TypeOK
<1>25. ASSUME NEW c \in Client, CliJoin(c) PROVE TypeOK'
  <2>1. toClient[c] # <<>> /\ Outside("waitSync", 0) \in Machine
    BY <1>25, OutsideFacts DEF CliJoin, CliHead
  <2>2. CASE /\ CliTake(c) /\ CliBecomes(c, Outside("waitSync", 0))
             /\ UNCHANGED <<toServer, lost>>
    <3>1. toServer' \in [Client -> Seq(ClientPacket)] /\ lost' \subseteq Client
      BY <2>2 DEF TypeOK
    <3>2. QED
      BY <1>18, <1>19, <2>1, <2>2, <3>1
  <2>3. QED
    BY <1>21, <1>25, <2>2, EndingFacts DEF CliJoin
<1>26. ASSUME NEW c \in Client, CliSync(c) PROVE TypeOK'
  <2>1. toClient[c] # <<>> /\ Head(toClient[c]).kind = "sync"
    BY <1>26 DEF CliSync, CliHead
  <2>2. Head(toClient[c]).newMap \in Nat
    BY <1>23, <2>1, KindFacts DEF SyncCmd
  <2>3. Outside("waitGame", Head(toClient[c]).newMap) \in Machine
    BY <2>2, OutsideFacts
  <2>4. toServer' \in [Client -> Seq(ClientPacket)] /\ lost' \subseteq Client
    BY <1>26 DEF CliSync, TypeOK
  <2>5. CliTake(c) /\ CliBecomes(c, Outside("waitGame", Head(toClient[c]).newMap))
    BY <1>26 DEF CliSync
  <2>6. QED
    BY <1>18, <1>19, <2>1, <2>3, <2>4, <2>5
<1>27. ASSUME NEW c \in Client, CliGame(c) PROVE TypeOK'
  <2> DEFINE m == Loaded(client[c].map, Head(toClient[c]).world)
  <2>1. toClient[c] # <<>> /\ Head(toClient[c]).kind = "game"
    BY <1>27 DEF CliGame, CliHead
  <2>2. Head(toClient[c]).world \in World
    BY <1>23, <2>1, KindFacts
  <2>3. client[c].map \in Nat
    BY <1>22 DEF Machine
  <2>5. m \in Machine
    BY <2>2, <2>3, LoadedFacts
  <2>6. toServer' \in [Client -> Seq(ClientPacket)] /\ lost' \subseteq Client
    BY <1>27 DEF CliGame, TypeOK
  <2>7. CliTake(c) /\ CliBecomes(c, m)
    BY <1>27 DEF CliGame
  <2>8. QED
    BY <1>18, <1>19, <2>1, <2>5, <2>6, <2>7
<1>28. ASSUME NEW c \in Client, CliDiscard(c) PROVE TypeOK'
  <2>1. \/ Leave(c, "ok")
        \/ /\ toClient[c] # <<>> /\ CliTake(c)
           /\ UNCHANGED <<serverVars, sendq, toServer, client, ghostVars>>
    BY <1>28 DEF CliDiscard
  <2>2. CASE /\ toClient[c] # <<>> /\ CliTake(c)
             /\ UNCHANGED <<serverVars, sendq, toServer, client, ghostVars>>
    BY <1>19, <2>2 DEF TypeOK
  <2>3. QED
    BY <1>21, <2>1, <2>2, EndingFacts
<1>29. ASSUME NEW c \in Client, CliStep(c) PROVE TypeOK'
  <2> DEFINE s == Head(toClient[c]).step
             m == [client[c] EXCEPT !.barrier = IF @ < s THEN s ELSE @]
  <2>1. toClient[c] # <<>> /\ Head(toClient[c]).kind = "step"
    BY <1>29 DEF CliStep, CliHead
  <2>2. s \in Nat
    BY <1>23, <2>1, KindFacts
  <2>3. m \in Machine
    BY <1>22, <2>2 DEF Machine
  <2>4. toServer' \in [Client -> Seq(ClientPacket)] /\ lost' \subseteq Client
    BY <1>29 DEF CliStep, TypeOK
  <2>5. CliTake(c) /\ CliBecomes(c, m)
    BY <1>29 DEF CliStep
  <2>6. QED
    BY <1>18, <1>19, <2>1, <2>3, <2>4, <2>5
<1>30. ASSUME NEW c \in Client, CliCommand(c) PROVE TypeOK'
  <2> DEFINE cmd == Head(toClient[c])
             m == IF cmd.kind = "check" /\ client[c].barrier < cmd.srvStep
                  THEN [client[c] EXCEPT !.barrier = cmd.srvStep] ELSE client[c]
             past == cmd.step < m.step
  <2>1. toClient[c] # <<>> /\ cmd.kind \in {"tool", "sync", "check"}
    BY <1>30 DEF CliCommand, CliHead
  <2>2. cmd \in WorldCmd /\ (cmd.kind = "check" => cmd.srvStep \in Nat)
    BY <1>23, <2>1, KindFacts DEF CheckCmd
  <2>3. m \in Machine
    BY <1>22, <2>2 DEF Machine
  <2>4. \/ Leave(c, "late")
        \/ /\ CliTake(c)
           /\ CliBecomes(c, IF past THEN m ELSE [m EXCEPT !.queue = CommandQueueAppend(@, cmd)])
           /\ UNCHANGED <<toServer, lost>>
    BY <1>30 DEF CliCommand
  <2> HIDE DEF m, past
  <2>5. [m EXCEPT !.queue = CommandQueueAppend(@, cmd)] \in Machine
    <3>1. CommandQueueAppend(m.queue, cmd) \in Seq(WorldCmd)
      BY <2>2, <2>3, QueueAppendFacts DEF Machine
    <3>2. QED
      BY <2>3, <3>1 DEF Machine
  <2>6. CASE /\ CliTake(c)
             /\ CliBecomes(c, IF past THEN m ELSE [m EXCEPT !.queue = CommandQueueAppend(@, cmd)])
             /\ UNCHANGED <<toServer, lost>>
    <3>1. toServer' \in [Client -> Seq(ClientPacket)] /\ lost' \subseteq Client
      BY <2>6 DEF TypeOK
    <3>2. toClient' \in [Client -> Seq(ServerPacket)]
      BY <1>19, <2>1, <2>6
    <3>3. CASE past
      BY <1>18, <2>3, <2>6, <3>1, <3>2, <3>3
    <3>4. CASE ~past
      BY <1>18, <2>5, <2>6, <3>1, <3>2, <3>4
    <3>5. QED
      BY <3>3, <3>4
  <2>7. QED
    BY <1>21, <2>4, <2>6, EndingFacts
<1>31. ASSUME NEW c \in Client, CliReady(c) PROVE TypeOK'
  <2> DEFINE r == Head(toClient[c])
             m == [client[c] EXCEPT !.step = r.step, !.barrier = r.step, !.paused = FALSE,
                                    !.chk = SetChecklist(@, r.step, r.chk)]
  <2>1. toClient[c] # <<>> /\ r.kind = "ready"
    BY <1>31 DEF CliReady, CliHead
  <2>2. r.step \in Nat /\ r.chk \in World
    BY <1>23, <2>1, KindFacts DEF Ready
  <2>3. SetChecklist(client[c].chk, r.step, r.chk) \in [0 .. ChecklistCount - 1 -> World]
    BY <1>22, <2>2, RingFacts DEF Machine
  <2>4. m \in Machine
    BY <1>22, <2>2, <2>3 DEF Machine
  <2>5. \/ Leave(c, "map")
        \/ CliTake(c) /\ CliBecomes(c, m) /\ UNCHANGED <<toServer, lost>>
    BY <1>31 DEF CliReady
  <2> HIDE DEF m
  <2>6. CASE CliTake(c) /\ CliBecomes(c, m) /\ UNCHANGED <<toServer, lost>>
    <3>1. toServer' \in [Client -> Seq(ClientPacket)] /\ lost' \subseteq Client
      BY <2>6 DEF TypeOK
    <3>2. QED
      BY <1>18, <1>19, <2>1, <2>4, <2>6, <3>1
  <2>7. QED
    BY <1>21, <2>5, <2>6, EndingFacts
<1>32. ASSUME NEW c \in Client, CliEOF(c) PROVE TypeOK'
  BY <1>21, <1>32, EndingFacts DEF CliEOF
<1>33. ASSUME NEW c \in Client, NEW m \in Machine,
              Executes(c, m) /\ UNCHANGED <<toServer, lost>>, m.queue # <<>>
       PROVE  TypeOK'
  <2>1. Tail(m.queue) \in Seq(WorldCmd)
    BY <1>33 DEF Machine
  <2>2. [m EXCEPT !.queue = Tail(@)] \in Machine
    BY <2>1 DEF Machine
  <2>3. /\ toClient' \in [Client -> Seq(ServerPacket)]
        /\ toServer' \in [Client -> Seq(ClientPacket)] /\ lost' \subseteq Client
    BY <1>33 DEF Executes, TypeOK
  <2>4. QED
    BY <1>18, <1>33, <2>2, <2>3 DEF Executes
<1>34. ASSUME NEW c \in Client, NEW kind, CliExecute(c, kind)
       PROVE  /\ client[c].queue # <<>> /\ Head(client[c].queue) \in ServerPacket
              /\ Head(client[c].queue).kind = kind
  <2>1. client[c].queue \in Seq(WorldCmd)
    BY <1>22 DEF Machine
  <2>2. QED
    BY <1>34, <2>1 DEF CliExecute, Due, ServerPacket
<1>35. ASSUME NEW c \in Client, CliExecuteCheck(c) PROVE TypeOK'
  <2>1. \/ Leave(c, "desync")
        \/ Executes(c, client[c]) /\ UNCHANGED <<toServer, lost>>
    BY <1>35 DEF CliExecuteCheck
  <2>2. client[c].queue # <<>>
    BY <1>34, <1>35 DEF CliExecuteCheck
  <2>3. QED
    BY <1>21, <1>22, <1>33, <2>1, <2>2, EndingFacts
<1>36. ASSUME NEW c \in Client, CliExecuteTool(c) PROVE TypeOK'
  <2> DEFINE m == client[c]
             cmd == Head(m.queue)
             n == [m EXCEPT !.world = Append(@, Done(m.step, cmd.tool))]
  <2>1. \/ Leave(c, "late") \/ Leave(c, "desync")
        \/ Executes(c, m) /\ UNCHANGED <<toServer, lost>>
        \/ Executes(c, n) /\ UNCHANGED <<toServer, lost>>
    BY <1>36 DEF CliExecuteTool
  <2>2. m.queue # <<>> /\ cmd \in ToolCmd
    BY <1>34, <1>36, KindFacts DEF CliExecuteTool
  <2>3. Append(m.world, Done(m.step, cmd.tool)) \in World
    BY <1>22, <2>2, WorldFacts DEF Machine, ToolCmd
  <2>4. n \in Machine /\ n.queue = m.queue
    BY <1>22, <2>3 DEF Machine
  <2>5. CASE Executes(c, m) /\ UNCHANGED <<toServer, lost>>
    BY <1>22, <1>33, <2>2, <2>5
  <2> HIDE DEF n
  <2>6. CASE Executes(c, n) /\ UNCHANGED <<toServer, lost>>
    BY <1>33, <2>2, <2>4, <2>6
  <2>7. QED
    BY <1>21, <2>1, <2>5, <2>6, EndingFacts
<1>37. ASSUME NEW c \in Client, CliExecuteSync(c) PROVE TypeOK'
  <2> DEFINE m == client[c]
             cmd == Head(m.queue)
             n == [m EXCEPT !.world = Append(@, Done(m.step, Reload)), !.queue = <<>>,
                            !.paused = TRUE, !.barrier = m.step, !.map = cmd.newMap]
             r == ReadyPacket(m.step, cmd.newMap, LCHKLST(m.chk, m.step))
  <2>1. \/ Leave(c, "late")
        \/ Executes(c, m) /\ UNCHANGED <<toServer, lost>>
        \/ /\ CliBecomes(c, n)
           /\ toServer' = [toServer EXCEPT ![c] = Append(@, r)]
           /\ lost' = lost \/ lost' = lost \cup {c}
           /\ UNCHANGED toClient
    BY <1>37 DEF CliExecuteSync
  <2>2. m.queue # <<>> /\ cmd \in SyncCmd
    BY <1>34, <1>37, KindFacts DEF CliExecuteSync
  <2>3. m.step \in Nat /\ cmd.newMap \in Nat
    BY <1>22, <2>2 DEF Machine, SyncCmd
  <2>4. Append(m.world, Done(m.step, Reload)) \in World
    BY <1>22, <2>3, WorldFacts DEF Machine
  <2>5. n \in Machine
    <3>1. <<>> \in Seq(WorldCmd)
      OBVIOUS
    <3>2. ASSUME NEW x \in Machine, NEW w \in World, NEW q \in Seq(WorldCmd), NEW k \in Nat,
                 NEW b \in Nat, NEW p \in BOOLEAN
          PROVE  [x EXCEPT !.world = w, !.queue = q, !.paused = p, !.barrier = b, !.map = k]
                     \in Machine
      BY DEF Machine
    <3>3. TRUE \in BOOLEAN
      OBVIOUS
    <3>4. QED
      BY <1>22, <2>3, <2>4, <3>1, <3>2, <3>3
  <2>6. r \in ClientPacket
    <3>1. LCHKLST(m.chk, m.step) \in World
      BY <1>22, <2>3, RingFacts DEF Machine, World
    <3>2. QED
      BY <2>3, <3>1, PacketFacts
  <2> HIDE DEF n, r
  <2>7. CASE Executes(c, m) /\ UNCHANGED <<toServer, lost>>
    BY <1>22, <1>33, <2>2, <2>7
  <2>8. CASE /\ CliBecomes(c, n)
             /\ toServer' = [toServer EXCEPT ![c] = Append(@, r)]
             /\ lost' = lost \/ lost' = lost \cup {c}
             /\ UNCHANGED toClient
    <3>1. toServer' \in [Client -> Seq(ClientPacket)]
      BY <2>6, <2>8 DEF TypeOK
    <3>2. toClient' \in [Client -> Seq(ServerPacket)] /\ lost' \subseteq Client
      BY <2>8 DEF TypeOK
    <3>3. QED
      BY <1>18, <2>5, <2>8, <3>1, <3>2
  <2>9. QED
    BY <1>21, <2>1, <2>7, <2>8, EndingFacts
<1>38. ASSUME NEW c \in Client, CliFrame(c) PROVE TypeOK'
  <2> DEFINE m == client[c]
             n == [m EXCEPT !.step = @ + 1, !.chk = SetChecklist(@, m.step + 1, m.world)]
  <2>1. m.step + 1 \in Nat /\ m.world \in World /\ m.chk \in [0 .. ChecklistCount - 1 -> World]
    BY <1>22 DEF Machine
  <2>2. SetChecklist(m.chk, m.step + 1, m.world) \in [0 .. ChecklistCount - 1 -> World]
    BY <2>1, RingFacts
  <2>3. n \in Machine
    BY <1>22, <2>1, <2>2 DEF Machine
  <2>4. /\ toClient' \in [Client -> Seq(ServerPacket)]
        /\ toServer' \in [Client -> Seq(ClientPacket)] /\ lost' \subseteq Client
    BY <1>38 DEF CliFrame, TypeOK
  <2>5. CliBecomes(c, n)
    BY <1>38 DEF CliFrame
  <2>6. QED
    BY <1>18, <2>3, <2>4, <2>5
<1>39. ASSUME NEW c \in Client, NEW t \in Tool, CliTool(c, t) PROVE TypeOK'
  <2> DEFINE m == client[c]
             p == ToolPacket(m.step, m.map, t, m.step, LCHKLST(m.chk, m.step))
  <2>1. m.step \in Nat /\ m.map \in Nat /\ LCHKLST(m.chk, m.step) \in World
    BY <1>22, RingFacts DEF Machine, World
  <2>2. p \in ClientPacket
    BY <2>1, PacketFacts
  <2>3. toServer' = [toServer EXCEPT ![c] = Append(@, p)] /\ issued' = issued \cup {t}
    BY <1>39 DEF CliTool
  <2> HIDE DEF p
  <2>4. toServer' \in [Client -> Seq(ClientPacket)] /\ issued' \subseteq Tool
    BY <2>2, <2>3 DEF TypeOK
  <2>5. QED
    BY <1>39, <2>4 DEF CliTool, TypeOK
<1>40. ASSUME NEW c \in Client, CliQuit(c) PROVE TypeOK'
  <2>1. /\ client' \in [Client -> Machine]
        /\ toClient' \in [Client -> Seq(ServerPacket)]
        /\ toServer' \in [Client -> Seq(ClientPacket)]
        /\ why' \in [Client -> Ending]
    BY <1>20, <1>40, EndingFacts DEF CliQuit
  <2>2. tries' \in Nat
    BY <1>40 DEF CliQuit, TypeOK
  <2>3. QED
    BY <1>40, <2>1, <2>2 DEF CliQuit, TypeOK
<1>41. ASSUME NEW c \in Client, Diverge(c) PROVE TypeOK'
  <2>1. Append(client[c].world, Done(client[c].step, Glitch)) \in World
    BY <1>22, WorldFacts DEF Machine
  <2>2. [client[c] EXCEPT !.world = Append(@, Done(client[c].step, Glitch))] \in Machine
    BY <1>22, <2>1 DEF Machine
  <2>3. client' = [client EXCEPT ![c] =
            [client[c] EXCEPT !.world = Append(@, Done(client[c].step, Glitch))]]
    BY <1>41 DEF Diverge, TypeOK
  <2>4. client' \in [Client -> Machine]
    BY <2>2, <2>3 DEF TypeOK
  <2>5. glitches' \subseteq Client
    BY <1>41 DEF Diverge, TypeOK
  <2>6. QED
    BY <1>41, <2>4, <2>5 DEF Diverge, TypeOK
<1>42. QED
  BY <1>1, <1>6, <1>7, <1>8, <1>9, <1>10, <1>12, <1>13, <1>14, <1>15, <1>16, <1>17, <1>24, <1>25,
     <1>26, <1>27, <1>28, <1>29, <1>30, <1>31, <1>32, <1>35, <1>36, <1>37, <1>38, <1>39, <1>40,
     <1>41 DEF Next, SrvStep, SrvReceive, CliReceive, CliRun

\* The initial state has the types.
LEMMA TypeInit == Init => TypeOK
<1> SUFFICES ASSUME Init PROVE TypeOK
  OBVIOUS
<1>1. Outside("offline", 0) \in Machine
  BY OutsideFacts
<1>2. /\ client \in [Client -> Machine] /\ sChk \in [0 .. ChecklistCount - 1 -> World]
      /\ sWorld \in World /\ allMaps \in Seq(Nat)
  BY <1>1, NoChecklistsFacts DEF Init, World
<1>3. sPaused \in BOOLEAN /\ loop \in {"receive", "execute"}
  BY BoundsAssumption DEF Init
<1>4. QED
  BY <1>2, <1>3, EndingFacts DEF Init, TypeOK

\* Every variable of the network game keeps its type, in every run.
THEOREM TypeCorrect == Spec => []TypeOK
<1>1. QED
  BY TypeInit, TypeStep, PTL DEF Spec

-----------------------------------------------------------------------------
(* One connection. *)

\* Clocks and stamps are numbers.
LEMMA ClockFacts ==
    /\ \A p \in ServerPacket : /\ Clock(p) \in Nat /\ (Stamped(p) => p.step \in Nat)
                               /\ (p.kind = "ready" => p.step \in Nat /\ Clock(p) = p.step)
                               /\ (p.kind \in {"step", "tool", "sync", "check"} => p.step \in Nat)
    /\ \A p \in ClientPacket : p.kind = "ready" => p.step \in Nat
    /\ WorldCmd \subseteq ServerPacket /\ \A p \in WorldCmd : p.step \in Nat
<1>1. \A p \in ServerPacket : p.kind = "check" => p.srvStep \in Nat
  BY KindFacts DEF CheckCmd
<1>2. QED
  BY <1>1 DEF Clock, Stamped, ServerPacket, ClientPacket, WorldCmd, ToolCmd, SyncCmd, CheckCmd, Ready

\* A packet for everybody is queued: a command of the next step, or the news
\* of a new step.
LEMMA ChannelSend ==
    ASSUME NEW tc \in Seq(ServerPacket), NEW sq \in Seq(ServerPacket), NEW ts \in Seq(ClientPacket),
           NEW m \in Machine, NEW s \in Nat, NEW z \in Nat, s <= z,
           ChannelInv(tc, sq, ts, m, s), m.barrier <= s,
           NEW p \in ServerPacket, p.kind \in {"tool", "sync", "check", "step"},
           Clock(p) <= z, Stamped(p) => p.step > s
    PROVE  ChannelInv(tc, Append(sq, p), ts, m, z) /\ ChannelInv(tc, sq, ts, m, z)
<1> DEFINE aq == Append(sq, p)
<1>1. /\ DOMAIN aq = DOMAIN sq \cup {Len(sq) + 1} /\ aq[Len(sq) + 1] = p
      /\ \A i \in DOMAIN sq : aq[i] = sq[i] /\ i < Len(sq) + 1 /\ i \in Nat
      /\ Len(sq) \in Nat
  OBVIOUS
<1>2. /\ \A i \in DOMAIN tc : tc[i] \in ServerPacket
      /\ \A i \in DOMAIN sq : sq[i] \in ServerPacket
      /\ \A i \in DOMAIN ts : ts[i] \in ClientPacket
      /\ m.barrier \in Nat
  BY DEF Machine
<1> HIDE DEF aq
<1>3. StreamInv(tc, m.barrier, z) /\ StreamInv(sq, m.barrier, z)
  BY <1>2, ClockFacts DEF ChannelInv, StreamInv
<1>4. StreamInv(aq, m.barrier, z)
  <2>1. \A i \in DOMAIN aq : Clock(aq[i]) <= z /\ (Stamped(aq[i]) => aq[i].step > m.barrier)
    BY <1>1, <1>2, <1>3, ClockFacts DEF StreamInv
  <2>2. ASSUME NEW i \in DOMAIN aq, NEW j \in DOMAIN aq, i < j, Stamped(aq[j])
        PROVE  Clock(aq[i]) < aq[j].step
    <3>1. i \in DOMAIN sq /\ Clock(aq[i]) = Clock(sq[i]) /\ Clock(sq[i]) <= s /\ Clock(sq[i]) \in Nat
      BY <1>1, <1>2, <2>2, ClockFacts DEF ChannelInv, StreamInv
    <3>2. CASE j \in DOMAIN sq
      BY <1>1, <2>2, <3>1, <3>2 DEF ChannelInv, StreamInv
    <3>3. CASE j = Len(sq) + 1
      BY <1>1, <2>2, <3>1, <3>3, ClockFacts
    <3>4. QED
      BY <1>1, <3>2, <3>3
  <2>3. QED
    BY <2>1, <2>2 DEF StreamInv
<1>5. ASSUME NEW r \in Nat, r <= s, Below(r, sq) PROVE Below(r, aq)
  BY <1>1, <1>2, <1>5, ClockFacts DEF Below
<1>6. /\ \A i \in DOMAIN tc : Below(Clock(tc[i]), aq)
      /\ \A i \in DOMAIN aq : aq[i].kind \in {"tool", "sync", "check", "step"}
  BY <1>1, <1>2, <1>5, ClockFacts DEF ChannelInv, StreamInv
<1>7. \A i \in DOMAIN ts : ts[i].kind = "ready" => ts[i].step <= z /\ Below(ts[i].step, aq)
  BY <1>2, <1>5, ClockFacts DEF ChannelInv
<1>8. QED
  BY <1>3, <1>4, <1>6, <1>7 DEF ChannelInv, aq

\* The send queue is emptied into the wire.
LEMMA ChannelFlush ==
    ASSUME NEW tc \in Seq(ServerPacket), NEW sq \in Seq(ServerPacket), NEW ts \in Seq(ClientPacket),
           NEW m \in Machine, NEW s \in Nat, ChannelInv(tc, sq, ts, m, s)
    PROVE  ChannelInv(tc \o sq, <<>>, ts, m, s)
<1> DEFINE w == tc \o sq
<1>1. /\ Len(tc) \in Nat /\ Len(sq) \in Nat /\ DOMAIN tc = 1 .. Len(tc) /\ DOMAIN sq = 1 .. Len(sq)
      /\ DOMAIN w = 1 .. Len(tc) + Len(sq)
      /\ \A i \in DOMAIN w : \/ i \in DOMAIN tc /\ w[i] = tc[i]
                             \/ i > Len(tc) /\ i - Len(tc) \in DOMAIN sq /\ w[i] = sq[i - Len(tc)]
  OBVIOUS
<1> HIDE DEF w
<1>2. StreamInv(w, m.barrier, s)
  <2>1. \A i \in DOMAIN w : Clock(w[i]) <= s /\ (Stamped(w[i]) => w[i].step > m.barrier)
    BY <1>1 DEF ChannelInv, StreamInv
  <2>2. ASSUME NEW i \in DOMAIN w, NEW j \in DOMAIN w, i < j, Stamped(w[j])
        PROVE  Clock(w[i]) < w[j].step
    <3>1. CASE j \in DOMAIN tc /\ w[j] = tc[j]
      <4>1. i \in DOMAIN tc /\ w[i] = tc[i]
        BY <1>1, <2>2, <3>1
      <4>2. QED
        BY <2>2, <3>1, <4>1 DEF ChannelInv, StreamInv
    <3>2. CASE j > Len(tc) /\ j - Len(tc) \in DOMAIN sq /\ w[j] = sq[j - Len(tc)]
      <4>1. CASE i \in DOMAIN tc /\ w[i] = tc[i]
        BY <2>2, <3>2, <4>1 DEF ChannelInv, Below
      <4>2. CASE i > Len(tc) /\ i - Len(tc) \in DOMAIN sq /\ w[i] = sq[i - Len(tc)]
        <5>1. i - Len(tc) < j - Len(tc)
          BY <1>1, <2>2
        <5>2. QED
          BY <2>2, <3>2, <4>2, <5>1 DEF ChannelInv, StreamInv
      <4>3. QED
        BY <1>1, <4>1, <4>2
    <3>3. QED
      BY <1>1, <3>1, <3>2
  <2>3. QED
    BY <2>1, <2>2 DEF StreamInv
<1>3. ASSUME NEW r, Below(r, tc), Below(r, sq) PROVE Below(r, w)
  BY <1>1, <1>3 DEF Below
<1>4. \A i \in DOMAIN ts : ts[i].kind = "ready" =>
         ts[i].step <= s /\ Below(ts[i].step, w) /\ NotAbove(ts[i].step, m.queue)
  BY <1>3 DEF ChannelInv
<1>5. ASSUME NEW i \in DOMAIN w, w[i].kind = "ready"
      PROVE  \/ i > 1 /\ w[i - 1].kind = "game"
             \/ Below(w[i].step, w) /\ NotAbove(w[i].step, m.queue)
  <2>1. i \in DOMAIN tc /\ w[i] = tc[i]
    BY <1>1, <1>5 DEF ChannelInv
  <2>2. CASE i > 1 /\ tc[i - 1].kind = "game"
    <3>1. i - 1 \in DOMAIN tc /\ i - 1 \in DOMAIN w /\ ~(i - 1 > Len(tc))
      BY <1>1, <2>1, <2>2
    <3>2. QED
      BY <1>1, <2>2, <3>1
  <2>3. CASE Below(tc[i].step, tc) /\ NotAbove(tc[i].step, m.queue)
    <3>1. tc[i].kind = "ready" /\ Clock(tc[i]) = tc[i].step
      BY <1>5, <2>1 DEF Clock
    <3>2. Below(tc[i].step, sq)
      BY <2>1, <3>1 DEF ChannelInv
    <3>3. QED
      BY <1>3, <2>1, <2>3, <3>2
  <2>4. QED
    BY <1>5, <2>1, <2>2, <2>3 DEF ChannelInv
<1>6. StreamInv(<<>>, m.barrier, s) /\ \A r : Below(r, <<>>)
  BY DEF StreamInv, Below
<1>7. \A i \in DOMAIN ts : ts[i].kind = "ready" =>
         /\ ts[i].step <= s
         /\ Below(ts[i].step, w) /\ Below(ts[i].step, <<>>) /\ NotAbove(ts[i].step, m.queue)
  BY <1>4, <1>6
<1>8. \A i \in DOMAIN w : Below(Clock(w[i]), <<>>)
  BY <1>6
<1>9. DOMAIN <<>> = {}
  OBVIOUS
<1>10. ChannelInv(w, <<>>, ts, m, s)
  BY <1>2, <1>5, <1>6, <1>7, <1>8, <1>9 DEF ChannelInv
<1>11. QED
  BY <1>10 DEF w

\* The server reads a packet of the client; a connection loses what is queued or
\* under way.
LEMMA ChannelLoses ==
    ASSUME NEW tc \in Seq(ServerPacket), NEW sq \in Seq(ServerPacket), NEW ts \in Seq(ClientPacket),
           NEW m \in Machine, NEW s \in Nat, ChannelInv(tc, sq, ts, m, s)
    PROVE  /\ ts # <<>> => ChannelInv(tc, sq, Tail(ts), m, s)
           /\ ChannelInv(tc, <<>>, <<>>, m, s)
           /\ ChannelInv(<<>>, sq, <<>>, m, s)
           /\ ChannelInv(<<>>, sq, ts, m, s)
<1>1. ts # <<>> => \A i \in DOMAIN Tail(ts) : i + 1 \in DOMAIN ts /\ Tail(ts)[i] = ts[i + 1]
  BY TailFacts
<1>2. StreamInv(<<>>, m.barrier, s) /\ \A r : Below(r, <<>>)
  BY DEF StreamInv, Below
<1>3. ts # <<>> => ChannelInv(tc, sq, Tail(ts), m, s)
  BY <1>1 DEF ChannelInv
<1>4. ChannelInv(tc, <<>>, <<>>, m, s) /\ ChannelInv(<<>>, sq, <<>>, m, s)
  BY <1>2 DEF ChannelInv
<1>5. ChannelInv(<<>>, sq, ts, m, s)
  BY <1>2 DEF ChannelInv
<1>6. QED
  BY <1>3, <1>4, <1>5

\* A packet that bypasses the send queue: it tells a clock behind every stamp
\* still queued, its own stamp is ahead of the server's step, and an NWC_READY
\* is the echo of one that was under way, or follows the game.
LEMMA ChannelDirect ==
    ASSUME NEW tc \in Seq(ServerPacket), NEW sq \in Seq(ServerPacket), NEW ts \in Seq(ClientPacket),
           NEW m \in Machine, NEW s \in Nat, ChannelInv(tc, sq, ts, m, s), m.barrier <= s,
           NEW p \in ServerPacket, Clock(p) <= s, Stamped(p) => p.step > s, Below(Clock(p), sq),
           p.kind = "ready" => \/ Len(tc) > 0 /\ tc[Len(tc)].kind = "game"
                               \/ Below(p.step, tc) /\ NotAbove(p.step, m.queue)
    PROVE  ChannelInv(Append(tc, p), sq, ts, m, s)
<1> DEFINE w == Append(tc, p)
<1>1. /\ DOMAIN w = DOMAIN tc \cup {Len(tc) + 1} /\ w[Len(tc) + 1] = p
      /\ \A i \in DOMAIN tc : w[i] = tc[i] /\ i < Len(tc) + 1 /\ i \in Nat
      /\ Len(tc) \in Nat /\ DOMAIN tc = 1 .. Len(tc)
  OBVIOUS
<1>2. /\ \A i \in DOMAIN tc : tc[i] \in ServerPacket
      /\ \A i \in DOMAIN ts : ts[i] \in ClientPacket
      /\ m.barrier \in Nat
  BY DEF Machine
<1>3. /\ \A i \in DOMAIN tc : Clock(tc[i]) \in Nat /\ Clock(tc[i]) <= s
      /\ Stamped(p) => p.step \in Nat
  BY <1>2, ClockFacts DEF ChannelInv, StreamInv
<1> HIDE DEF w
<1>4. StreamInv(w, m.barrier, s)
  <2>1. \A i \in DOMAIN w : Clock(w[i]) <= s /\ (Stamped(w[i]) => w[i].step > m.barrier)
    BY <1>1, <1>2, <1>3 DEF ChannelInv, StreamInv
  <2>2. ASSUME NEW i \in DOMAIN w, NEW j \in DOMAIN w, i < j, Stamped(w[j])
        PROVE  Clock(w[i]) < w[j].step
    <3>1. i \in DOMAIN tc /\ w[i] = tc[i]
      BY <1>1, <2>2
    <3>2. CASE j \in DOMAIN tc
      BY <1>1, <2>2, <3>1, <3>2 DEF ChannelInv, StreamInv
    <3>3. CASE j = Len(tc) + 1
      BY <1>1, <1>3, <2>2, <3>1, <3>3
    <3>4. QED
      BY <1>1, <3>2, <3>3
  <2>3. QED
    BY <2>1, <2>2 DEF StreamInv
<1>5. ASSUME NEW r \in Nat, r <= s, Below(r, tc) PROVE Below(r, w)
  BY <1>1, <1>3, <1>5 DEF Below
<1>6. \A i \in DOMAIN w : Below(Clock(w[i]), sq)
  BY <1>1 DEF ChannelInv
<1>7. \A i \in DOMAIN ts : ts[i].kind = "ready" => Below(ts[i].step, w)
  BY <1>2, <1>5, ClockFacts DEF ChannelInv
<1>8. ASSUME NEW i \in DOMAIN w, w[i].kind = "ready"
      PROVE  \/ i > 1 /\ w[i - 1].kind = "game"
             \/ Below(w[i].step, w) /\ NotAbove(w[i].step, m.queue)
  <2>1. CASE i \in DOMAIN tc
    <3>1. w[i] = tc[i] /\ tc[i].step \in Nat /\ tc[i].step <= s
      BY <1>1, <1>2, <1>3, <1>8, <2>1, ClockFacts
    <3>2. i > 1 => w[i - 1] = tc[i - 1]
      BY <1>1, <2>1
    <3>3. QED
      BY <1>5, <1>8, <2>1, <3>1, <3>2 DEF ChannelInv
  <2>2. CASE i = Len(tc) + 1
    <3>1. w[i] = p /\ p.step \in Nat /\ p.step <= s
      BY <1>1, <1>8, <2>2, ClockFacts
    <3>2. Len(tc) > 0 => i > 1 /\ w[i - 1] = tc[Len(tc)]
      <4>1. Len(tc) > 0 => Len(tc) \in DOMAIN tc /\ i - 1 = Len(tc) /\ i > 1
        BY <1>1, <2>2
      <4>2. QED
        BY <1>1, <4>1
    <3>3. QED
      BY <1>5, <1>8, <3>1, <3>2
  <2>3. QED
    BY <1>1, <2>1, <2>2
<1>9. QED
  BY <1>4, <1>6, <1>7, <1>8 DEF ChannelInv, w

\* The client forgets commands, and what it knew of the server's step.
LEMMA ChannelForgets ==
    ASSUME NEW tc \in Seq(ServerPacket), NEW sq \in Seq(ServerPacket), NEW ts \in Seq(ClientPacket),
           NEW m \in Machine, NEW s \in Nat, ChannelInv(tc, sq, ts, m, s),
           NEW n \in Machine, n.barrier <= m.barrier,
           \A i \in DOMAIN n.queue : \E j \in DOMAIN m.queue : n.queue[i] = m.queue[j]
    PROVE  ChannelInv(tc, sq, ts, n, s)
<1>1. ASSUME NEW q \in Seq(ServerPacket), StreamInv(q, m.barrier, s)
      PROVE  StreamInv(q, n.barrier, s)
  <2>1. n.barrier \in Nat /\ m.barrier \in Nat
    BY DEF Machine
  <2>2. \A i \in DOMAIN q : Stamped(q[i]) => q[i].step \in Nat
    BY ClockFacts
  <2>3. \A i \in DOMAIN q : Stamped(q[i]) => q[i].step > n.barrier
    BY <1>1, <2>1, <2>2 DEF StreamInv
  <2>4. QED
    BY <1>1, <2>3 DEF StreamInv
<1>2. \A r : NotAbove(r, m.queue) => NotAbove(r, n.queue)
  BY DEF NotAbove
<1>3. QED
  BY <1>1, <1>2 DEF ChannelInv

\* The client reads a packet: its barrier moves to the clock of the packet or
\* stays, its queue may get the packet.
LEMMA ChannelHears ==
    ASSUME NEW tc \in Seq(ServerPacket), NEW sq \in Seq(ServerPacket), NEW ts \in Seq(ClientPacket),
           NEW m \in Machine, NEW s \in Nat, ChannelInv(tc, sq, ts, m, s), tc # <<>>,
           NEW n \in Machine, n.barrier = m.barrier \/ n.barrier = Clock(Head(tc)),
           \A i \in DOMAIN n.queue : \/ n.queue[i] = Head(tc)
                                     \/ \E j \in DOMAIN m.queue : n.queue[i] = m.queue[j],
           Head(tc).kind = "game" => n.queue = <<>>
    PROVE  ChannelInv(Tail(tc), sq, ts, n, s)
<1> DEFINE w == Tail(tc)
           h == Head(tc)
<1>1. /\ h = tc[1] /\ 1 \in DOMAIN tc /\ h \in ServerPacket
      /\ \A i \in DOMAIN w : i + 1 \in DOMAIN tc /\ w[i] = tc[i + 1] /\ i \in Nat /\ i > 0
      /\ \A i \in DOMAIN tc : tc[i] \in ServerPacket /\ i \in Nat /\ i > 0
      /\ \A i \in DOMAIN w : i - 1 > 0 => i - 1 \in DOMAIN w
  OBVIOUS
<1>2. \A i \in DOMAIN sq : sq[i] \in ServerPacket
  OBVIOUS
<1> HIDE DEF w, h
<1>3. Below(Clock(h), w) /\ Below(Clock(h), sq)
  <2>1. \A i \in DOMAIN w : Stamped(w[i]) => Clock(tc[1]) < tc[i + 1].step
    BY <1>1 DEF ChannelInv, StreamInv
  <2>2. QED
    BY <1>1, <2>1 DEF ChannelInv, Below
<1>4. Below(n.barrier, w) /\ Below(n.barrier, sq)
  <2>1. Below(m.barrier, w) /\ Below(m.barrier, sq)
    <3>1. m.barrier \in Nat
      BY DEF Machine
    <3>2. QED
      BY <1>1, <1>2, <3>1, ClockFacts DEF ChannelInv, StreamInv, Below
  <2>2. QED
    BY <1>3, <2>1 DEF h
<1>5. StreamInv(w, n.barrier, s) /\ StreamInv(sq, n.barrier, s)
  <2>1. \A i \in DOMAIN w : Clock(w[i]) <= s
    BY <1>1 DEF ChannelInv, StreamInv
  <2>2. ASSUME NEW i \in DOMAIN w, NEW j \in DOMAIN w, i < j, Stamped(w[j])
        PROVE Clock(w[i]) < w[j].step
    <3>1. i + 1 < j + 1
      BY <1>1, <2>2
    <3>2. QED
      BY <1>1, <2>2, <3>1 DEF ChannelInv, StreamInv
  <2>3. n.barrier \in Nat
    BY DEF Machine
  <2>4. StreamInv(w, n.barrier, s)
    BY <1>1, <1>4, <2>1, <2>2, <2>3, ClockFacts DEF StreamInv, Below
  <2>5. StreamInv(sq, n.barrier, s)
    BY <1>2, <1>4, <2>3, ClockFacts DEF StreamInv, Below, ChannelInv
  <2>6. QED
    BY <2>4, <2>5
<1>6. ASSUME NEW r \in Nat, Below(r, tc), NotAbove(r, m.queue) PROVE Below(r, w) /\ NotAbove(r, n.queue)
  <2>1. Below(r, w)
    BY <1>1, <1>6 DEF Below
  <2>2. Stamped(h) => r <= h.step
    BY <1>1, <1>6, ClockFacts DEF Below
  <2>3. QED
    BY <1>6, <2>1, <2>2 DEF NotAbove, h
<1>7. \A i \in DOMAIN ts : ts[i].kind = "ready" => Below(ts[i].step, w) /\ NotAbove(ts[i].step, n.queue)
  <2>1. \A i \in DOMAIN ts : ts[i].kind = "ready" => ts[i].step \in Nat
    BY ClockFacts
  <2>2. QED
    BY <1>6, <2>1 DEF ChannelInv
<1>8. ASSUME NEW i \in DOMAIN w, w[i].kind = "ready"
      PROVE  \/ i > 1 /\ w[i - 1].kind = "game"
             \/ Below(w[i].step, w) /\ NotAbove(w[i].step, n.queue)
  <2>1. PICK k \in DOMAIN tc : k = i + 1
    BY <1>1
  <2>2. /\ w[i] = tc[k] /\ tc[k].kind = "ready" /\ k - 1 = i /\ i \in Nat /\ i > 0
        /\ w[i].step \in Nat /\ Clock(w[i]) = w[i].step
    <3>1. /\ w[i] = tc[k] /\ tc[k].kind = "ready"
          /\ i \in Nat /\ i > 0 /\ tc[k] \in ServerPacket
      BY <1>1, <1>8, <2>1
    <3>2. k - 1 = i
      BY <2>1, <3>1
    <3>3. QED
      BY <3>1, <3>2, ClockFacts
  <2>3. CASE tc[k - 1].kind = "game"
    <3>1. CASE i > 1
      <4>1. i - 1 \in DOMAIN w /\ w[i - 1] = tc[i - 1 + 1] /\ i - 1 + 1 = i
        BY <1>1, <3>1
      <4>2. QED
        BY <2>2, <2>3, <3>1, <4>1
    <3>2. CASE ~(i > 1)
      <4>1. i = 1 /\ n.queue = <<>>
        <5>1. i = 1
          BY <2>2, <3>2
        <5>2. QED
          BY <1>1, <2>2, <2>3, <5>1 DEF h
      <4>2. NotAbove(w[i].step, n.queue)
        BY <4>1 DEF NotAbove
      <4>3. ASSUME NEW j \in DOMAIN w, Stamped(w[j]) PROVE w[1].step < w[j].step
        <5>1. j # 1
          BY <1>8, <4>1, <4>3 DEF Stamped
        <5>2. k < j + 1 /\ j + 1 \in DOMAIN tc /\ w[j] = tc[j + 1]
          BY <1>1, <2>1, <4>1, <5>1
        <5>3. QED
          BY <2>2, <4>1, <4>3, <5>2 DEF ChannelInv, StreamInv
      <4>4. QED
        BY <4>1, <4>2, <4>3 DEF Below
    <3>3. QED
      BY <3>1, <3>2
  <2>4. CASE Below(tc[k].step, tc) /\ NotAbove(tc[k].step, m.queue)
    BY <1>6, <2>2, <2>4
  <2>5. QED
    BY <2>2, <2>3, <2>4 DEF ChannelInv
<1>9. \A i \in DOMAIN w : Below(Clock(w[i]), sq)
  BY <1>1 DEF ChannelInv
<1>10. QED
  BY <1>5, <1>7, <1>8, <1>9 DEF ChannelInv, w

\* The client sends a packet.  An NWC_READY tells a step it has not passed, and
\* has no more commands for.
LEMMA ChannelSays ==
    ASSUME NEW tc \in Seq(ServerPacket), NEW sq \in Seq(ServerPacket), NEW ts \in Seq(ClientPacket),
           NEW m \in Machine, NEW s \in Nat, ChannelInv(tc, sq, ts, m, s), m.barrier <= s,
           NEW p \in ClientPacket,
           p.kind = "ready" => p.step <= m.barrier /\ NotAbove(p.step, m.queue)
    PROVE  ChannelInv(tc, sq, Append(ts, p), m, s)
<1> DEFINE w == Append(ts, p)
<1>1. /\ DOMAIN w = DOMAIN ts \cup {Len(ts) + 1} /\ w[Len(ts) + 1] = p
      /\ \A i \in DOMAIN ts : w[i] = ts[i]
  OBVIOUS
<1> HIDE DEF w
<1>2. ASSUME p.kind = "ready"
      PROVE  p.step <= s /\ Below(p.step, tc) /\ Below(p.step, sq)
  <2>1. p.step \in Nat /\ m.barrier \in Nat
    BY <1>2, ClockFacts DEF Machine
  <2>2. (\A i \in DOMAIN tc : tc[i] \in ServerPacket) /\ \A i \in DOMAIN sq : sq[i] \in ServerPacket
    OBVIOUS
  <2>3. QED
    BY <1>2, <2>1, <2>2, ClockFacts DEF ChannelInv, StreamInv, Below
<1>3. \A i \in DOMAIN w : w[i].kind = "ready" =>
           /\ w[i].step <= s
           /\ Below(w[i].step, tc) /\ Below(w[i].step, sq) /\ NotAbove(w[i].step, m.queue)
  BY <1>1, <1>2 DEF ChannelInv
<1>4. QED
  BY <1>3 DEF ChannelInv, w

-----------------------------------------------------------------------------
(* One step. *)

\* A client nothing happens to.
LEMMA Unaffected ==
    ASSUME NEW c \in Client, ClientInv(c), sStep' = sStep,
           toClient'[c] = toClient[c], sendq'[c] = sendq[c], toServer'[c] = toServer[c],
           client'[c] = client[c], why'[c] = why[c]
    PROVE  ClientInv(c)'
  BY DEF ClientInv

\* A connection is made of sequences of packets and of a machine.
LEMMA ClientTypes ==
    ASSUME TypeOK, NEW c \in Client
    PROVE  /\ toClient[c] \in Seq(ServerPacket) /\ sendq[c] \in Seq(ServerPacket)
           /\ toServer[c] \in Seq(ClientPacket) /\ client[c] \in Machine
           /\ client[c].step \in Nat /\ client[c].barrier \in Nat
           /\ client[c].queue \in Seq(WorldCmd) /\ sStep \in Nat
  BY DEF TypeOK, Machine

\* A command for everybody is behind every command, and every clock, on its way.
LEMMA BroadcastFacts ==
    ASSUME TypeOK, ServerInv, NEW cmd \in WorldCmd, cmd.step = sStep + 1, Stamped(cmd),
           Broadcast(cmd)
    PROVE  /\ Sorted(sQueue') /\ \A i \in DOMAIN sQueue' : sQueue'[i].step >= sStep
           /\ \A c \in Client : \A tc \in Seq(ServerPacket) : \A ts \in Seq(ClientPacket) :
                 /\ client[c].barrier <= sStep
                 /\ ChannelInv(tc, sendq[c], ts, client[c], sStep)
                 => ChannelInv(tc, sendq'[c], ts, client[c], sStep)
<1>1. sQueue \in Seq(WorldCmd) /\ sQueue' = CommandQueueAppend(sQueue, cmd) /\ sStep \in Nat
  BY DEF Broadcast, TypeOK
<1>2. Sorted(sQueue')
  BY <1>1, QueueAppendFacts DEF ServerInv
<1>3. ASSUME NEW i \in DOMAIN sQueue' PROVE sQueue'[i].step >= sStep
  <2>1. sQueue'[i] = cmd \/ \E j \in DOMAIN sQueue : sQueue'[i] = sQueue[j]
    BY <1>1, QueueAppendFacts
  <2>2. QED
    BY <1>1, <2>1 DEF ServerInv
<1>4. cmd \in ServerPacket /\ Clock(cmd) <= sStep /\ cmd.kind \in {"tool", "sync", "check", "step"}
  BY <1>1, ClockFacts DEF Clock, Stamped
<1>5. ASSUME NEW c \in Client, NEW tc \in Seq(ServerPacket), NEW ts \in Seq(ClientPacket),
             client[c].barrier <= sStep, ChannelInv(tc, sendq[c], ts, client[c], sStep)
      PROVE  ChannelInv(tc, sendq'[c], ts, client[c], sStep)
  <2>1. sendq'[c] = sendq[c] \/ sendq'[c] = Append(sendq[c], cmd)
    BY DEF Broadcast, SendAll
  <2>2. ChannelInv(tc, Append(sendq[c], cmd), ts, client[c], sStep)
    BY <1>1, <1>4, <1>5, ClientTypes, ChannelSend
  <2>3. QED
    BY <1>5, <2>1, <2>2
<1>6. QED
  BY <1>2, <1>3, <1>5

\* A connection is closed by the server.
LEMMA RemoveClientStep ==
    ASSUME TypeOK, LockstepInv, NEW c \in Client, RemoveClient(c),
           \A d \in Client : why'[d] # "late"
    PROVE  LockstepInv'
<1>1. ServerInv'
  BY DEF RemoveClient, LockstepInv, ServerInv, TypeOK
<1>2. /\ toClient'[c] = Append(toClient[c], EOF) /\ sendq'[c] = <<>> /\ toServer'[c] = <<>>
      /\ client' = client /\ sStep' = sStep
      /\ \A d \in Client \ {c} : /\ toClient'[d] = toClient[d] /\ sendq'[d] = sendq[d]
                                 /\ toServer'[d] = toServer[d]
  BY DEF RemoveClient, TypeOK
<1>3. ClientInv(c)'
  <2>1. ChannelInv(toClient[c], <<>>, <<>>, client[c], sStep) /\ client[c].barrier <= sStep
    BY ClientTypes, ChannelLoses DEF LockstepInv, ClientInv, MachineInv
  <2>2. EOF \in ServerPacket /\ Clock(EOF) = 0 /\ ~Stamped(EOF) /\ EOF.kind # "ready"
    BY DEF EOF, ServerPacket, Clock, Stamped
  <2>3. /\ Below(Clock(EOF), <<>>) /\ Clock(EOF) <= sStep
        /\ <<>> \in Seq(ServerPacket) /\ <<>> \in Seq(ClientPacket)
    BY <2>2, ClientTypes DEF Below
  <2>4. ChannelInv(Append(toClient[c], EOF), <<>>, <<>>, client[c], sStep)
    BY <2>1, <2>2, <2>3, ClientTypes, ChannelDirect
  <2>5. QED
    BY <1>2, <2>4 DEF LockstepInv, ClientInv
<1>4. \A d \in Client \ {c} : ClientInv(d)'
  BY <1>2 DEF LockstepInv, ClientInv
<1>5. QED
  BY <1>1, <1>3, <1>4 DEF LockstepInv

\* The server reloads the world, and sends it to a joining client.
LEMMA ReloadStep ==
    ASSUME TypeOK, TypeOK', LockstepInv, NEW c \in Client \cup {NoClient}, NEW newMap \in Nat,
           SrvReload(c, newMap), c = NoClient \/ loop = "execute"
    PROVE  LockstepInv'
<1>1. ServerInv'
  <2>1. sQueue' = <<>> /\ sStep' = sStep /\ loop' = loop /\ sendq' = sendq
    BY DEF SrvReload
  <2>2. Sorted(<<>>)
    BY DEF Sorted
  <2>3. QED
    BY <2>1, <2>2 DEF LockstepInv, ServerInv
<1>2. sStep' = sStep /\ sendq' = sendq /\ toServer' = toServer /\ client' = client /\ why' = why
  BY DEF SrvReload
<1>3. CASE toClient' = toClient
  BY <1>1, <1>2, <1>3 DEF LockstepInv, ClientInv
<1>4. CASE toClient' # toClient
  <2> DEFINE game == [kind |-> "game", world |-> sWorld']
             ready == ReadyPacket(sStep, newMap, LCHKLST(sChk, sStep))
             tc == toClient[c]
             sq == sendq[c]
             ts == toServer[c]
             m == client[c]
  <2>1. c \in Client /\ toClient' = [toClient EXCEPT ![c] = @ \o <<game, ready>>]
    BY <1>4 DEF SrvReload
  <2>2. game \in ServerPacket /\ ready \in ServerPacket
    <3>1. LCHKLST(sChk, sStep) \in World /\ sWorld' \in World /\ sStep \in Nat
      BY RingFacts DEF TypeOK, World
    <3>2. QED
      BY <3>1, PacketFacts
  <2>3. game.kind = "game" /\ ready.kind = "ready" /\ ready.step = sStep
    BY DEF ReadyPacket
  <2>4. /\ tc \in Seq(ServerPacket) /\ sq \in Seq(ServerPacket) /\ ts \in Seq(ClientPacket)
        /\ m \in Machine /\ sStep \in Nat /\ ChannelInv(tc, sq, ts, m, sStep)
        /\ m.barrier <= sStep /\ sq = <<>>
    <3>1. loop = "execute"
      BY <2>1, BoundsAssumption
    <3>2. QED
      BY <2>1, <3>1, ClientTypes DEF LockstepInv, ClientInv, MachineInv, ServerInv
  <2>5. /\ toClient'[c] = Append(Append(tc, game), ready)
        /\ \A d \in Client \ {c} : toClient'[d] = toClient[d]
    <3>1. tc \o <<game, ready>> = Append(Append(tc, game), ready)
      BY <2>2, <2>4
    <3>2. QED
      BY <2>1, <3>1 DEF TypeOK
  <2> HIDE DEF game, ready, tc, sq, ts, m
  <2>6. ChannelInv(Append(tc, game), sq, ts, m, sStep)
    <3>1. Clock(game) = 0 /\ ~Stamped(game) /\ game.kind # "ready"
      BY <2>3 DEF Clock, Stamped
    <3>2. Clock(game) <= sStep /\ Below(Clock(game), sq)
      BY <2>4, <3>1 DEF Below
    <3>3. QED
      BY <2>2, <2>4, <3>1, <3>2, ChannelDirect
  <2>7. ChannelInv(Append(Append(tc, game), ready), sq, ts, m, sStep)
    <3> DEFINE w == Append(tc, game)
    <3>1. w \in Seq(ServerPacket) /\ Len(w) > 0 /\ w[Len(w)] = game
      BY <2>2, <2>4
    <3> HIDE DEF w
    <3>2. Clock(ready) <= sStep /\ ~Stamped(ready) /\ Below(Clock(ready), sq)
      BY <2>3, <2>4 DEF Clock, Stamped, Below
    <3>3. ChannelInv(w, sq, ts, m, sStep)
      BY <2>6 DEF w
    <3>4. ChannelInv(Append(w, ready), sq, ts, m, sStep)
      BY <2>2, <2>3, <2>4, <3>1, <3>2, <3>3, ChannelDirect
    <3>5. QED
      BY <3>4 DEF w
  <2>8. ClientInv(c)'
    BY <1>2, <2>1, <2>5, <2>7 DEF LockstepInv, ClientInv, tc, sq, ts, m
  <2>9. \A d \in Client \ {c} : ClientInv(d)'
    BY <1>2, <2>5 DEF LockstepInv, ClientInv
  <2>10. QED
    BY <1>1, <2>8, <2>9 DEF LockstepInv
<1>5. QED
  BY <1>3, <1>4

\* A client's connection ends.
LEMMA LeaveStep ==
    ASSUME TypeOK, TypeOK', LockstepInv, NEW c \in Client, NEW reason \in {"ok", "desync", "map"},
           LeaveNow(c, reason), UNCHANGED serverVars, UNCHANGED sendq
    PROVE  LockstepInv'
<1>1. /\ toClient'[c] = <<>> /\ toServer'[c] = Append(toServer[c], EOF)
      /\ client'[c] = Outside("offline", 0) /\ why'[c] # "late"
      /\ \A d \in Client \ {c} : /\ toClient'[d] = toClient[d] /\ toServer'[d] = toServer[d]
                                 /\ client'[d] = client[d] /\ why'[d] = why[d]
  BY DEF LeaveNow, TypeOK, LockstepInv, ClientInv
<1>2. sStep' = sStep /\ sendq' = sendq /\ sQueue' = sQueue /\ loop' = loop
  BY DEF serverVars
<1>3. ServerInv'
  BY <1>2 DEF LockstepInv, ServerInv
<1>4. \A d \in Client \ {c} : ClientInv(d)'
  BY <1>1, <1>2 DEF LockstepInv, ClientInv
<1>5. ClientInv(c)'
  <2> DEFINE n == Outside("offline", 0)
  <2>1. n \in Machine /\ n.barrier = 0 /\ n.step = 0 /\ n.queue = <<>> /\ n.state # "ingame"
    BY OutsideFacts DEF Outside, Reset
  <2> HIDE DEF n
  <2>2. ChannelInv(<<>>, sendq[c], toServer[c], client[c], sStep)
    BY ClientTypes, ChannelLoses DEF LockstepInv, ClientInv
  <2>3. n.barrier <= client[c].barrier /\ n.barrier <= sStep /\ <<>> \in Seq(ServerPacket)
    BY <2>1, ClientTypes
  <2>4. ChannelInv(<<>>, sendq[c], toServer[c], n, sStep)
    <3>1. \A i \in DOMAIN n.queue : \E j \in DOMAIN client[c].queue : n.queue[i] = client[c].queue[j]
      BY <2>1
    <3>2. QED
      BY <2>1, <2>2, <2>3, <3>1, ClientTypes, ChannelForgets
  <2>5. EOF \in ClientPacket /\ EOF.kind # "ready"
    BY DEF EOF, ClientPacket
  <2>6. ChannelInv(<<>>, sendq[c], Append(toServer[c], EOF), n, sStep)
    BY <2>1, <2>3, <2>4, <2>5, ClientTypes, ChannelSays
  <2>7. MachineInv(n, sStep)
    BY <2>1, ClientTypes DEF MachineInv, Sorted, NotAbove
  <2>8. QED
    BY <1>1, <1>2, <2>6, <2>7 DEF ClientInv, n
<1>6. QED
  BY <1>3, <1>4, <1>5 DEF LockstepInv

\* A client changes, together with its ends of the wires.
LEMMA BecomesStep ==
    ASSUME TypeOK, LockstepInv, NEW c \in Client, NEW n \in Machine, CliBecomes(c, n),
           NEW tc, NEW ts,
           toClient' = [toClient EXCEPT ![c] = tc], toServer' = [toServer EXCEPT ![c] = ts],
           ChannelInv(tc, sendq[c], ts, n, sStep), MachineInv(n, sStep)
    PROVE  LockstepInv'
<1>1. /\ toClient'[c] = tc /\ toServer'[c] = ts /\ client'[c] = n
      /\ \A d \in Client \ {c} : /\ toClient'[d] = toClient[d] /\ toServer'[d] = toServer[d]
                                 /\ client'[d] = client[d]
  BY DEF CliBecomes, TypeOK
<1>2. sStep' = sStep /\ sendq' = sendq /\ sQueue' = sQueue /\ loop' = loop /\ why' = why
  BY DEF CliBecomes, serverVars
<1>3. ServerInv'
  BY <1>2 DEF LockstepInv, ServerInv
<1>4. \A d \in Client \ {c} : ClientInv(d)'
  BY <1>1, <1>2 DEF LockstepInv, ClientInv
<1>5. ClientInv(c)'
  BY <1>1, <1>2 DEF LockstepInv, ClientInv
<1>6. QED
  BY <1>3, <1>4, <1>5 DEF LockstepInv

\* A client reads a packet without an answer.
LEMMA HearsStep ==
    ASSUME TypeOK, LockstepInv, NEW c \in Client, NEW n \in Machine, CliBecomes(c, n),
           CliTake(c), toClient[c] # <<>>, UNCHANGED toServer,
           n.barrier = client[c].barrier \/ n.barrier = Clock(Head(toClient[c])),
           \A i \in DOMAIN n.queue : \/ n.queue[i] = Head(toClient[c])
                                     \/ \E j \in DOMAIN client[c].queue :
                                           n.queue[i] = client[c].queue[j],
           Head(toClient[c]).kind = "game" => n.queue = <<>>,
           MachineInv(n, sStep)
    PROVE  LockstepInv'
<1>1. ChannelInv(toClient[c], sendq[c], toServer[c], client[c], sStep)
  BY DEF LockstepInv, ClientInv
<1>2. ChannelInv(Tail(toClient[c]), sendq[c], toServer[c], n, sStep)
  BY <1>1, ClientTypes, ChannelHears
<1> DEFINE tc == Tail(toClient[c])
           ts == toServer[c]
<1>3. /\ toClient' = [toClient EXCEPT ![c] = tc] /\ toServer' = [toServer EXCEPT ![c] = ts]
      /\ ChannelInv(tc, sendq[c], ts, n, sStep)
  BY <1>2 DEF CliTake, TypeOK
<1> HIDE DEF tc, ts
<1>4. QED
  BY <1>3, BecomesStep

\* A client works on what it has.
LEMMA WorksStep ==
    ASSUME TypeOK, LockstepInv, NEW c \in Client, NEW n \in Machine, CliBecomes(c, n),
           UNCHANGED toClient, UNCHANGED toServer,
           n.barrier <= client[c].barrier,
           \A i \in DOMAIN n.queue : \E j \in DOMAIN client[c].queue : n.queue[i] = client[c].queue[j],
           MachineInv(n, sStep)
    PROVE  LockstepInv'
<1>1. ChannelInv(toClient[c], sendq[c], toServer[c], client[c], sStep)
  BY DEF LockstepInv, ClientInv
<1>2. ChannelInv(toClient[c], sendq[c], toServer[c], n, sStep)
  BY <1>1, ClientTypes, ChannelForgets
<1> DEFINE tc == toClient[c]
           ts == toServer[c]
<1>3. /\ toClient' = [toClient EXCEPT ![c] = tc] /\ toServer' = [toServer EXCEPT ![c] = ts]
      /\ ChannelInv(tc, sendq[c], ts, n, sStep)
  BY <1>2 DEF TypeOK
<1> HIDE DEF tc, ts
<1>4. QED
  BY <1>3, BecomesStep

\* The head of an ordered queue is its earliest command, and its tail an
\* ordered queue of the same commands.
LEMMA SortedFacts ==
    ASSUME NEW q \in Seq(WorldCmd), q # <<>>, Sorted(q)
    PROVE  /\ Head(q) \in WorldCmd /\ Head(q).step \in Nat
           /\ \A i \in DOMAIN q : q[i].step \in Nat /\ Head(q).step <= q[i].step
           /\ Sorted(Tail(q)) /\ Tail(q) \in Seq(WorldCmd)
           /\ \A i \in DOMAIN Tail(q) : \E j \in DOMAIN q : Tail(q)[i] = q[j]
<1>1. /\ Head(q) = q[1] /\ 1 \in DOMAIN q /\ \A i \in DOMAIN q : i >= 1 /\ q[i] \in WorldCmd
  OBVIOUS
<1>2. \A i \in DOMAIN Tail(q) : i + 1 \in DOMAIN q /\ Tail(q)[i] = q[i + 1] /\ i \in Nat
  OBVIOUS
<1>3. \A i \in DOMAIN q : q[i].step \in Nat /\ Head(q).step <= q[i].step
  BY <1>1, ClockFacts DEF Sorted
<1>4. Sorted(Tail(q))
  BY <1>2 DEF Sorted
<1>5. QED
  BY <1>1, <1>2, <1>3, <1>4

\* Every step keeps the invariant.
LEMMA LockstepStep == TypeOK /\ TypeOK' /\ LockstepInv /\ [Next]_vars => LockstepInv'
<1> SUFFICES ASSUME TypeOK, TypeOK', LockstepInv, [Next]_vars PROVE LockstepInv'
  OBVIOUS
<1>1. CASE UNCHANGED vars
  BY <1>1 DEF vars, serverVars, wireVars, ghostVars, LockstepInv, ServerInv, ClientInv
<1>2. ASSUME NEW c \in Client
      PROVE  /\ ChannelInv(toClient[c], sendq[c], toServer[c], client[c], sStep)
             /\ MachineInv(client[c], sStep) /\ why[c] # "late"
             /\ client[c].step <= client[c].barrier /\ client[c].barrier <= sStep
             /\ Sorted(client[c].queue) /\ NotAbove(client[c].step, client[c].queue)
  BY DEF LockstepInv, ClientInv, MachineInv
<1>3. ASSUME NEW c \in Client, toServer[c] # <<>>, TakePacket(c)
      PROVE  /\ toServer'[c] = Tail(toServer[c]) /\ Tail(toServer[c]) \in Seq(ClientPacket)
             /\ ChannelInv(toClient[c], sendq[c], Tail(toServer[c]), client[c], sStep)
             /\ \A d \in Client \ {c} : toServer'[d] = toServer[d]
  <2>1. toServer'[c] = Tail(toServer[c]) /\ \A d \in Client \ {c} : toServer'[d] = toServer[d]
    BY <1>3 DEF TakePacket, TypeOK
  <2>2. QED
    BY <1>2, <1>3, <2>1, ClientTypes, ChannelLoses
<1>4. ASSUME NEW c \in Client, SrvReceiveJoin(c) PROVE LockstepInv'
  <2> DEFINE ok == [kind |-> "join", answer |-> TRUE]
             no == [kind |-> "join", answer |-> FALSE]
             ts == Tail(toServer[c])
             tc == toClient[c]
  <2>1. /\ toServer'[c] = ts /\ ts \in Seq(ClientPacket)
        /\ ChannelInv(tc, sendq[c], ts, client[c], sStep)
        /\ \A d \in Client \ {c} : toServer'[d] = toServer[d]
    BY <1>3, <1>4 DEF SrvReceiveJoin, Received
  <2>2. sStep' = sStep /\ client' = client /\ why' = why /\ loop' = loop /\ loop = "receive"
    BY <1>4 DEF SrvReceiveJoin, Received, ghostVars
  <2>3. \A a \in {ok, no} : /\ a \in ServerPacket /\ Clock(a) = 0 /\ ~Stamped(a) /\ a.kind # "ready"
    <3>1. ok \in [kind : {"join"}, answer : BOOLEAN] /\ no \in [kind : {"join"}, answer : BOOLEAN]
      OBVIOUS
    <3>2. \A a \in [kind : {"join"}, answer : BOOLEAN] :
              /\ a \in ServerPacket /\ Clock(a) = 0 /\ ~Stamped(a) /\ a.kind # "ready"
      BY DEF ServerPacket, Clock, Stamped
    <3> HIDE DEF ok, no
    <3>3. QED
      BY <3>1, <3>2
  <2>4. Below(0, sendq[c])
    <3>1. \A i \in DOMAIN sendq[c] : sendq[c][i] \in ServerPacket
      BY ClientTypes
    <3>2. client[c].barrier \in Nat
      BY ClientTypes
    <3>3. QED
      BY <1>2, <3>1, <3>2, ClockFacts DEF ChannelInv, StreamInv, Below
  <2> HIDE DEF ok, no, ts, tc
  <2>5. ASSUME NEW a \in {ok, no} PROVE ChannelInv(Append(tc, a), sendq[c], ts, client[c], sStep)
    <3>1. Clock(a) <= sStep /\ Below(Clock(a), sendq[c]) /\ ~Stamped(a) /\ a \in ServerPacket
          /\ a.kind # "ready" /\ tc \in Seq(ServerPacket)
      BY <2>3, <2>4, ClientTypes DEF tc
    <3>2. QED
      BY <1>2, <2>1, <3>1, ClientTypes, ChannelDirect
  <2>6. CASE pending = NoClient
    <3> DEFINE sync == SyncPacket(c)
    <3>1. /\ toClient' = [toClient EXCEPT ![c] = @ \o <<ok>> \o <<sync>>]
          /\ Broadcast(sync)
      BY <1>4, <2>6 DEF SrvReceiveJoin, AcceptJoin, ok
    <3>2. sync \in WorldCmd /\ sync \in ServerPacket
      BY CommandFacts
    <3>3. sync.step = sStep + 1 /\ Stamped(sync) /\ Clock(sync) = 0 /\ sync.kind # "ready"
      BY DEF SyncPacket, Stamped, Clock
    <3> HIDE DEF sync
    <3>4. Append(tc, ok) \in Seq(ServerPacket) /\ tc \o <<ok>> \o <<sync>> = Append(Append(tc, ok), sync)
          /\ Append(Append(tc, ok), sync) \in Seq(ServerPacket)
      <4>1. tc \in Seq(ServerPacket) /\ ok \in ServerPacket
        BY <2>3, ClientTypes DEF tc
      <4>2. QED
        BY <3>2, <4>1
    <3>5. ChannelInv(Append(Append(tc, ok), sync), sendq[c], ts, client[c], sStep)
      <4>1. Clock(sync) <= sStep /\ Below(Clock(sync), sendq[c]) /\ sync.step > sStep
        BY <2>4, <3>3, ClientTypes
      <4>2. QED
        BY <1>2, <2>1, <2>5, <3>2, <3>3, <3>4, <4>1, ClientTypes, ChannelDirect
    <3>6. ServerInv
      BY DEF LockstepInv
    <3>7. /\ Sorted(sQueue') /\ \A i \in DOMAIN sQueue' : sQueue'[i].step >= sStep
          /\ ChannelInv(Append(Append(tc, ok), sync), sendq'[c], ts, client[c], sStep)
          /\ \A d \in Client : ChannelInv(toClient[d], sendq'[d], toServer[d], client[d], sStep)
      BY <1>2, <2>1, <3>1, <3>2, <3>3, <3>4, <3>5, <3>6, ClientTypes, BroadcastFacts
    <3>8. /\ toClient'[c] = Append(Append(tc, ok), sync)
          /\ \A d \in Client \ {c} : toClient'[d] = toClient[d]
      BY <3>1, <3>4 DEF TypeOK, tc
    <3>9. ServerInv'
      BY <2>2, <3>7 DEF ServerInv
    <3>10. ClientInv(c)'
      BY <1>2, <2>1, <2>2, <3>7, <3>8 DEF ClientInv
    <3>11. \A d \in Client \ {c} : ClientInv(d)'
      BY <1>2, <2>1, <2>2, <3>7, <3>8 DEF ClientInv
    <3>12. QED
      BY <3>9, <3>10, <3>11 DEF LockstepInv
  <2>7. CASE pending # NoClient
    <3>1. toClient' = [toClient EXCEPT ![c] = @ \o <<no>>] /\ sendq' = sendq /\ sQueue' = sQueue
      BY <1>4, <2>7 DEF SrvReceiveJoin, no
    <3>2. tc \o <<no>> = Append(tc, no)
      <4>1. tc \in Seq(ServerPacket) /\ no \in ServerPacket
        BY <2>3, ClientTypes DEF tc
      <4>2. QED
        BY <4>1
    <3>3. toClient'[c] = Append(tc, no) /\ \A d \in Client \ {c} : toClient'[d] = toClient[d]
      BY <3>1, <3>2 DEF TypeOK, tc
    <3>4. ClientInv(c)'
      BY <1>2, <2>1, <2>2, <2>5, <3>1, <3>3 DEF ClientInv
    <3>5. \A d \in Client \ {c} : ClientInv(d)'
      BY <1>2, <2>1, <2>2, <3>1, <3>3 DEF ClientInv
    <3>6. ServerInv'
      BY <2>2, <3>1 DEF LockstepInv, ServerInv
    <3>7. QED
      BY <3>4, <3>5, <3>6 DEF LockstepInv
  <2>8. QED
    BY <2>6, <2>7
<1>5. ASSUME NEW cmd \in WorldCmd, cmd.step = sStep + 1, Stamped(cmd), Broadcast(cmd),
             sStep' = sStep, client' = client, why' = why, loop' = loop, loop = "receive",
             toClient' = toClient,
             \A d \in Client : /\ toServer'[d] \in Seq(ClientPacket)
                               /\ ChannelInv(toClient[d], sendq[d], toServer'[d], client[d], sStep)
      PROVE  LockstepInv'
  <2>1. ServerInv
    BY DEF LockstepInv
  <2>2. /\ Sorted(sQueue') /\ \A i \in DOMAIN sQueue' : sQueue'[i].step >= sStep
        /\ \A d \in Client : ChannelInv(toClient[d], sendq'[d], toServer'[d], client[d], sStep)
    BY <1>2, <1>5, <2>1, ClientTypes, BroadcastFacts
  <2>3. ServerInv' /\ \A d \in Client : ClientInv(d)'
    BY <1>2, <1>5, <2>2 DEF ServerInv, ClientInv
  <2>4. QED
    BY <2>3 DEF LockstepInv
<1>6. ASSUME NEW c \in Client, TakePacket(c), toServer[c] # <<>>,
             UNCHANGED <<sStep, sQueue, loop, sendq, toClient, client, why>>
      PROVE  LockstepInv'
  <2>1. ServerInv'
    BY <1>6 DEF LockstepInv, ServerInv
  <2>2. \A d \in Client : ClientInv(d)'
    BY <1>2, <1>3, <1>6 DEF ClientInv
  <2>3. QED
    BY <2>1, <2>2 DEF LockstepInv
<1>7. ASSUME NEW c \in Client, NEW reason \in {"kicked", "forgotten"}, Kick(c, reason)
      PROVE  LockstepInv'
  <2>1. \A d \in Client : why'[d] # "late"
    BY <1>2, <1>7 DEF Kick, TypeOK
  <2>2. QED
    BY <1>7, <2>1, RemoveClientStep DEF Kick
<1>8. ASSUME NEW c \in Client, SrvReceiveTool(c) PROVE LockstepInv'
  <2> DEFINE cmd == Head(toServer[c])
             p == ToolPacket(sStep + 1, sMap, cmd.tool, sStep, LCHKLST(sChk, sStep))
  <2>1. toServer[c] # <<>> /\ loop = "receive" /\ cmd \in ToolCmd
    <3>1. toServer[c] # <<>> /\ loop = "receive" /\ cmd.kind = "tool"
      BY <1>8 DEF SrvReceiveTool, Received
    <3>2. cmd \in ClientPacket
      BY <3>1, ClientTypes
    <3>3. QED
      BY <3>1, <3>2, KindFacts
  <2>2. \/ Kick(c, "kicked")
        \/ TakePacket(c) /\ UNCHANGED <<serverVars, sendq, toClient, client, ghostVars>>
        \/ /\ TakePacket(c) /\ Broadcast(p)
           /\ UNCHANGED <<sStep, loop, toClient, client, why>>
    BY <1>8 DEF SrvReceiveTool, ghostVars
  <2>3. CASE TakePacket(c) /\ UNCHANGED <<serverVars, sendq, toClient, client, ghostVars>>
    BY <1>6, <2>1, <2>3 DEF serverVars, ghostVars
  <2>4. CASE /\ TakePacket(c) /\ Broadcast(p)
             /\ UNCHANGED <<sStep, loop, toClient, client, why>>
    <3>1. p \in WorldCmd /\ p.step = sStep + 1 /\ Stamped(p)
      <4>1. cmd.tool \in Tool
        BY <2>1 DEF ToolCmd
      <4>2. QED
        BY <4>1, CommandFacts DEF ToolPacket, Stamped
    <3> HIDE DEF p, cmd
    <3>2. \A d \in Client : /\ toServer'[d] \in Seq(ClientPacket)
                            /\ ChannelInv(toClient[d], sendq[d], toServer'[d], client[d], sStep)
      BY <1>2, <1>3, <2>1, <2>4, ClientTypes
    <3>3. QED
      BY <1>5, <2>1, <2>4, <3>1, <3>2
  <2>5. QED
    BY <1>7, <2>2, <2>3, <2>4
<1>9. ASSUME NEW c \in Client, SrvReceiveReady(c) PROVE LockstepInv'
  <2> DEFINE r == Head(toServer[c])
  <2>1. toServer[c] # <<>> /\ r \in Ready /\ r.kind = "ready" /\ r \in ServerPacket
    <3>1. toServer[c] # <<>> /\ r.kind = "ready"
      BY <1>9 DEF SrvReceiveReady, Received
    <3>2. r \in ClientPacket
      BY <3>1, ClientTypes
    <3>3. QED
      BY <3>1, <3>2, KindFacts DEF ServerPacket
  <2>2. CASE Kick(c, "kicked") \/ Kick(c, "forgotten")
    BY <1>7, <2>2
  <2>3. CASE /\ TakePacket(c) /\ toClient' = [toClient EXCEPT ![c] = Append(@, r)]
             /\ UNCHANGED <<serverVars, sendq, client, ghostVars>>
    <3>1. r.step <= sStep /\ Below(r.step, toClient[c]) /\ Below(r.step, sendq[c])
          /\ NotAbove(r.step, client[c].queue)
      <4>1. 1 \in DOMAIN toServer[c] /\ toServer[c][1] = r
        BY <2>1, ClientTypes
      <4>2. QED
        BY <1>2, <2>1, <4>1 DEF ChannelInv
    <3>2. Clock(r) = r.step /\ ~Stamped(r)
      BY <2>1 DEF Clock, Stamped
    <3> HIDE DEF r
    <3>3. ChannelInv(Append(toClient[c], r), sendq[c], Tail(toServer[c]), client[c], sStep)
      <4>1. Clock(r) <= sStep /\ Below(Clock(r), sendq[c])
        BY <3>1, <3>2
      <4>2. QED
        BY <1>2, <1>3, <2>1, <2>3, <3>1, <3>2, <4>1, ClientTypes, ChannelDirect
    <3>4. /\ toClient'[c] = Append(toClient[c], r) /\ toServer'[c] = Tail(toServer[c])
          /\ \A d \in Client \ {c} : toClient'[d] = toClient[d] /\ toServer'[d] = toServer[d]
      BY <1>3, <2>1, <2>3 DEF TypeOK
    <3>5. sStep' = sStep /\ sQueue' = sQueue /\ loop' = loop /\ sendq' = sendq /\ client' = client /\ why' = why
      BY <2>3 DEF serverVars, ghostVars
    <3>6. ServerInv' /\ ClientInv(c)' /\ \A d \in Client \ {c} : ClientInv(d)'
      BY <1>2, <3>3, <3>4, <3>5 DEF LockstepInv, ServerInv, ClientInv
    <3>7. QED
      BY <3>6 DEF LockstepInv
  <2>4. QED
    BY <1>9, <2>2, <2>3 DEF SrvReceiveReady, EchoReady
<1>10. ASSUME NEW c \in Client, SrvReceiveEOF(c) PROVE LockstepInv'
  BY <1>2, <1>10, RemoveClientStep DEF SrvReceiveEOF
<1>11. ASSUME NEW t \in Tool, SrvTool(t) PROVE LockstepInv'
  <2> DEFINE p == ToolPacket(sStep + 1, sMap, t, sStep, LCHKLST(sChk, sStep))
  <2>1. p \in WorldCmd /\ p.step = sStep + 1 /\ Stamped(p)
    BY CommandFacts DEF ToolPacket, Stamped
  <2>2. /\ Broadcast(p) /\ loop = "receive"
        /\ UNCHANGED <<sStep, loop, toClient, toServer, client, why>>
    BY <1>11 DEF SrvTool
  <2> HIDE DEF p
  <2>3. QED
    BY <1>2, <1>5, <2>1, <2>2, ClientTypes
<1>12. ASSUME SrvForceSync PROVE LockstepInv'
  <2>1. CASE SrvReload(NoClient, nextMap)
    <3>1. nextMap \in Nat
      BY DEF TypeOK
    <3>2. QED
      BY <2>1, <3>1, ReloadStep
  <2>2. CASE /\ Broadcast(SyncPacket(NoClient)) /\ loop = "receive"
             /\ UNCHANGED <<sStep, loop, toClient, toServer, client, why>>
    <3>1. SyncPacket(NoClient) \in WorldCmd
      BY CommandFacts
    <3>2. SyncPacket(NoClient).step = sStep + 1 /\ Stamped(SyncPacket(NoClient))
      BY DEF SyncPacket, Stamped
    <3>3. QED
      BY <1>2, <1>5, <2>2, <3>1, <3>2, ClientTypes
  <2>3. QED
    BY <1>12, <2>1, <2>2 DEF SrvForceSync
<1>13. CASE SrvFlush
  <2>1. /\ sStep' = sStep /\ sQueue' = sQueue /\ client' = client /\ why' = why /\ toServer' = toServer
        /\ \A c \in Client : sendq'[c] = <<>> /\ toClient'[c] = toClient[c] \o sendq[c]
    BY <1>13 DEF SrvFlush, ghostVars
  <2>2. ServerInv'
    BY <2>1 DEF LockstepInv, ServerInv
  <2>3. ASSUME NEW c \in Client PROVE ClientInv(c)'
    <3>1. ChannelInv(toClient[c] \o sendq[c], <<>>, toServer[c], client[c], sStep)
      BY <1>2, ClientTypes, ChannelFlush
    <3>2. QED
      BY <1>2, <2>1, <3>1 DEF ClientInv
  <2>4. QED
    BY <2>2, <2>3 DEF LockstepInv
<1>14. ASSUME Due(sQueue, sStep)
       PROVE  Head(sQueue) \in WorldCmd /\ Sorted(Tail(sQueue))
              /\ \A i \in DOMAIN Tail(sQueue) : Tail(sQueue)[i].step >= sStep
  <2>1. sQueue \in Seq(WorldCmd) /\ sQueue # <<>> /\ Sorted(sQueue)
    BY <1>14 DEF Due, TypeOK, LockstepInv, ServerInv
  <2>2. QED
    BY <2>1, SortedFacts DEF LockstepInv, ServerInv
<1>15. CASE SrvExecuteTool
  <2>1. /\ sQueue' = Tail(sQueue) /\ Due(sQueue, sStep)
        /\ UNCHANGED <<sStep, loop, sendq, toClient, toServer, client, why>>
    BY <1>15 DEF SrvExecuteTool, SrvExecute, wireVars, ghostVars
  <2>2. ServerInv'
    BY <1>14, <2>1 DEF LockstepInv, ServerInv
  <2>3. \A c \in Client : ClientInv(c)'
    BY <1>2, <2>1 DEF ClientInv
  <2>4. QED
    BY <2>2, <2>3 DEF LockstepInv
<1>16. CASE SrvExecuteSync
  <2>1. Head(sQueue) \in SyncCmd
    <3>1. Head(sQueue).kind = "sync" /\ Head(sQueue) \in WorldCmd
      BY <1>14, <1>16 DEF SrvExecuteSync, SrvExecute
    <3>2. QED
      BY <3>1, KindFacts, ClockFacts
  <2>2. Head(sQueue).client \in Client \cup {NoClient} /\ Head(sQueue).newMap \in Nat
    BY <2>1 DEF SyncCmd
  <2>3. QED
    BY <1>16, <2>2, ReloadStep DEF SrvExecuteSync, SrvExecute
<1>17. CASE SrvFrame
  <2>1. PICK p \in {[kind |-> "check", step |-> sStep + 2, map |-> sMap, srvStep |-> sStep + 1,
                     chk |-> sWorld],
                    [kind |-> "step", step |-> sStep + 1, map |-> sMap]} : sendq' = SendAll(p)
    BY <1>17 DEF SrvFrame
  <2>2. /\ p \in ServerPacket /\ p.kind \in {"tool", "sync", "check", "step"} /\ ~Stamped(p)
        /\ Clock(p) <= sStep + 1
    <3>1. sStep \in Nat /\ sStep + 1 \in Nat /\ sStep + 2 \in Nat /\ sMap \in Nat /\ sWorld \in World
      <4>1. sStep \in Nat /\ sMap \in Nat /\ sWorld \in World
        BY DEF TypeOK
      <4>2. QED
        BY <4>1
    <3>2. CASE p = [kind |-> "step", step |-> sStep + 1, map |-> sMap]
      <4>1. /\ p \in [kind : {"step"}, step : Nat, map : Nat]
            /\ p.kind = "step" /\ p.step = sStep + 1
        BY <3>1, <3>2
      <4>2. QED
        BY <3>1, <4>1 DEF ServerPacket, Clock, Stamped
    <3>3. CASE p = [kind |-> "check", step |-> sStep + 2, map |-> sMap, srvStep |-> sStep + 1,
                    chk |-> sWorld]
      <4>1. p \in CheckCmd
        BY <3>1, <3>3 DEF CheckCmd
      <4>2. QED
        BY <3>1, <3>3, <4>1 DEF ServerPacket, WorldCmd, Clock, Stamped
    <3>4. QED
      BY <2>1, <3>2, <3>3
  <2>3. /\ sStep' = sStep + 1 /\ loop' = "receive" /\ ~Due(sQueue, sStep)
        /\ UNCHANGED <<sQueue, toClient, toServer, client, why>>
    BY <1>17 DEF SrvFrame, ghostVars
  <2>4. ServerInv'
    <3>1. Sorted(sQueue')
      BY <2>3 DEF LockstepInv, ServerInv
    <3>2. ASSUME NEW i \in DOMAIN sQueue PROVE sQueue[i].step >= sStep + 1
      <4>1. sQueue \in Seq(WorldCmd) /\ sQueue # <<>> /\ Sorted(sQueue) /\ sStep \in Nat
        BY <3>2 DEF TypeOK, LockstepInv, ServerInv
      <4>2. Head(sQueue).step > sStep /\ Head(sQueue).step \in Nat
            /\ sQueue[i].step \in Nat /\ Head(sQueue).step <= sQueue[i].step
        BY <2>3, <4>1, SortedFacts DEF Due
      <4>3. QED
        BY <4>1, <4>2
    <3>3. QED
      BY <2>3, <3>1, <3>2 DEF ServerInv
  <2>5. ASSUME NEW c \in Client PROVE ClientInv(c)'
    <3>1. sStep \in Nat /\ sStep + 1 \in Nat /\ sStep <= sStep + 1
      <4>1. sStep \in Nat
        BY DEF TypeOK
      <4>2. QED
        BY <4>1
    <3>2. /\ ChannelInv(toClient[c], Append(sendq[c], p), toServer[c], client[c], sStep + 1)
          /\ ChannelInv(toClient[c], sendq[c], toServer[c], client[c], sStep + 1)
      BY <1>2, <2>2, <3>1, ClientTypes, ChannelSend
    <3>3. sendq'[c] = sendq[c] \/ sendq'[c] = Append(sendq[c], p)
      BY <2>1 DEF SendAll
    <3>4. MachineInv(client[c], sStep + 1)
      <4>1. client[c].barrier <= sStep + 1
        BY <1>2, ClientTypes
      <4>2. QED
        BY <1>2, <4>1 DEF MachineInv
    <3>5. QED
      BY <1>2, <2>3, <3>2, <3>3, <3>4 DEF ClientInv
  <2>6. QED
    BY <2>4, <2>5 DEF LockstepInv
<1>18. CASE SrvIdle
  <2>1. UNCHANGED <<sStep, sQueue, sendq, toClient, toServer, client, why>> /\ loop' = "receive"
    BY <1>18 DEF SrvIdle, wireVars, ghostVars
  <2>2. ServerInv' /\ \A c \in Client : ClientInv(c)'
    BY <1>2, <2>1 DEF LockstepInv, ServerInv, ClientInv
  <2>3. QED
    BY <2>2 DEF LockstepInv
<1>19. ASSUME NEW c \in Client, toClient[c] # <<>>
       PROVE  /\ Head(toClient[c]) \in ServerPacket
              /\ Clock(Head(toClient[c])) \in Nat /\ Clock(Head(toClient[c])) <= sStep
  <2>1. toClient[c] \in Seq(ServerPacket) /\ Head(toClient[c]) = toClient[c][1]
        /\ 1 \in DOMAIN toClient[c] /\ Head(toClient[c]) \in ServerPacket
    BY <1>19, ClientTypes
  <2>2. QED
    BY <1>2, <2>1, ClockFacts DEF ChannelInv, StreamInv
<1>20. ASSUME NEW c \in Client, NEW reason \in {"ok", "desync", "map"}, Leave(c, reason)
       PROVE  LockstepInv'
  BY <1>20, LeaveStep DEF Leave, serverVars
<1>21. ASSUME NEW c \in Client, CliTake(c), toClient[c] # <<>>, UNCHANGED toServer,
              NEW n \in Machine, CliBecomes(c, n), client[c].state # "ingame",
              n.step = 0, n.barrier = 0, n.queue = <<>>
       PROVE  LockstepInv'
  <2>1. client[c].barrier = 0
    BY <1>2, <1>21 DEF MachineInv
  <2>2. MachineInv(n, sStep)
    BY <1>21, ClientTypes DEF MachineInv, Sorted, NotAbove
  <2>3. \A i \in DOMAIN n.queue : \/ n.queue[i] = Head(toClient[c])
                                  \/ \E j \in DOMAIN client[c].queue :
                                           n.queue[i] = client[c].queue[j]
    BY <1>21
  <2>4. QED
    BY <1>21, <2>1, <2>2, <2>3, HearsStep
<1>22. ASSUME NEW c \in Client, CliJoin(c) PROVE LockstepInv'
  <2> DEFINE n == Outside("waitSync", 0)
  <2>1. n \in Machine /\ n.step = 0 /\ n.barrier = 0 /\ n.queue = <<>>
    BY OutsideFacts DEF Outside, Reset
  <2>2. /\ toClient[c] # <<>> /\ client[c].state # "ingame"
        /\ \/ Leave(c, "ok")
           \/ CliTake(c) /\ CliBecomes(c, n) /\ UNCHANGED toServer
    BY <1>22 DEF CliJoin, CliHead
  <2> HIDE DEF n
  <2>3. QED
    BY <1>20, <1>21, <2>1, <2>2
<1>23. ASSUME NEW c \in Client, CliSync(c) PROVE LockstepInv'
  <2> DEFINE n == Outside("waitGame", Head(toClient[c]).newMap)
  <2>1. /\ toClient[c] # <<>> /\ client[c].state # "ingame" /\ Head(toClient[c]).kind = "sync"
        /\ CliTake(c) /\ CliBecomes(c, n) /\ UNCHANGED toServer
    BY <1>23 DEF CliSync, CliHead
  <2>2. Head(toClient[c]).newMap \in Nat
    BY <1>19, <2>1, KindFacts DEF SyncCmd
  <2>3. n \in Machine /\ n.step = 0 /\ n.barrier = 0 /\ n.queue = <<>>
    BY <2>2, OutsideFacts DEF Outside, Reset
  <2> HIDE DEF n
  <2>4. QED
    BY <1>21, <2>1, <2>3
<1>24. ASSUME NEW c \in Client, CliGame(c) PROVE LockstepInv'
  <2> DEFINE n == Loaded(client[c].map, Head(toClient[c]).world)
  <2>1. /\ toClient[c] # <<>> /\ client[c].state # "ingame" /\ Head(toClient[c]).kind = "game"
        /\ CliTake(c) /\ CliBecomes(c, n) /\ UNCHANGED toServer
    BY <1>24 DEF CliGame, CliHead
  <2>2. Head(toClient[c]).world \in World /\ client[c].map \in Nat
    BY <1>19, <2>1, KindFacts, ClientTypes DEF Machine
  <2>3. n \in Machine /\ n.step = 0 /\ n.barrier = 0 /\ n.queue = <<>>
    BY <2>2, LoadedFacts DEF Loaded, Reset
  <2> HIDE DEF n
  <2>4. QED
    BY <1>21, <2>1, <2>3
<1>25. ASSUME NEW c \in Client, CliDiscard(c) PROVE LockstepInv'
  <2>1. CASE Leave(c, "ok")
    BY <1>20, <2>1
  <2>2. CASE CliTake(c) /\ UNCHANGED <<serverVars, sendq, toServer, client, ghostVars>>
    <3>1. CliBecomes(c, client[c]) /\ UNCHANGED toServer
      BY <2>2 DEF CliBecomes, ghostVars, TypeOK
    <3>2. toClient[c] # <<>> /\ client[c].state # "ingame"
      BY <1>25 DEF CliDiscard
    <3>3. client[c].step = 0 /\ client[c].barrier = 0 /\ client[c].queue = <<>>
      BY <1>2, <3>2 DEF MachineInv
    <3>4. QED
      BY <1>21, <2>2, <3>1, <3>2, <3>3, ClientTypes
  <2>3. QED
    BY <1>25, <2>1, <2>2 DEF CliDiscard
<1>26. ASSUME NEW c \in Client, CliStep(c) PROVE LockstepInv'
  <2> DEFINE h == Head(toClient[c])
             b == IF client[c].barrier < h.step THEN h.step ELSE client[c].barrier
             n == [client[c] EXCEPT !.barrier = IF @ < h.step THEN h.step ELSE @]
  <2>1. /\ toClient[c] # <<>> /\ InGame(c) /\ h.kind = "step" /\ CliTake(c) /\ CliBecomes(c, n)
        /\ UNCHANGED toServer
    BY <1>26 DEF CliStep, CliHead
  <2>2. h.step = Clock(h) /\ h.step \in Nat /\ h.step <= sStep
    BY <1>19, <2>1 DEF Clock
  <2>3. b \in Nat /\ (b = client[c].barrier \/ b = Clock(h)) /\ b <= sStep /\ client[c].step <= b
    BY <1>2, <2>2, ClientTypes
  <2>4. n \in Machine /\ n.barrier = b /\ n.queue = client[c].queue /\ n.step = client[c].step
        /\ n.state = client[c].state
    BY <2>3, ClientTypes DEF Machine
  <2> HIDE DEF n, b, h
  <2>5. MachineInv(n, sStep)
    BY <1>2, <2>1, <2>3, <2>4 DEF MachineInv, InGame
  <2>6. QED
    BY <2>1, <2>3, <2>4, <2>5, HearsStep DEF h
<1>27. ASSUME NEW c \in Client, CliCommand(c) PROVE LockstepInv'
  <2> DEFINE cmd == Head(toClient[c])
             b == IF cmd.kind = "check" /\ client[c].barrier < cmd.srvStep
                  THEN cmd.srvStep ELSE client[c].barrier
             m == IF cmd.kind = "check" /\ client[c].barrier < cmd.srvStep
                  THEN [client[c] EXCEPT !.barrier = cmd.srvStep] ELSE client[c]
             past == cmd.step < m.step
             n == IF past THEN m ELSE [m EXCEPT !.queue = CommandQueueAppend(@, cmd)]
  <2>1. /\ toClient[c] # <<>> /\ InGame(c) /\ cmd.kind \in {"tool", "sync", "check"}
        /\ \/ past /\ cmd.kind # "check"
           \/ CliTake(c) /\ CliBecomes(c, n) /\ UNCHANGED toServer
    BY <1>27 DEF CliCommand, CliHead, IgnoreOldEvents
  <2>2. /\ cmd \in WorldCmd /\ cmd.step \in Nat /\ Clock(cmd) \in Nat /\ Clock(cmd) <= sStep
        /\ (cmd.kind = "check" => cmd.srvStep = Clock(cmd))
    BY <1>19, <2>1, KindFacts, ClockFacts DEF Clock
  <2>3. b \in Nat /\ (b = client[c].barrier \/ b = Clock(cmd)) /\ b <= sStep /\ client[c].step <= b
    BY <1>2, <2>2, ClientTypes
  <2>4. m \in Machine /\ m.barrier = b /\ m.queue = client[c].queue /\ m.step = client[c].step
        /\ m.state = client[c].state
    <3>1. ASSUME NEW x \in Machine, NEW y \in Nat
          PROVE  LET z == [x EXCEPT !.barrier = y]
                 IN  /\ z \in Machine /\ z.barrier = y /\ z.queue = x.queue /\ z.step = x.step
                     /\ z.state = x.state
      BY DEF Machine
    <3>2. CASE cmd.kind = "check" /\ client[c].barrier < cmd.srvStep
      <4>1. b = cmd.srvStep /\ m = [client[c] EXCEPT !.barrier = cmd.srvStep]
        BY <3>2
      <4>2. cmd.srvStep \in Nat /\ client[c] \in Machine
        BY <2>3, <4>1, ClientTypes
      <4>3. QED
        BY <3>1, <4>1, <4>2
    <3>3. CASE ~(cmd.kind = "check" /\ client[c].barrier < cmd.srvStep)
      BY <3>3, ClientTypes
    <3>4. QED
      BY <3>2, <3>3
  <2>5. ~(past /\ cmd.kind # "check")
    <3>1. SUFFICES ASSUME cmd.kind \in {"tool", "sync"} PROVE ~past
      BY <2>1
    <3>2. cmd = toClient[c][1] /\ 1 \in DOMAIN toClient[c]
      BY <2>1, ClientTypes
    <3>3. cmd.step > client[c].barrier
      BY <1>2, <3>1, <3>2 DEF ChannelInv, StreamInv, Stamped
    <3>4. QED
      BY <1>2, <2>2, <2>4, <3>3, ClientTypes
  <2> HIDE DEF m, b
  <2>6. CASE past
    <3>1. n = m /\ CliTake(c) /\ CliBecomes(c, m) /\ UNCHANGED toServer
      BY <2>1, <2>5, <2>6
    <3>2. MachineInv(m, sStep)
      BY <1>2, <2>1, <2>3, <2>4 DEF MachineInv, InGame
    <3>3. QED
      BY <2>1, <2>3, <2>4, <3>1, <3>2, HearsStep
  <2>7. CASE ~past
    <3> DEFINE r == CommandQueueAppend(client[c].queue, cmd)
               k == [m EXCEPT !.queue = r]
    <3>1. CliTake(c) /\ CliBecomes(c, k) /\ UNCHANGED toServer
      BY <2>1, <2>4, <2>5, <2>7
    <3>2. /\ r \in Seq(WorldCmd) /\ Sorted(r)
          /\ \A i \in DOMAIN r : r[i] = cmd \/ \E j \in DOMAIN client[c].queue : r[i] = client[c].queue[j]
      BY <1>2, <2>2, ClientTypes, QueueAppendFacts
    <3> HIDE DEF r
    <3>3. k \in Machine /\ k.queue = r /\ k.barrier = b /\ k.step = client[c].step
          /\ k.state = client[c].state
      BY <2>4, <3>2 DEF Machine
    <3>4. NotAbove(client[c].step, r)
      <4>1. client[c].step <= cmd.step
        BY <2>2, <2>4, <2>7, ClientTypes
      <4>2. QED
        BY <1>2, <3>2, <4>1 DEF NotAbove
    <3> HIDE DEF k
    <3>5. MachineInv(k, sStep)
      BY <1>2, <2>1, <2>3, <3>2, <3>3, <3>4 DEF MachineInv, InGame
    <3>6. cmd.kind # "game"
      BY <2>1
    <3>7. QED
      BY <2>1, <2>3, <3>1, <3>2, <3>3, <3>5, <3>6, HearsStep
  <2>8. QED
    BY <2>6, <2>7
<1>28. ASSUME NEW c \in Client, CliReady(c) PROVE LockstepInv'
  <2> DEFINE r == Head(toClient[c])
             n == [client[c] EXCEPT !.step = r.step, !.barrier = r.step, !.paused = FALSE,
                                    !.chk = SetChecklist(@, r.step, r.chk)]
  <2>1. /\ toClient[c] # <<>> /\ InGame(c) /\ r.kind = "ready"
        /\ \/ Leave(c, "map")
           \/ CliTake(c) /\ CliBecomes(c, n) /\ UNCHANGED toServer
    BY <1>28 DEF CliReady, CliHead
  <2>2. r \in Ready /\ r.step \in Nat /\ r.chk \in World /\ r.step = Clock(r) /\ r.step <= sStep
    BY <1>19, <2>1, KindFacts DEF Ready, Clock
  <2>3. NotAbove(r.step, client[c].queue)
    <3>1. r = toClient[c][1] /\ 1 \in DOMAIN toClient[c] /\ ~(1 > 1)
      BY <2>1, ClientTypes
    <3>2. QED
      BY <1>2, <2>1, <3>1 DEF ChannelInv
  <2>4. SetChecklist(client[c].chk, r.step, r.chk) \in [0 .. ChecklistCount - 1 -> World]
    BY <2>2, RingFacts, ClientTypes DEF Machine
  <2>5. n \in Machine /\ n.step = r.step /\ n.barrier = r.step /\ n.queue = client[c].queue
        /\ n.state = client[c].state
    <3> HIDE DEF r
    <3>1. n \in Machine
      BY <2>2, <2>4, ClientTypes DEF Machine
    <3>2. n.step = r.step
      BY ClientTypes DEF Machine
    <3>3. n.barrier = r.step
      BY ClientTypes DEF Machine
    <3>4. n.queue = client[c].queue /\ n.state = client[c].state
      BY ClientTypes DEF Machine
    <3>5. QED
      BY <3>1, <3>2, <3>3, <3>4
  <2> HIDE DEF n, r
  <2>6. MachineInv(n, sStep)
    BY <1>2, <2>1, <2>2, <2>3, <2>5 DEF MachineInv, InGame
  <2>7. CASE CliTake(c) /\ CliBecomes(c, n) /\ UNCHANGED toServer
    BY <2>1, <2>2, <2>5, <2>6, <2>7, HearsStep DEF r
  <2>8. QED
    BY <1>20, <2>1, <2>7
<1>29. ASSUME NEW c \in Client, CliEOF(c) PROVE LockstepInv'
  BY <1>20, <1>29 DEF CliEOF
<1>30. ASSUME NEW c \in Client, Due(client[c].queue, client[c].step)
       PROVE  LET q == client[c].queue
              IN  /\ q # <<>> /\ Head(q) \in WorldCmd /\ Head(q).step \in Nat
                  /\ Sorted(Tail(q)) /\ Tail(q) \in Seq(WorldCmd)
                  /\ NotAbove(client[c].step, Tail(q))
                  /\ \A i \in DOMAIN Tail(q) : \E j \in DOMAIN q : Tail(q)[i] = q[j]
                  /\ Stamped(Head(q)) => ~Past(c)
  <2> DEFINE q == client[c].queue
  <2>1. q # <<>> /\ q \in Seq(WorldCmd) /\ Sorted(q) /\ NotAbove(client[c].step, q)
    BY <1>2, <1>30, ClientTypes DEF Due
  <2> HIDE DEF q
  <2>2. /\ Head(q) \in WorldCmd /\ Head(q).step \in Nat /\ Sorted(Tail(q)) /\ Tail(q) \in Seq(WorldCmd)
        /\ \A i \in DOMAIN Tail(q) : \E j \in DOMAIN q : Tail(q)[i] = q[j]
    BY <2>1, SortedFacts
  <2>3. NotAbove(client[c].step, Tail(q))
    BY <2>1, <2>2 DEF NotAbove
  <2>4. Stamped(Head(q)) => client[c].step <= Head(q).step
    <3>1. Head(q) = q[1] /\ 1 \in DOMAIN q
      BY <2>1
    <3>2. QED
      BY <2>1, <3>1 DEF NotAbove
  <2>5. Stamped(Head(q)) => ~Past(c)
    BY <2>2, <2>4, ClientTypes DEF Past, q
  <2>6. QED
    BY <2>1, <2>2, <2>3, <2>5 DEF q
<1>31. ASSUME NEW c \in Client, InGame(c), Due(client[c].queue, client[c].step), NEW m \in Machine,
              m.queue = client[c].queue, m.step = client[c].step, m.barrier = client[c].barrier,
              m.state = client[c].state, Executes(c, m), UNCHANGED toServer
       PROVE  LockstepInv'
  <2> DEFINE n == [m EXCEPT !.queue = Tail(@)]
  <2>1. CliBecomes(c, n) /\ UNCHANGED toClient
    BY <1>31 DEF Executes
  <2>2. n \in Machine /\ n.queue = Tail(client[c].queue) /\ n.step = client[c].step
        /\ n.barrier = client[c].barrier /\ n.state = client[c].state
    BY <1>30, <1>31 DEF Machine
  <2> HIDE DEF n
  <2>3. MachineInv(n, sStep)
    BY <1>2, <1>30, <1>31, <2>2 DEF MachineInv, InGame
  <2>4. n.barrier <= client[c].barrier
    BY <2>2, ClientTypes
  <2>5. \A i \in DOMAIN n.queue : \E j \in DOMAIN client[c].queue : n.queue[i] = client[c].queue[j]
    BY <1>30, <1>31, <2>2
  <2>6. QED
    BY <1>31, <2>1, <2>2, <2>3, <2>4, <2>5, WorksStep
<1>32. ASSUME NEW c \in Client, CliExecuteCheck(c) PROVE LockstepInv'
  <2>1. InGame(c) /\ Due(client[c].queue, client[c].step)
        /\ \/ Leave(c, "desync")
           \/ Executes(c, client[c]) /\ UNCHANGED toServer
    BY <1>32 DEF CliExecuteCheck, CliExecute
  <2>2. CASE Leave(c, "desync")
    BY <1>20, <2>2
  <2>3. CASE Executes(c, client[c]) /\ UNCHANGED toServer
    BY <1>31, <2>1, <2>3, ClientTypes
  <2>4. QED
    BY <2>1, <2>2, <2>3
<1>33. ASSUME NEW c \in Client, CliExecuteTool(c) PROVE LockstepInv'
  <2> DEFINE m == client[c]
             cmd == Head(m.queue)
             n == [m EXCEPT !.world = Append(@, Done(m.step, cmd.tool))]
  <2>1. InGame(c) /\ Due(m.queue, m.step) /\ cmd.kind = "tool"
    BY <1>33 DEF CliExecuteTool, CliExecute
  <2>2. ~Past(c) /\ cmd \in WorldCmd
    BY <1>30, <2>1 DEF Stamped
  <2>3. \/ Leave(c, "desync")
        \/ Executes(c, m) /\ UNCHANGED toServer
        \/ Executes(c, n) /\ UNCHANGED toServer
    BY <1>33, <2>2 DEF CliExecuteTool
  <2>4. m \in Machine /\ n \in Machine /\ n.queue = m.queue /\ n.step = m.step
        /\ n.barrier = m.barrier /\ n.state = m.state
    <3>1. cmd.tool \in Tool /\ m.world \in World /\ m.step \in Nat /\ m \in Machine
      BY <2>1, <2>2, KindFacts, ClockFacts, ClientTypes DEF Machine, ToolCmd
    <3>2. Append(m.world, Done(m.step, cmd.tool)) \in World
      BY <3>1, WorldFacts
    <3>3. QED
      BY <3>1, <3>2 DEF Machine
  <2> HIDE DEF n
  <2>5. CASE Executes(c, m) /\ UNCHANGED toServer
    BY <1>31, <2>1, <2>4, <2>5
  <2>6. CASE Executes(c, n) /\ UNCHANGED toServer
    BY <1>31, <2>1, <2>4, <2>6
  <2>7. QED
    BY <1>20, <2>3, <2>5, <2>6
<1>34. ASSUME NEW c \in Client, CliExecuteSync(c) PROVE LockstepInv'
  <2> DEFINE m == client[c]
             cmd == Head(m.queue)
             n == [m EXCEPT !.world = Append(@, Done(m.step, Reload)), !.queue = <<>>,
                            !.paused = TRUE, !.barrier = m.step, !.map = cmd.newMap]
             r == ReadyPacket(m.step, cmd.newMap, LCHKLST(m.chk, m.step))
  <2>1. InGame(c) /\ Due(m.queue, m.step) /\ cmd.kind = "sync"
    BY <1>34 DEF CliExecuteSync, CliExecute
  <2>2. ~Past(c) /\ cmd \in SyncCmd /\ m \in Machine /\ m.step \in Nat /\ m.barrier \in Nat
    BY <1>30, <2>1, KindFacts, ClockFacts, ClientTypes DEF Stamped
  <2>3. \/ Executes(c, m) /\ UNCHANGED toServer
        \/ /\ CliBecomes(c, n) /\ UNCHANGED toClient
           /\ toServer' = [toServer EXCEPT ![c] = Append(@, r)]
    BY <1>34, <2>2 DEF CliExecuteSync
  <2>4. n \in Machine /\ n.queue = <<>> /\ n.step = m.step /\ n.barrier = m.step /\ n.state = m.state
    <3>1. /\ Append(m.world, Done(m.step, Reload)) \in World /\ cmd.newMap \in Nat
          /\ TRUE \in BOOLEAN /\ <<>> \in Seq(WorldCmd)
      BY <2>2, WorldFacts DEF Machine, SyncCmd
    <3> HIDE DEF m, cmd
    <3>2. n \in Machine
      BY <2>2, <3>1 DEF Machine
    <3>3. n.step = m.step
      BY <2>2 DEF Machine
    <3>4. n.barrier = m.step
      BY <2>2 DEF Machine
    <3>5. n.queue = <<>>
      BY <2>2 DEF Machine
    <3>6. n.state = m.state
      BY <2>2 DEF Machine
    <3>7. QED
      BY <3>2, <3>3, <3>4, <3>5, <3>6
  <2>5. r \in ClientPacket /\ r.step = m.step
    <3>1. cmd.newMap \in Nat /\ LCHKLST(m.chk, m.step) \in World
      BY <2>2, RingFacts DEF SyncCmd, Machine, World
    <3>2. QED
      BY <2>2, <3>1, PacketFacts DEF ReadyPacket
  <2> HIDE DEF n, r
  <2>6. CASE Executes(c, m) /\ UNCHANGED toServer
    BY <1>31, <2>1, <2>2, <2>6
  <2>7. CASE /\ CliBecomes(c, n) /\ UNCHANGED toClient
             /\ toServer' = [toServer EXCEPT ![c] = Append(@, r)]
    <3>1. ChannelInv(toClient[c], sendq[c], toServer[c], n, sStep)
      <4>1. \A i \in DOMAIN n.queue : \E j \in DOMAIN m.queue : n.queue[i] = m.queue[j]
        BY <2>4
      <4>2. n.barrier <= m.barrier
        BY <1>2, <2>4
      <4>3. QED
        BY <1>2, <2>4, <4>1, <4>2, ClientTypes, ChannelForgets
    <3>2. n.barrier <= sStep
      BY <1>2, <2>2, <2>4, ClientTypes
    <3>3. r.step <= n.barrier /\ NotAbove(r.step, n.queue)
      BY <2>2, <2>4, <2>5 DEF NotAbove
    <3>4. ChannelInv(toClient[c], sendq[c], Append(toServer[c], r), n, sStep)
      BY <2>4, <2>5, <3>1, <3>2, <3>3, ClientTypes, ChannelSays
    <3>5. MachineInv(n, sStep)
      BY <2>1, <2>2, <2>4, <3>2 DEF MachineInv, Sorted, NotAbove, InGame
    <3>6. /\ toClient' = [toClient EXCEPT ![c] = toClient[c]]
          /\ toServer' = [toServer EXCEPT ![c] = Append(toServer[c], r)]
      BY <2>7 DEF TypeOK
    <3> DEFINE tc == toClient[c]
               ts == Append(toServer[c], r)
    <3>7. /\ toClient' = [toClient EXCEPT ![c] = tc] /\ toServer' = [toServer EXCEPT ![c] = ts]
          /\ ChannelInv(tc, sendq[c], ts, n, sStep)
      BY <3>4, <3>6
    <3> HIDE DEF tc, ts
    <3>8. QED
      BY <2>4, <2>7, <3>5, <3>7, BecomesStep
  <2>8. QED
    BY <2>3, <2>6, <2>7
<1>35. ASSUME NEW c \in Client, CliFrame(c) PROVE LockstepInv'
  <2> DEFINE m == client[c]
             n == [m EXCEPT !.step = @ + 1, !.chk = SetChecklist(@, m.step + 1, m.world)]
  <2>1. /\ InGame(c) /\ m.step < m.barrier /\ ~Due(m.queue, m.step)
        /\ CliBecomes(c, n) /\ UNCHANGED toClient /\ UNCHANGED toServer
    BY <1>35 DEF CliFrame
  <2>2. m \in Machine /\ m.step \in Nat /\ m.barrier \in Nat /\ m.queue \in Seq(WorldCmd)
    BY ClientTypes
  <2>3. n \in Machine /\ n.step = m.step + 1 /\ n.queue = m.queue /\ n.barrier = m.barrier
        /\ n.state = m.state
    <3>1. SetChecklist(m.chk, m.step + 1, m.world) \in [0 .. ChecklistCount - 1 -> World]
      BY <2>2, RingFacts DEF Machine
    <3>2. m.step + 1 \in Nat
      BY <2>2
    <3>3. n \in Machine
      BY <2>2, <3>1, <3>2 DEF Machine
    <3>4. n.step = m.step + 1
      BY <2>2, <3>2 DEF Machine
    <3>5. n.queue = m.queue /\ n.barrier = m.barrier /\ n.state = m.state
      BY <2>2, <3>2 DEF Machine
    <3>6. QED
      BY <3>3, <3>4, <3>5
  <2> HIDE DEF n
  <2>4. NotAbove(m.step + 1, m.queue)
    <3>1. SUFFICES ASSUME NEW i \in DOMAIN m.queue PROVE m.step + 1 <= m.queue[i].step
      BY DEF NotAbove
    <3>2. m.queue # <<>> /\ Sorted(m.queue)
      BY <1>2, <2>2, <3>1
    <3>3. Head(m.queue).step > m.step /\ Head(m.queue).step \in Nat
          /\ m.queue[i].step \in Nat /\ Head(m.queue).step <= m.queue[i].step
      BY <2>1, <2>2, <3>2, SortedFacts DEF Due
    <3>4. QED
      BY <2>2, <3>3
  <2>5. MachineInv(n, sStep)
    BY <1>2, <2>1, <2>2, <2>3, <2>4 DEF MachineInv, InGame
  <2>6. n.barrier <= m.barrier /\ \A i \in DOMAIN n.queue : \E j \in DOMAIN m.queue : n.queue[i] = m.queue[j]
    BY <2>2, <2>3
  <2>7. QED
    BY <2>1, <2>3, <2>5, <2>6, WorksStep
<1>36. ASSUME NEW c \in Client, NEW t \in Tool, CliTool(c, t) PROVE LockstepInv'
  <2> DEFINE m == client[c]
             p == ToolPacket(m.step, m.map, t, m.step, LCHKLST(m.chk, m.step))
  <2>1. /\ toServer' = [toServer EXCEPT ![c] = Append(@, p)]
        /\ UNCHANGED <<sStep, sQueue, loop, sendq, toClient, client, why>>
    BY <1>36 DEF CliTool, serverVars
  <2>2. p \in ClientPacket /\ p.kind # "ready"
    <3>1. m.step \in Nat /\ m.map \in Nat /\ LCHKLST(m.chk, m.step) \in World
      BY ClientTypes, RingFacts DEF Machine, World
    <3>2. QED
      BY <3>1, PacketFacts DEF ToolPacket
  <2> HIDE DEF p
  <2>3. toServer'[c] = Append(toServer[c], p) /\ \A d \in Client \ {c} : toServer'[d] = toServer[d]
    BY <2>1 DEF TypeOK
  <2>4. ChannelInv(toClient[c], sendq[c], Append(toServer[c], p), client[c], sStep)
    BY <1>2, <2>2, ClientTypes, ChannelSays
  <2>5. ServerInv' /\ ClientInv(c)' /\ \A d \in Client \ {c} : ClientInv(d)'
    BY <1>2, <2>1, <2>3, <2>4 DEF LockstepInv, ServerInv, ClientInv
  <2>6. QED
    BY <2>5 DEF LockstepInv
<1>37. ASSUME NEW c \in Client, CliQuit(c) PROVE LockstepInv'
  BY <1>37, LeaveStep DEF CliQuit, serverVars
<1>38. ASSUME NEW c \in Client, Connect(c) PROVE LockstepInv'
  <2> DEFINE n == Outside("waitJoin", 0)
             j == [kind |-> "join"]
  <2>1. /\ toClient'[c] = <<>> /\ toServer'[c] = <<j>> /\ client'[c] = n /\ why'[c] = "ok"
        /\ \A d \in Client \ {c} : /\ toClient'[d] = toClient[d] /\ toServer'[d] = toServer[d]
                                   /\ client'[d] = client[d] /\ why'[d] = why[d]
        /\ UNCHANGED <<sStep, sQueue, loop, sendq>>
    BY <1>38 DEF Connect, TypeOK
  <2>2. n \in Machine /\ n.barrier = 0 /\ n.step = 0 /\ n.queue = <<>> /\ n.state # "ingame"
    BY OutsideFacts DEF Outside, Reset
  <2>3. j \in ClientPacket /\ j.kind # "ready"
    BY DEF ClientPacket
  <2> HIDE DEF n, j
  <2>4. ChannelInv(<<>>, sendq[c], <<>>, client[c], sStep)
    BY <1>2, ClientTypes, ChannelLoses
  <2>5. <<>> \in Seq(ServerPacket) /\ <<>> \in Seq(ClientPacket) /\ Append(<<>>, j) = <<j>>
    BY <2>3
  <2>6. ChannelInv(<<>>, sendq[c], <<>>, n, sStep)
    <3>1. n.barrier <= client[c].barrier
          /\ \A i \in DOMAIN n.queue : \E k \in DOMAIN client[c].queue : n.queue[i] = client[c].queue[k]
      BY <2>2, ClientTypes
    <3>2. QED
      BY <2>2, <2>4, <2>5, <3>1, ClientTypes, ChannelForgets
  <2>7. ChannelInv(<<>>, sendq[c], <<j>>, n, sStep)
    <3>1. n.barrier <= sStep
      BY <2>2, ClientTypes
    <3>2. ChannelInv(<<>>, sendq[c], Append(<<>>, j), n, sStep)
      BY <2>2, <2>3, <2>5, <2>6, <3>1, ClientTypes, ChannelSays
    <3>3. QED
      BY <2>5, <3>2
  <2>8. MachineInv(n, sStep)
    BY <2>2, ClientTypes DEF MachineInv, Sorted, NotAbove
  <2>9. ServerInv' /\ ClientInv(c)' /\ \A d \in Client \ {c} : ClientInv(d)'
    BY <1>2, <2>1, <2>7, <2>8 DEF LockstepInv, ServerInv, ClientInv
  <2>10. QED
    BY <2>9 DEF LockstepInv
<1>39. ASSUME NEW c \in Client, Diverge(c) PROVE LockstepInv'
  <2> DEFINE n == [client[c] EXCEPT !.world = Append(@, Done(client[c].step, Glitch))]
  <2>1. InGame(c) /\ client' = [client EXCEPT ![c] = n]
        /\ UNCHANGED <<sStep, sQueue, loop, sendq, toClient, toServer, why>>
    BY <1>39 DEF Diverge, serverVars, wireVars, TypeOK
  <2>2. n \in Machine /\ n.step = client[c].step /\ n.barrier = client[c].barrier
        /\ n.queue = client[c].queue /\ n.state = client[c].state
    <3>1. Append(client[c].world, Done(client[c].step, Glitch)) \in World
      BY WorldFacts, ClientTypes DEF Machine
    <3>2. QED
      BY <3>1, ClientTypes DEF Machine
  <2> HIDE DEF n
  <2>3. client'[c] = n /\ \A d \in Client \ {c} : client'[d] = client[d]
    BY <2>1 DEF TypeOK
  <2>4. MachineInv(n, sStep)
    BY <1>2, <2>1, <2>2 DEF MachineInv, InGame
  <2>5. ChannelInv(toClient[c], sendq[c], toServer[c], n, sStep)
    BY <1>2, <2>2, ClientTypes, ChannelForgets
  <2>6. ServerInv' /\ ClientInv(c)' /\ \A d \in Client \ {c} : ClientInv(d)'
    BY <1>2, <2>1, <2>3, <2>4, <2>5 DEF LockstepInv, ServerInv, ClientInv
  <2>7. QED
    BY <2>6 DEF LockstepInv
<1>40. QED
  BY <1>1, <1>4, <1>8, <1>9, <1>10, <1>11, <1>12, <1>13, <1>15, <1>16, <1>17, <1>18, <1>22, <1>23,
     <1>24, <1>25, <1>26, <1>27, <1>28, <1>29, <1>32, <1>33, <1>34, <1>35, <1>36, <1>37, <1>38,
     <1>39 DEF Next, SrvStep, SrvReceive, CliReceive, CliRun

\* The invariant holds initially: all queues are empty and all clocks zero.
LEMMA LockstepInit == Init => LockstepInv
<1> SUFFICES ASSUME Init PROVE LockstepInv
  OBVIOUS
<1>1. ServerInv
  BY DEF Init, ServerInv, Sorted
<1>2. ASSUME NEW c \in Client PROVE ClientInv(c)
  <2>1. /\ toClient[c] = <<>> /\ sendq[c] = <<>> /\ toServer[c] = <<>> /\ why[c] = "ok"
        /\ client[c].step = 0 /\ client[c].barrier = 0 /\ client[c].queue = <<>> /\ sStep = 0
    BY DEF Init, Outside, Reset
  <2>2. MachineInv(client[c], sStep)
    BY <2>1 DEF MachineInv, Sorted, NotAbove
  <2>3. ChannelInv(toClient[c], sendq[c], toServer[c], client[c], sStep)
    BY <2>1 DEF ChannelInv, StreamInv
  <2>4. QED
    BY <2>1, <2>2, <2>3 DEF ClientInv
<1>3. QED
  BY <1>1, <1>2 DEF LockstepInv

\* The inductive invariant holds in every state of every run.
THEOREM LockstepInvariant == Spec => []LockstepInv
<1>1. QED
  BY TypeInit, TypeStep, LockstepInit, LockstepStep, PTL DEF Spec

\* No machine is ever asked to execute a command in the past: of all the reasons
\* to disconnect, network_world_command_t's "late" is the one that never occurs.
THEOREM NeverLateTheorem == Spec => []NeverLate
<1>1. LockstepInv => NeverLate
  BY DEF LockstepInv, ServerInv, ClientInv, NeverLate
<1>2. QED
  BY <1>1, LockstepInvariant, PTL

\* No client passes its barrier, and no barrier passes the server: a server that
\* drops a tool because its "client was too fast" drops none.
THEOREM ClientBehindServerTheorem == Spec => []ClientBehindServer
<1>1. LockstepInv => ClientBehindServer
  BY DEF LockstepInv, ClientInv, MachineInv, ClientBehindServer
<1>2. QED
  BY <1>1, LockstepInvariant, PTL

-----------------------------------------------------------------------------
(* The pause for lack of clients. *)

\* A step keeps the promise if it resumes the server, or if it makes nobody
\* play and lets nobody begin to join.
LEMMA PauseKept ==
    ASSUME PausedOnlyWhenEmpty, TypeOK,
           \/ sPaused' = FALSE
           \/ /\ sPaused' = sPaused /\ pending' \in {pending, NoClient}
              /\ slot' = slot \/ \E c \in Client, s \in {"inactive", "connected"} :
                                     slot' = [slot EXCEPT ![c] = s]
    PROVE  PausedOnlyWhenEmpty'
<1> SUFFICES ASSUME sPaused', ~(sPaused' = FALSE) PROVE GetPlayingClients' = {} /\ pending' = NoClient
  BY DEF PausedOnlyWhenEmpty
<1>1. GetPlayingClients = {} /\ pending = NoClient
  BY DEF PausedOnlyWhenEmpty
<1>2. pending' = NoClient
  BY <1>1
<1>3. ASSUME NEW d \in Client PROVE slot'[d] # "playing"
  <2>1. slot[d] # "playing"
    BY <1>1 DEF GetPlayingClients
  <2>2. QED
    BY <2>1 DEF TypeOK
<1>4. QED
  BY <1>2, <1>3 DEF GetPlayingClients

\* Every step keeps the promise: a join and a sync resume the server, a frame
\* pauses it only while nobody plays and nobody joins.
LEMMA PauseStep == TypeOK /\ PausedOnlyWhenEmpty /\ [Next]_vars => PausedOnlyWhenEmpty'
<1> SUFFICES ASSUME TypeOK, PausedOnlyWhenEmpty, [Next]_vars PROVE PausedOnlyWhenEmpty'
  OBVIOUS
<1> USE DEF serverVars, wireVars, ghostVars
<1>1. ASSUME UNCHANGED <<sPaused, pending, slot>> PROVE PausedOnlyWhenEmpty'
  BY <1>1, PauseKept
<1>2. ASSUME sPaused' = FALSE PROVE PausedOnlyWhenEmpty'
  BY <1>2, PauseKept
<1>3. ASSUME NEW c \in Client, RemoveClient(c) PROVE PausedOnlyWhenEmpty'
  <2>1. /\ sPaused' = sPaused /\ pending' \in {pending, NoClient}
        /\ slot' = [slot EXCEPT ![c] = "inactive"]
    BY <1>3 DEF RemoveClient
  <2>2. QED
    BY <2>1, PauseKept
<1>4. CASE UNCHANGED vars
  BY <1>1, <1>4 DEF vars
<1>5. ASSUME NEW c \in Client, SrvReceive(c) PROVE PausedOnlyWhenEmpty'
  <2>1. CASE SrvReceiveJoin(c)
    <3>1. sPaused' = FALSE \/ UNCHANGED <<sPaused, pending, slot>>
      BY <2>1 DEF SrvReceiveJoin, AcceptJoin
    <3>2. QED
      BY <1>1, <1>2, <3>1
  <2>2. CASE SrvReceiveTool(c)
    <3>1. RemoveClient(c) \/ UNCHANGED <<sPaused, pending, slot>>
      BY <2>2 DEF SrvReceiveTool, Kick
    <3>2. QED
      BY <1>1, <1>3, <3>1
  <2>3. CASE SrvReceiveReady(c)
    <3>1. RemoveClient(c) \/ UNCHANGED <<sPaused, pending, slot>>
      BY <2>3 DEF SrvReceiveReady, Kick
    <3>2. QED
      BY <1>1, <1>3, <3>1
  <2>4. CASE SrvReceiveEOF(c)
    BY <1>3, <2>4 DEF SrvReceiveEOF
  <2>5. QED
    BY <1>5, <2>1, <2>2, <2>3, <2>4 DEF SrvReceive
<1>6. CASE SrvForceSync
  <2>1. sPaused' = FALSE \/ UNCHANGED <<sPaused, pending, slot>>
    BY <1>6 DEF SrvForceSync, SrvReload
  <2>2. QED
    BY <1>1, <1>2, <2>1
<1>7. ASSUME NEW t \in Tool, SrvTool(t) PROVE PausedOnlyWhenEmpty'
  BY <1>1, <1>7 DEF SrvTool
<1>8. CASE SrvFlush \/ SrvExecuteTool \/ SrvIdle
  BY <1>1, <1>8 DEF SrvFlush, SrvExecuteTool, SrvIdle
<1>9. CASE SrvExecuteSync
  BY <1>2, <1>9 DEF SrvExecuteSync, SrvReload
<1>10. CASE SrvFrame
  <2>1. UNCHANGED <<pending, slot>> /\ sPaused' = ShouldPause
    BY <1>10 DEF SrvFrame
  <2>2. sPaused' => GetPlayingClients = {} /\ pending = NoClient
    BY <2>1, Zenon DEF ShouldPause
  <2>3. QED
    BY <2>1, <2>2 DEF GetPlayingClients, PausedOnlyWhenEmpty
<1>11. ASSUME NEW c \in Client, Connect(c) PROVE PausedOnlyWhenEmpty'
  <2>1. /\ sPaused' = sPaused /\ pending' = pending
        /\ slot' = [slot EXCEPT ![c] = "connected"]
    BY <1>11 DEF Connect
  <2>2. QED
    BY <2>1, PauseKept
<1>12. ASSUME NEW c \in Client, CliReceive(c) PROVE PausedOnlyWhenEmpty'
  BY <1>1, <1>12 DEF CliReceive, CliJoin, CliSync, CliGame, CliDiscard, CliStep, CliCommand,
     CliReady, CliEOF, CliBecomes, Leave
<1>13. ASSUME NEW c \in Client, CliRun(c) PROVE PausedOnlyWhenEmpty'
  BY <1>1, <1>13 DEF CliRun, CliExecuteCheck, CliExecuteTool, CliExecuteSync, CliFrame, Executes,
     CliBecomes, Leave
<1>14. ASSUME NEW c \in Client,
              CliQuit(c) \/ Diverge(c) \/ \E t \in Tool : CliTool(c, t)
       PROVE  PausedOnlyWhenEmpty'
  BY <1>1, <1>14 DEF CliQuit, Diverge, CliTool
<1>15. QED
  BY <1>4, <1>5, <1>6, <1>7, <1>8, <1>9, <1>10, <1>11, <1>12, <1>13, <1>14 DEF Next, SrvStep

\* A server that pauses for lack of clients is never paused while somebody plays
\* or joins: step by step, from accepting NWC_JOIN to sending the game.
THEOREM PausedOnlyWhenEmptyTheorem == Spec => []PausedOnlyWhenEmpty
<1>1. Init => PausedOnlyWhenEmpty
  BY DEF Init, PausedOnlyWhenEmpty, GetPlayingClients
<1>2. QED
  BY <1>1, TypeInit, TypeStep, PauseStep, PTL DEF Spec

=============================================================================
